-------------------------- MODULE HostProbeProofs --------------------------
(***************************************************************************)
(* Theorems about HostProbe, for every host, report, timeout, clock, cap,  *)
(* pipe and amount of output: what is parsed is what was written, sizes    *)
(* are true and answers fresh.                                             *)
(***************************************************************************)
EXTENDS HostProbe, TLAPS

\* Stages of the main thread and of the child go together.
Together ==
    /\ pc = "start" => child = "none" /\ answer = None
    /\ child = "none" => ~heirs /\ pc \in {"start", "fresh", "done"}
    /\ child \in {"running", "exited"} => pc \in {"poll", "nap"}
    /\ child # "none" /\ pc # "fresh" /\ pc # "done" => answer = None

\* A reader keeps what has left its pipe, and ends behind the last writer.
Drained ==
    \A s \in Streams :
      /\ pipe[s] <= wrote[s] /\ kept[s] = Lesser(wrote[s] - pipe[s], Cap)
      /\ child = "none" => reader[s] = "none"
      /\ reader[s] = "ended" => pipe[s] = 0 /\ ~Writable
Joined ==
    /\ pc \in {"stderr", "parse"} => reader["stdout"] = "ended"
    /\ pc = "parse" => reader["stderr"] = "ended"

\* The child lives no longer than the timeout, and captures while it lives.
Timely ==
    /\ pc = "nap" => elapsed < Timeout
    /\ pc = "poll" => elapsed <= Timeout
    /\ child # "none" /\ age # None => elapsed <= age + Timeout
    /\ wrote["stdout"] > 0 => age # None
    /\ pc = "fresh" => age # None

\* Without a child the answer is what was measured.
Measured == child = "none" /\ answer # None => answer = ProbeLinuxDisk

IInv == TypeOK /\ Together /\ Drained /\ Joined /\ Timely /\ Measured /\ StuckIsDiscarded

LEMMA Numbers ==
    /\ Timeout \in Nat \ {0} /\ Skew \in Nat /\ Offsets \subseteq Int
    /\ Cap \in Nat /\ PipeSize \in Nat \ {0} /\ MaxOut \in Nat
    /\ MaxTime \in Nat /\ MaxTime > 3 * Timeout
    /\ None \notin 0 .. MaxTime
  BY NumberAssumption, NoneAssumption

LEMMA FirstOf ==
    ASSUME NEW S, NEW s \in Seq(S), s # <<>>
    PROVE  1 \in DOMAIN s /\ s[1] \in S
  OBVIOUS

\* What is measured are the true sizes of the one volume of all roots.
LEMMA MeasuredSizes ==
    ASSUME host \in Hosts, ProbeLinuxDisk # None
    PROVE  /\ ProbeLinuxDisk.total \in Nat
           /\ \A i \in DOMAIN host.roots :
                LET volume == host.volumes[host.roots[i].dev]
                IN  /\ ProbeLinuxDisk.total = volume.blocks * volume.size
                    /\ ProbeLinuxDisk.free = volume.avail * volume.size
<1> DEFINE device == host.roots[1].dev
           volume == host.volumes[device]
           total == volume.blocks * volume.size
           avail == volume.avail * volume.size
<1>1. /\ host.roots # <<>>
      /\ \A i \in DOMAIN host.roots : host.roots[i].dir /\ host.roots[i].dev = device
      /\ total > 0
      /\ ProbeLinuxDisk = [total |-> total, free |-> avail]
  BY DEF ProbeLinuxDisk
<1>2. host.roots \in Seq([dir : BOOLEAN, dev : DOMAIN host.volumes])
  BY HostsAssumption
<1>3. 1 \in DOMAIN host.roots /\ host.roots[1] \in [dir : BOOLEAN, dev : DOMAIN host.volumes]
  BY <1>1, <1>2, FirstOf
<1>4. volume \in [blocks : Nat, avail : Nat, size : Nat]
  <2>1. device \in DOMAIN host.volumes
    BY <1>3
  <2> HIDE DEF device
  <2>2. QED
    BY <2>1, HostsAssumption
<1>5. total \in Nat
  BY <1>4
<1>6. ASSUME NEW i \in DOMAIN host.roots
      PROVE  LET v == host.volumes[host.roots[i].dev]
             IN  /\ ProbeLinuxDisk.total = v.blocks * v.size
                 /\ ProbeLinuxDisk.free = v.avail * v.size
  <2>1. host.volumes[host.roots[i].dev] = volume
    BY <1>1, <1>6
  <2>2. ProbeLinuxDisk.total = total /\ ProbeLinuxDisk.free = avail
    BY <1>1
  <2>3. QED
    BY <2>1, <2>2
<1>7. ProbeLinuxDisk.total = total
  BY <1>1
<1>8. QED
  BY <1>5, <1>6, <1>7

LEMMA InitIInv == Init => IInv
<1> SUFFICES ASSUME Init PROVE IInv
  OBVIOUS
<1> USE Numbers DEF Init
<1>1. TypeOK
  <2>1. status \in BOOLEAN /\ heirs \in BOOLEAN
    BY Zenon
  <2>2. QED
    BY <2>1 DEF TypeOK
<1>2. Together /\ Joined /\ Measured /\ StuckIsDiscarded
  BY DEF Together, Joined, Measured, StuckIsDiscarded
<1>3. Drained
  BY DEF Drained, Lesser, Writable
<1>4. Timely
  BY DEF Timely, Streams
<1>5. QED
  BY <1>1, <1>2, <1>3, <1>4 DEF IInv

LEMMA CaptureStep == ASSUME IInv, Capture PROVE IInv'
<1> USE Numbers DEF IInv, Capture, inputs, main, pipes
<1>1. TypeOK'
  BY DEF TypeOK
<1>2. Together' /\ Joined'
  BY DEF Together, Joined
<1>3. Drained'
  BY DEF Drained, Writable
<1>4. Timely'
  <2>1. age' = 0 /\ age' # None /\ pc \in {"poll", "nap"}
    BY DEF Together
  <2>2. elapsed <= Timeout
    BY <2>1 DEF Timely, TypeOK
  <2>3. QED
    BY <2>1, <2>2 DEF Timely, TypeOK
<1>5. Measured' /\ StuckIsDiscarded'
  BY DEF Measured, StuckIsDiscarded, ProbeLinuxDisk
<1>6. QED
  BY <1>1, <1>2, <1>3, <1>4, <1>5

LEMMA WriteStep == ASSUME IInv, NEW s \in Streams, ChildWrites(s) PROVE IInv'
<1> USE Numbers DEF IInv, ChildWrites, inputs, main, pipes
<1>1. /\ s = "stdout" => age # None
      /\ wrote' = [wrote EXCEPT ![s] = @ + 1] /\ pipe' = [pipe EXCEPT ![s] = @ + 1]
      /\ wrote[s] < size[s] /\ pipe[s] < PipeSize /\ child = "running"
      /\ UNCHANGED <<kept, reader, child, heirs, age, pc, elapsed, answer, host, report, offset,
                     size, status>>
  OBVIOUS
<1> HIDE DEF ChildWrites
<1>2. wrote' \in [Streams -> 0 .. MaxOut] /\ pipe' \in [Streams -> 0 .. PipeSize]
  BY <1>1 DEF TypeOK
<1>3. TypeOK'
  BY <1>1, <1>2 DEF TypeOK
<1>4. Together' /\ Joined' /\ Measured' /\ StuckIsDiscarded'
  BY <1>1 DEF Together, Joined, Measured, StuckIsDiscarded, ProbeLinuxDisk
<1>5. Drained'
  <2> SUFFICES ASSUME NEW t \in Streams
               PROVE  /\ pipe'[t] <= wrote'[t] /\ kept'[t] = Lesser(wrote'[t] - pipe'[t], Cap)
                      /\ child' = "none" => reader'[t] = "none"
                      /\ reader'[t] = "ended" => pipe'[t] = 0 /\ ~Writable'
    BY DEF Drained
  <2>1. /\ pipe[t] \in Nat /\ wrote[t] \in Nat
        /\ pipe[t] <= wrote[t] /\ kept[t] = Lesser(wrote[t] - pipe[t], Cap)
        /\ reader[t] # "ended"
    BY <1>1 DEF Drained, TypeOK, Writable
  <2>2. wrote'[t] - pipe'[t] = wrote[t] - pipe[t] /\ pipe'[t] <= wrote'[t]
    BY <1>1, <2>1 DEF TypeOK
  <2>3. QED
    BY <1>1, <2>1, <2>2
<1>6. Timely'
  BY <1>1 DEF Timely, TypeOK
<1>7. QED
  BY <1>3, <1>4, <1>5, <1>6

LEMMA HeirsStep == ASSUME IInv, Inherit \/ LetGo PROVE IInv'
<1>1. /\ heirs' \in BOOLEAN /\ (heirs' => Writable)
      /\ UNCHANGED <<inputs, main, child, status, pipes, age>>
      /\ child = "none" => ~heirs'
  BY DEF Inherit, LetGo, Writable, IInv, Together
<1> USE DEF inputs, main, pipes
<1>2. TypeOK'
  BY <1>1 DEF IInv, TypeOK
<1>3. Together' /\ Joined' /\ Measured' /\ StuckIsDiscarded' /\ Timely'
  BY <1>1 DEF IInv, Together, Joined, Measured, StuckIsDiscarded, ProbeLinuxDisk, Timely
<1>4. Drained'
  BY <1>1 DEF IInv, Drained, Writable
<1>5. QED
  BY <1>2, <1>3, <1>4 DEF IInv

LEMMA ExitStep == ASSUME IInv, ChildExits PROVE IInv'
<1> USE DEF IInv, ChildExits, inputs, main, pipes
<1>1. TypeOK'
  BY DEF TypeOK
<1>2. Together' /\ Joined' /\ Measured' /\ StuckIsDiscarded' /\ Timely'
  BY DEF Together, Joined, Measured, StuckIsDiscarded, ProbeLinuxDisk, Timely
<1>3. Drained'
  BY DEF Drained, Writable
<1>4. QED
  BY <1>1, <1>2, <1>3

LEMMA ReadStep == ASSUME IInv, NEW s \in Streams, Reads(s) PROVE IInv'
<1> USE Numbers DEF IInv, inputs, main, pipes
<1>1. /\ reader[s] = "reading" /\ pipe[s] > 0
      /\ pipe' = [pipe EXCEPT ![s] = @ - 1]
      /\ kept' = [kept EXCEPT ![s] = Lesser(@ + 1, Cap)]
      /\ UNCHANGED <<wrote, reader, child, heirs, age, pc, elapsed, answer, host, report, offset,
                     size, status>>
  BY DEF Reads
<1>2. kept[s] + 1 \in Nat /\ Lesser(kept[s] + 1, Cap) \in 0 .. Cap
  BY DEF TypeOK, Lesser
<1>3. pipe' \in [Streams -> 0 .. PipeSize] /\ kept' \in [Streams -> 0 .. Cap]
  BY <1>1, <1>2 DEF TypeOK
<1>4. TypeOK'
  BY <1>1, <1>3 DEF TypeOK
<1>5. Together' /\ Joined' /\ Measured' /\ StuckIsDiscarded' /\ Timely'
  BY <1>1 DEF Together, Joined, Measured, StuckIsDiscarded, ProbeLinuxDisk, Timely
<1>6. Drained'
  <2> SUFFICES ASSUME NEW t \in Streams
               PROVE  /\ pipe'[t] <= wrote'[t] /\ kept'[t] = Lesser(wrote'[t] - pipe'[t], Cap)
                      /\ child' = "none" => reader'[t] = "none"
                      /\ reader'[t] = "ended" => pipe'[t] = 0 /\ ~Writable'
    BY DEF Drained
  <2>1. /\ pipe[t] \in Nat /\ wrote[t] \in Nat /\ kept[t] \in Nat
        /\ pipe[t] <= wrote[t] /\ kept[t] = Lesser(wrote[t] - pipe[t], Cap)
        /\ child = "none" => reader[t] = "none"
        /\ reader[t] = "ended" => pipe[t] = 0 /\ ~Writable
    BY DEF Drained, TypeOK
  <2>2. CASE t = s
    <3>1. pipe'[t] = pipe[t] - 1 /\ kept'[t] = Lesser(kept[t] + 1, Cap)
      BY <1>1, <2>2 DEF TypeOK
    <3>2. Lesser(kept[t] + 1, Cap) = Lesser(wrote[t] - (pipe[t] - 1), Cap)
      BY <2>1 DEF Lesser
    <3>3. QED
      BY <1>1, <2>1, <2>2, <3>1, <3>2 DEF Writable
  <2>3. CASE t # s
    <3>1. pipe'[t] = pipe[t] /\ kept'[t] = kept[t]
      BY <1>1, <2>3 DEF TypeOK
    <3>2. QED
      BY <1>1, <2>1, <3>1 DEF Writable
  <2>4. QED
    BY <2>2, <2>3
<1>7. QED
  BY <1>4, <1>5, <1>6

LEMMA ReaderEndsStep == ASSUME IInv, NEW s \in Streams, ReaderEnds(s) PROVE IInv'
<1> USE DEF IInv, inputs, main, pipes
<1>1. /\ reader[s] = "reading" /\ pipe[s] = 0 /\ ~Writable
      /\ reader' = [reader EXCEPT ![s] = "ended"]
      /\ UNCHANGED <<wrote, pipe, kept, child, heirs, age, pc, elapsed, answer, host, report, offset,
                     size, status>>
  BY DEF ReaderEnds
<1>2. TypeOK'
  BY <1>1 DEF TypeOK
<1>3. Together' /\ Measured' /\ StuckIsDiscarded' /\ Timely'
  BY <1>1 DEF Together, Measured, StuckIsDiscarded, ProbeLinuxDisk, Timely
<1>4. Joined'
  BY <1>1 DEF Joined, TypeOK, Streams
<1>5. Drained'
  BY <1>1 DEF Drained, Writable, TypeOK
<1>6. QED
  BY <1>2, <1>3, <1>4, <1>5

LEMMA LinuxStep == ASSUME IInv, MeasureLinux PROVE IInv'
<1> USE Numbers DEF IInv, MeasureLinux, inputs, pipes
<1>1. ProbeLinuxDisk # None /\ ProbeLinuxDisk.total \in Nat
  BY MeasuredSizes DEF TypeOK
<1>2. TypeOK'
  BY <1>1 DEF TypeOK
<1>3. Together' /\ Drained' /\ Joined'
  BY DEF Together, Drained, Joined, Writable
<1>4. Timely' /\ StuckIsDiscarded'
  BY DEF Together, Timely, StuckIsDiscarded, TypeOK
<1>5. Measured'
  BY DEF Measured, ProbeLinuxDisk
<1>6. QED
  BY <1>2, <1>3, <1>4, <1>5

\* An error ends the probe, before there is a child or behind it.
LEMMA ErrorStep ==
    ASSUME IInv, End(None), child' \in {child, "reaped"},
           child = "running" => child' = "reaped", child = "exited" => child' = "reaped",
           child = "none" => child' = "none",
           UNCHANGED <<inputs, status, heirs, pipes, elapsed, age>>
    PROVE  IInv'
<1> USE DEF IInv, End, inputs, pipes
<1>1. TypeOK'
  BY DEF TypeOK
<1>2. Together' /\ Joined' /\ Timely' /\ Measured' /\ StuckIsDiscarded'
  BY DEF TypeOK, Together, Joined, Timely, Measured, StuckIsDiscarded
<1>3. Drained'
  BY DEF TypeOK, Drained, Writable
<1>4. QED
  BY <1>1, <1>2, <1>3

LEMMA SpawnStep == ASSUME IInv, Spawn PROVE IInv'
<1> USE Numbers DEF IInv, Spawn, inputs, pipes
<1>1. TypeOK'
  BY DEF TypeOK
<1>2. Together' /\ Joined' /\ Measured' /\ StuckIsDiscarded'
  BY DEF Together, Joined, Measured, StuckIsDiscarded
<1>3. Drained'
  BY DEF Together, Drained
<1>4. Timely'
  BY DEF Timely, TypeOK
<1>5. QED
  BY <1>1, <1>2, <1>3, <1>4

LEMMA PollStep == ASSUME IInv, Reap \/ Nap PROVE IInv'
<1>1. CASE Reap
  <2> USE <1>1 DEF IInv, Reap, inputs, pipes
  <2>1. TypeOK'
    BY DEF TypeOK
  <2>2. Together' /\ Joined' /\ Measured' /\ StuckIsDiscarded' /\ Timely'
    BY DEF Together, Joined, Measured, StuckIsDiscarded, Timely
  <2>3. Drained'
    BY DEF Drained, Writable
  <2>4. QED
    BY <2>1, <2>2, <2>3
<1>2. CASE Nap
  BY <1>2 DEF IInv, Nap, inputs, pipes, TypeOK, Together, Joined, Measured, StuckIsDiscarded,
     Timely, Drained, Writable, ProbeLinuxDisk
<1>3. QED
  BY <1>1, <1>2

LEMMA TickStep == ASSUME IInv, Tick PROVE IInv'
<1> USE Numbers DEF IInv, inputs, pipes
<1>1. /\ pc \notin {"start", "poll", "done"}
      /\ elapsed' = Lesser(elapsed + 1, MaxTime)
      /\ age' = IF age = None THEN None ELSE Lesser(age + 1, MaxTime)
      /\ pc' = IF pc = "nap" THEN "poll" ELSE pc
      /\ UNCHANGED <<host, report, offset, size, child, status, heirs, wrote, pipe, kept, reader,
                     answer>>
  BY DEF Tick
<1>2. /\ elapsed' \in 0 .. MaxTime
      /\ elapsed' = elapsed + 1 \/ (elapsed = MaxTime /\ elapsed' = elapsed)
  BY <1>1 DEF TypeOK, Lesser
<1>3. age = None => age' = None
  BY <1>1
<1>4. age # None => /\ age \in 0 .. MaxTime /\ age' \in 0 .. MaxTime /\ age' # None
                    /\ age' = age + 1 \/ age' = MaxTime
  BY <1>1 DEF TypeOK, Lesser
<1>5. TypeOK'
  BY <1>1, <1>2, <1>3, <1>4 DEF TypeOK
<1>6. Together' /\ Joined' /\ Measured' /\ StuckIsDiscarded'
  BY <1>1 DEF Together, Joined, Measured, StuckIsDiscarded, ProbeLinuxDisk
<1>7. Drained'
  BY <1>1 DEF Drained, Writable
<1>8. Timely'
  <2>1. pc' = "poll" => elapsed' <= Timeout
    BY <1>1, <1>2 DEF Timely, TypeOK
  <2>2. child' # "none" /\ age' # None => elapsed' <= age' + Timeout
    BY <1>1, <1>2, <1>3, <1>4 DEF Timely, TypeOK
  <2>3. QED
    BY <1>1, <1>3, <1>4, <2>1, <2>2 DEF Timely
<1>9. QED
  BY <1>5, <1>6, <1>7, <1>8

LEMMA JoinStep == ASSUME IInv, NEW s \in Streams, Join(s) PROVE IInv'
<1> USE DEF IInv, Join, inputs, pipes
<1>1. TypeOK'
  BY DEF TypeOK, Streams
<1>2. Together' /\ Measured' /\ StuckIsDiscarded' /\ Timely'
  BY DEF Together, Measured, StuckIsDiscarded, ProbeLinuxDisk, Timely, Streams
<1>3. Joined'
  BY DEF Joined, Streams
<1>4. Drained'
  BY DEF Drained, Writable
<1>5. QED
  BY <1>1, <1>2, <1>3, <1>4

LEMMA ParseStep == ASSUME IInv, ParseSnapshot PROVE IInv'
<1> USE Numbers DEF IInv
<1>1. pc = "parse" /\ child = "reaped"
  BY DEF ParseSnapshot, Together, TypeOK
<1>2. CASE End(None)
  BY <1>1, <1>2, ErrorStep DEF ParseSnapshot
<1>3. CASE ~End(None)
  <2> USE DEF inputs, pipes
  <2>1. /\ pc' = "fresh" /\ answer' = report /\ size["stdout"] > 0
        /\ kept["stdout"] = size["stdout"]
        /\ UNCHANGED <<host, report, offset, size, child, status, heirs, wrote, pipe, kept, reader,
                       elapsed, age>>
    BY <1>3 DEF ParseSnapshot
  <2>2. age # None
    <3>1. /\ "stdout" \in Streams /\ kept["stdout"] = Lesser(wrote["stdout"] - pipe["stdout"], Cap)
          /\ wrote["stdout"] \in Nat /\ pipe["stdout"] \in Nat /\ size["stdout"] \in Nat
      BY DEF Drained, TypeOK, Streams
    <3>2. wrote["stdout"] > 0
      BY <2>1, <3>1 DEF Lesser
    <3>3. QED
      BY <3>2 DEF Timely
  <2>3. TypeOK'
    BY <2>1, HostsAssumption DEF TypeOK
  <2>4. Together' /\ Joined' /\ Measured' /\ StuckIsDiscarded' /\ Timely'
    BY <1>1, <2>1, <2>2 DEF Together, Joined, Measured, StuckIsDiscarded, Timely
  <2>5. Drained'
    BY <2>1 DEF Drained, Writable
  <2>6. QED
    BY <2>3, <2>4, <2>5
<1>4. QED
  BY <1>2, <1>3

LEMMA AnswerStep == ASSUME IInv, Answer PROVE IInv'
<1> USE Numbers DEF IInv
<1>1. pc = "fresh" /\ child \in {"none", "reaped"} /\ age \in 0 .. MaxTime
  BY DEF Answer, Together, Timely, TypeOK
<1>2. CASE answer' = None
  BY <1>1, <1>2, ErrorStep DEF Answer, End
<1>3. CASE answer' # None
  <2> USE DEF inputs, pipes
  <2>1. /\ pc' = "done" /\ answer' = answer /\ RequireFresh
        /\ UNCHANGED <<host, report, offset, size, child, status, heirs, wrote, pipe, kept, reader,
                       elapsed, age>>
    BY <1>3 DEF Answer, End
  <2>2. TypeOK'
    BY <2>1 DEF TypeOK
  <2>3. Together' /\ Joined' /\ Timely'
    BY <1>1, <2>1 DEF Together, Joined, Timely
  <2>4. Measured' /\ Drained'
    BY <2>1 DEF Measured, Drained, ProbeLinuxDisk, Writable
  <2>5. StuckIsDiscarded'
    <3> SUFFICES ASSUME child = "reaped" PROVE elapsed <= 3 * Timeout + offset
      BY <2>1 DEF StuckIsDiscarded
    <3>1. age - offset <= 2 * Timeout
      BY <2>1 DEF RequireFresh
    <3>2. elapsed <= age + Timeout /\ elapsed \in Nat /\ offset \in Int
      BY <1>1 DEF Timely, TypeOK
    <3>3. QED
      BY <1>1, <3>1, <3>2
  <2>6. QED
    BY <2>2, <2>3, <2>4, <2>5
<1>4. QED
  BY <1>2, <1>3

LEMMA StepIInv == IInv /\ [Next]_vars => IInv'
<1> SUFFICES ASSUME IInv, [Next]_vars PROVE IInv'
  OBVIOUS
<1>1. CASE UNCHANGED vars
  <2> USE <1>1 DEF vars, inputs, pipes, IInv
  <2>1. TypeOK' /\ Together' /\ Joined' /\ Timely'
    BY DEF TypeOK, Together, Joined, Timely
  <2>2. Drained' /\ Measured' /\ StuckIsDiscarded'
    BY DEF Drained, Measured, StuckIsDiscarded, Writable, ProbeLinuxDisk
  <2>3. QED
    BY <2>1, <2>2
<1>2. ASSUME Refuse PROVE IInv'
  BY <1>2, ErrorStep DEF Refuse, IInv, Together
<1>3. ASSUME Expire PROVE IInv'
  BY <1>3, ErrorStep DEF Expire
<1>4. ASSUME Main PROVE IInv'
  BY <1>2, <1>3, <1>4, LinuxStep, SpawnStep, PollStep, JoinStep, ParseStep, AnswerStep DEF Main
<1>5. ASSUME NEW s \in Streams, Reader(s) \/ ChildWrites(s) PROVE IInv'
  BY <1>5, ReadStep, ReaderEndsStep, WriteStep DEF Reader
<1>6. QED
  BY <1>1, <1>4, <1>5, TickStep, CaptureStep, HeirsStep, ExitStep DEF Next

THEOREM InvCorrect == Spec => []IInv
BY InitIInv, StepIInv, PTL DEF Spec

\* The probe, its child and its readers are well typed (run_bounded).
THEOREM TypeCorrect == Spec => []TypeOK
<1>1. IInv => TypeOK
  BY DEF IInv
<1>2. QED
  BY <1>1, InvCorrect, PTL

\* What is parsed is all that was written, up to the cap, and as long as
\* anybody may write somebody reads (read_capped, join_reader).
THEOREM DrainedCorrect == Spec => []OutputIsDrained
<1>1. IInv => OutputIsDrained
  <2> SUFFICES ASSUME IInv, NEW s \in Streams
               PROVE  /\ pc = "parse" => kept[s] = Lesser(wrote[s], Cap)
                      /\ Writable /\ child # "none" => reader[s] # "ended"
    BY DEF OutputIsDrained
  <2>1. ASSUME pc = "parse" PROVE kept[s] = Lesser(wrote[s], Cap)
    <3>1. reader[s] = "ended"
      BY <2>1 DEF IInv, Joined, Streams
    <3>2. pipe[s] = 0 /\ kept[s] = Lesser(wrote[s] - pipe[s], Cap) /\ wrote[s] \in Nat
      BY <3>1 DEF IInv, Drained, TypeOK
    <3>3. wrote[s] - pipe[s] = wrote[s]
      BY <3>2
    <3>4. QED
      BY <3>2, <3>3
  <2>2. Writable => reader[s] # "ended"
    BY DEF IInv, Drained
  <2>3. QED
    BY <2>1, <2>2
<1>2. QED
  BY <1>1, InvCorrect, PTL

\* The sizes of a Linux host are those of the one volume of all scan roots
\* (probe_linux_disk).
THEOREM SizesCorrect == Spec => []SizesAreTrue
<1>1. IInv => SizesAreTrue
  BY MeasuredSizes DEF IInv, TypeOK, Measured, SizesAreTrue
<1>2. QED
  BY <1>1, InvCorrect, PTL

\* No answer rests on what a stuck probe saw long ago (require_fresh).
THEOREM FreshCorrect == Spec => []StuckIsDiscarded
<1>1. IInv => StuckIsDiscarded
  BY DEF IInv
<1>2. QED
  BY <1>1, InvCorrect, PTL
============================================================================
