--------------------------- MODULE AuditLogProofs ---------------------------
(***************************************************************************)
(* Theorems about AuditLog, for any number of writers, records, failing    *)
(* calls, kills and losses of power: what an append has acknowledged is on *)
(* the disk, whole, unless the whole log is lost with its new name, and    *)
(* the history shows the newest of it whatever is torn before.             *)
(***************************************************************************)
EXTENDS AuditLog, SequenceTheorems, WellFoundedInduction, TLAPS

\* Who is past the flock has it, alone.
FlockHeld ==
    \A w \in Writers : pc[w] \in {"write", "sync", "unlock"} <=> flock = w

\* An append that is under way has a record of its own.
RecordNamed == \A w \in Writers : pc[w] # "idle" => record[w] \in 1 .. MaxRecords

\* The pieces that w has written are the last ones of the file.
AtEnd(w) ==
    /\ done[w] <= Len(log)
    /\ \A part \in 1 .. done[w] :
         log[Len(log) - done[w] + part] = [record |-> record[w], part |-> part]

EndWritten ==
    \A w \in Writers :
      /\ pc[w] = "flock" => done[w] = 0
      /\ pc[w] = "write" => done[w] < Newline /\ AtEnd(w)
      /\ pc[w] = "sync" => done[w] = Newline /\ AtEnd(w)

\* Record r lies whole in what is on the disk for certain.
Durable(r) == \E k \in 0 .. Len(log) : WrittenAt(r, k, synced)

UnlockDurable == \A w \in Writers : pc[w] = "unlock" => Durable(record[w])

\* Whoever appends has opened the file, and so created it.
FileOpened == name = "none" => \A w \in Writers : pc[w] = "idle"

IInv ==
    /\ TypeOK /\ FlockHeld /\ RecordNamed /\ EndWritten /\ FileOpened
    /\ UnlockDurable /\ AcknowledgedIsDurable

LEMMA Numbers ==
    /\ Newline = 3 /\ Newline \in Nat
    /\ MaxRecords \in Nat /\ MaxFaults \in Nat
  BY BoundAssumption DEF Newline

LEMMA AppendType ==
    ASSUME NEW S, NEW s \in Seq(S), NEW e \in S
    PROVE  Append(s, e) \in Seq(S)
  OBVIOUS

LEMMA InitIInv == Init => IInv
<1> SUFFICES ASSUME Init PROVE IInv
  OBVIOUS
<1>1. TypeOK
  BY Numbers DEF Init, TypeOK, Stages
<1>2. FlockHeld
  BY NoneAssumption DEF Init, FlockHeld
<1>3. RecordNamed /\ EndWritten /\ FileOpened /\ UnlockDurable /\ AcknowledgedIsDurable
  BY DEF Init, RecordNamed, EndWritten, FileOpened, UnlockDurable, AcknowledgedIsDurable
<1>4. QED
  BY <1>1, <1>2, <1>3 DEF IInv

\* What is durable stays so while the file keeps what is on the disk.
LEMMA DurableKept ==
    ASSUME TypeOK, NEW r, Durable(r),
           log' \in Seq(Piece), synced' \in Nat, synced <= synced', synced' <= Len(log'),
           \A i \in 1 .. synced : log'[i] = log[i]
    PROVE  Durable(r)'
<1>1. PICK k \in 0 .. Len(log) : WrittenAt(r, k, synced)
  BY DEF Durable
<1>2. k \in Nat /\ k + 3 <= synced /\ synced \in Nat
  BY <1>1 DEF WrittenAt, Newline, TypeOK
<1>3. k \in 0 .. Len(log') /\ k + 3 <= synced'
  BY <1>2
<1>4. \A part \in 1 .. 3 : log'[k + part] = [record |-> r, part |-> part]
  BY <1>1, <1>2 DEF WrittenAt, Newline
<1>5. QED
  BY <1>3, <1>4 DEF Durable, WrittenAt, Newline

\* If the file is left alone, so is what is durable.
LEMMA DurableSame ==
    ASSUME UNCHANGED <<log, synced>>, NEW r, Durable(r)
    PROVE  Durable(r)'
  BY DEF Durable, WrittenAt

LEMMA OpenStep == ASSUME IInv, NEW w \in Writers, Open(w) PROVE IInv'
<1> USE Numbers DEF IInv, Open, Goto, history
<1>1. TypeOK'
  BY DEF TypeOK, Stages
<1>2. FlockHeld' /\ RecordNamed' /\ FileOpened'
  BY DEF TypeOK, FlockHeld, RecordNamed, FileOpened
<1>3. EndWritten'
  BY DEF TypeOK, EndWritten, AtEnd
<1>4. UnlockDurable'
  BY DurableSame DEF TypeOK, UnlockDurable
<1>5. AcknowledgedIsDurable'
  BY DurableSame DEF AcknowledgedIsDurable, Durable, FileOpened
<1>6. QED
  BY <1>1, <1>2, <1>3, <1>4, <1>5

LEMMA LockStep == ASSUME IInv, NEW w \in Writers, Lock(w) PROVE IInv'
<1> USE Numbers, NoneAssumption DEF IInv, Lock, Goto, history
<1>1. TypeOK'
  BY DEF TypeOK, Stages
<1>2. FlockHeld' /\ RecordNamed' /\ FileOpened'
  BY DEF TypeOK, FlockHeld, RecordNamed, FileOpened
<1>3. EndWritten'
  BY DEF TypeOK, EndWritten, AtEnd
<1>4. UnlockDurable'
  BY DurableSame DEF TypeOK, UnlockDurable
<1>5. AcknowledgedIsDurable'
  BY DurableSame DEF AcknowledgedIsDurable, Durable, FileOpened
<1>6. QED
  BY <1>1, <1>2, <1>3, <1>4, <1>5

LEMMA WriteStep == ASSUME IInv, NEW w \in Writers, Write(w) PROVE IInv'
<1> USE Numbers DEF IInv, Write, Goto, history
<1> DEFINE piece == [record |-> record[w], part |-> done[w] + 1]
<1>1. /\ pc[w] = "write" /\ flock = w /\ done[w] \in 0 .. 2
      /\ record[w] \in 1 .. MaxRecords
  BY DEF TypeOK, FlockHeld, RecordNamed, EndWritten
<1>2. piece \in Piece
  BY <1>1 DEF Piece
<1>3. /\ log' = Append(log, piece) /\ log' \in Seq(Piece) /\ Len(log') = Len(log) + 1
      /\ \A i \in 1 .. Len(log) : log'[i] = log[i]
      /\ log'[Len(log) + 1] = piece
  BY <1>2 DEF TypeOK
<1>4. /\ done' \in [Writers -> 0 .. Newline] /\ done'[w] = done[w] + 1
      /\ \A v \in Writers \ {w} : done'[v] = done[v]
  BY <1>1 DEF TypeOK
<1>5. /\ pc' \in [Writers -> Stages]
      /\ pc'[w] = IF done'[w] = Newline THEN "sync" ELSE "write"
      /\ \A v \in Writers \ {w} : pc'[v] = pc[v]
  BY <1>1 DEF TypeOK, Stages
<1>6. TypeOK'
  BY <1>3, <1>4, <1>5 DEF TypeOK
<1>7. FlockHeld' /\ RecordNamed' /\ FileOpened' /\ name # "none"
  BY <1>1, <1>5 DEF FlockHeld, RecordNamed, FileOpened
<1>8. \A v \in Writers \ {w} : pc[v] \notin {"write", "sync", "unlock"}
  BY <1>1 DEF FlockHeld
<1>9. AtEnd(w)'
  <2>1. done'[w] <= Len(log')
    BY <1>1, <1>3, <1>4 DEF EndWritten, AtEnd, TypeOK
  <2>2. ASSUME NEW part \in 1 .. done'[w]
        PROVE  log'[Len(log') - done'[w] + part] = [record |-> record'[w], part |-> part]
    <3>1. Len(log') - done'[w] + part = Len(log) - done[w] + part /\ Len(log) \in Nat
      BY <1>1, <1>3, <1>4 DEF TypeOK
    <3>2. CASE part = done[w] + 1
      <4>1. Len(log) - done[w] + part = Len(log) + 1
        BY <1>1, <3>1, <3>2
      <4>2. QED
        BY <1>3, <3>1, <3>2, <4>1
    <3>3. CASE part # done[w] + 1
      <4>1. part \in 1 .. done[w]
        BY <1>1, <1>4, <3>3
      <4>2. Len(log) - done[w] + part \in 1 .. Len(log)
        BY <1>1, <3>1, <4>1 DEF EndWritten, AtEnd
      <4>3. log[Len(log) - done[w] + part] = [record |-> record[w], part |-> part]
        BY <1>1, <4>1 DEF EndWritten, AtEnd
      <4>4. QED
        BY <1>3, <3>1, <4>2, <4>3
    <3>4. QED
      BY <3>2, <3>3
  <2>3. QED
    BY <2>1, <2>2 DEF AtEnd
<1>10. EndWritten'
  BY <1>1, <1>4, <1>5, <1>8, <1>9 DEF EndWritten
<1>11. \A r : Durable(r) => Durable(r)'
  <2>1. /\ synced' \in Nat /\ synced <= synced' /\ synced' <= Len(log')
        /\ \A i \in 1 .. synced : log'[i] = log[i]
    BY <1>3 DEF TypeOK
  <2>2. QED
    BY <1>3, <2>1, DurableKept
<1>12. UnlockDurable'
  BY <1>5, <1>8, <1>11 DEF UnlockDurable
<1>13. AcknowledgedIsDurable'
  BY <1>7, <1>11 DEF AcknowledgedIsDurable, Durable
<1>14. QED
  BY <1>6, <1>7, <1>10, <1>12, <1>13

LEMMA SyncStep == ASSUME IInv, NEW w \in Writers, Sync(w) PROVE IInv'
<1> USE Numbers DEF IInv, Sync, Goto, history
<1>1. TypeOK'
  BY DEF TypeOK, Stages
<1>2. FlockHeld' /\ RecordNamed' /\ FileOpened'
  BY DEF TypeOK, FlockHeld, RecordNamed, FileOpened
<1>3. EndWritten'
  BY DEF TypeOK, EndWritten, AtEnd
<1>4. \A r : Durable(r) => Durable(r)'
  <2>1. /\ log' \in Seq(Piece) /\ synced' \in Nat /\ synced <= synced' /\ synced' <= Len(log')
        /\ \A i \in 1 .. synced : log'[i] = log[i]
    BY DEF TypeOK
  <2>2. QED
    BY <2>1, DurableKept
<1>5. Durable(record[w])'
  <2>1. PICK k \in 0 .. Len(log) : k + 3 = Len(log)
    <3>1. Len(log) - 3 \in 0 .. Len(log) /\ (Len(log) - 3) + 3 = Len(log)
      BY DEF TypeOK, EndWritten, AtEnd
    <3>2. QED
      BY <3>1
  <2>2. \A part \in 1 .. 3 : log[k + part] = [record |-> record[w], part |-> part]
    <3>1. k = Len(log) - 3
      BY <2>1
    <3>2. QED
      BY <3>1 DEF EndWritten, AtEnd
  <2>3. WrittenAt(record[w], k, Len(log))
    BY <2>1, <2>2 DEF WrittenAt
  <2>4. log' = log /\ synced' = Len(log) /\ record' = record
    OBVIOUS
  <2> HIDE DEF IInv, Sync, Goto, history
  <2>5. QED
    BY <2>3, <2>4 DEF Durable, WrittenAt
<1>6. UnlockDurable'
  BY <1>4, <1>5 DEF TypeOK, UnlockDurable
<1>7. AcknowledgedIsDurable'
  BY <1>4 DEF AcknowledgedIsDurable, Durable
<1>8. QED
  BY <1>1, <1>2, <1>3, <1>6, <1>7

LEMMA UnlockStep == ASSUME IInv, NEW w \in Writers, Unlock(w) PROVE IInv'
<1> USE Numbers, NoneAssumption DEF IInv, Unlock, Goto, history
<1>1. record[w] \in 1 .. MaxRecords /\ flock = w /\ pc[w] = "unlock"
  BY DEF RecordNamed, FlockHeld
<1>2. TypeOK'
  <2>1. since' \in Seq(1 .. MaxRecords) /\ acked' \subseteq 1 .. MaxRecords
    <3>1. since \in Seq(1 .. MaxRecords) /\ acked \subseteq 1 .. MaxRecords
      BY DEF TypeOK
    <3>2. since' = Append(since, record[w]) /\ acked' = acked \cup {record[w]}
      OBVIOUS
    <3>3. Append(since, record[w]) \in Seq(1 .. MaxRecords)
      BY <1>1, <3>1, AppendType
    <3>4. QED
      BY <1>1, <3>1, <3>2, <3>3
  <2>2. pc' \in [Writers -> Stages] /\ flock' \in Writers \cup {None}
    BY DEF TypeOK, Stages
  <2>3. QED
    BY <2>1, <2>2 DEF TypeOK
<1>3. FlockHeld' /\ RecordNamed' /\ FileOpened' /\ name' # "none"
  BY <1>1 DEF TypeOK, FlockHeld, RecordNamed, FileOpened
<1>4. EndWritten'
  BY DEF TypeOK, EndWritten, AtEnd
<1>5. UnlockDurable'
  BY DurableSame DEF TypeOK, UnlockDurable
<1>6. Durable(record[w])'
  BY <1>1, DurableSame DEF UnlockDurable
<1>7. AcknowledgedIsDurable'
  BY <1>3, <1>6, DurableSame DEF AcknowledgedIsDurable, Durable
<1>8. QED
  BY <1>2, <1>3, <1>4, <1>5, <1>7

LEMMA StopStep == ASSUME IInv, NEW w \in Writers, Stop(w) PROVE IInv'
<1> USE Numbers, NoneAssumption DEF IInv, Stop, Fault, Goto
<1>1. TypeOK'
  BY DEF TypeOK, Stages
<1>2. FlockHeld' /\ RecordNamed' /\ FileOpened'
  BY DEF TypeOK, FlockHeld, RecordNamed, FileOpened
<1>3. EndWritten'
  BY DEF TypeOK, EndWritten, AtEnd
<1>4. UnlockDurable'
  BY DurableSame DEF TypeOK, UnlockDurable
<1>5. AcknowledgedIsDurable'
  BY DurableSame DEF AcknowledgedIsDurable, Durable, FileOpened
<1>6. QED
  BY <1>1, <1>2, <1>3, <1>4, <1>5

LEMMA PowerLossStep == ASSUME IInv, PowerLoss PROVE IInv'
<1> USE Numbers, NoneAssumption DEF IInv, PowerLoss, Fault
<1>1. FlockHeld' /\ RecordNamed' /\ EndWritten' /\ FileOpened' /\ UnlockDurable'
  BY DEF FlockHeld, RecordNamed, EndWritten, FileOpened, UnlockDurable
<1>2. CASE Cut
  <2>1. PICK n \in synced .. Len(log) : log' = SubSeq(log, 1, n) /\ synced' = n
    BY <1>2 DEF Cut
  <2>2. n \in Nat /\ n <= Len(log) /\ synced \in Nat /\ synced <= n
    BY DEF TypeOK
  <2>3. /\ log' \in Seq(Piece) /\ Len(log') = n
        /\ \A i \in 1 .. n : log'[i] = log[i]
    BY <2>1, <2>2 DEF TypeOK
  <2>4. TypeOK'
    BY <1>2, <2>1, <2>2, <2>3 DEF Cut, TypeOK, Stages
  <2>5. \A r : Durable(r) => Durable(r)'
    BY <2>1, <2>2, <2>3, DurableKept
  <2>6. name' = "none" => log' = <<>> /\ acked' = lost'
    <3>1. name' = "none" => name = "none"
      BY <1>2 DEF Cut
    <3>2. name' = "none" => log = <<>> /\ acked = lost /\ Len(log) = 0
      BY <3>1 DEF AcknowledgedIsDurable
    <3>3. name' = "none" => Len(log') = 0
      BY <2>2, <2>3, <3>2
    <3>4. QED
      BY <1>2, <2>3, <3>2, <3>3 DEF Cut
  <2>7. AcknowledgedIsDurable'
    BY <1>2, <2>5, <2>6 DEF Cut, AcknowledgedIsDurable, Durable
  <2>8. QED
    BY <1>1, <2>4, <2>7
<1>3. CASE Gone
  <2>1. TypeOK'
    BY <1>3 DEF Gone, TypeOK, Stages
  <2>2. AcknowledgedIsDurable'
    BY <1>3 DEF Gone, AcknowledgedIsDurable
  <2>3. QED
    BY <1>1, <2>1, <2>2
<1>4. QED
  BY <1>2, <1>3

LEMMA NameSettlesStep == ASSUME IInv, NameSettles PROVE IInv'
<1> USE DEF IInv, NameSettles, history
<1>1. TypeOK' /\ FlockHeld' /\ RecordNamed' /\ EndWritten' /\ FileOpened'
  BY DEF TypeOK, FlockHeld, RecordNamed, EndWritten, AtEnd, FileOpened
<1>2. UnlockDurable'
  BY DurableSame DEF UnlockDurable
<1>3. AcknowledgedIsDurable'
  BY DurableSame DEF AcknowledgedIsDurable, Durable
<1>4. QED
  BY <1>1, <1>2, <1>3

LEMMA StepIInv == IInv /\ [Next]_vars => IInv'
<1> SUFFICES ASSUME IInv, [Next]_vars PROVE IInv'
  OBVIOUS
<1>1. CASE UNCHANGED vars
  BY <1>1 DEF vars, IInv, TypeOK, FlockHeld, RecordNamed, EndWritten, AtEnd,
     FileOpened, UnlockDurable, Durable, AcknowledgedIsDurable, WrittenAt
<1>2. CASE Next
  BY <1>2, OpenStep, LockStep, WriteStep, SyncStep, UnlockStep, StopStep, PowerLossStep,
     NameSettlesStep
  DEF Next, Progress
<1>3. QED
  BY <1>1, <1>2

THEOREM InvCorrect == Spec => []IInv
BY InitIInv, StepIInv, PTL DEF Spec

\* The log and its writers are well typed in every reachable state
\* (append_private).
THEOREM TypeCorrect == Spec => []TypeOK
<1>1. IInv => TypeOK
  BY DEF IInv
<1>2. QED
  BY <1>1, InvCorrect, PTL

\* A record whose append has reported success is on the disk, whole and in one
\* piece, whatever fails, is killed or loses power afterwards, unless the loss
\* took a log whose name was not yet on the disk, and then all of it
\* (append_private).
THEOREM DurableCorrect == Spec => []AcknowledgedIsDurable
<1>1. IInv => AcknowledgedIsDurable
  BY DEF IInv
<1>2. QED
  BY <1>1, InvCorrect, PTL

----------------------------------------------------------------------------
(* Induction, for the reading of the file.                                 *)

\* Every set of natural numbers with a member has a least one.
LEMMA LeastNatural ==
    ASSUME NEW S, S \subseteq Nat, S # {}
    PROVE  \E m \in S : \A k \in S : m <= k
<1> DEFINE R == {p \in Nat \X Nat : p[1] < p[2]}
<1>1. R = OpToRel(<, Nat)
  BY DEF OpToRel
<1>2. PICK m \in S : \A y \in S : ~(<<y, m>> \in R)
  <2> HIDE DEF R
  <2>1. IsWellFoundedOn(R, Nat)
    BY <1>1, NatLessThanWellFounded
  <2>2. QED
    BY <2>1, WFMin
<1>3. ASSUME NEW k \in S PROVE m <= k
  <2>1. k \in Nat /\ m \in Nat
    OBVIOUS
  <2>2. <<k, m>> \in Nat \X Nat /\ <<k, m>>[1] = k /\ <<k, m>>[2] = m
    BY <2>1
  <2>3. k < m => <<k, m>> \in R
    BY <2>2
  <2>4. QED
    BY <1>2, <2>1, <2>3
<1>4. QED
  BY <1>3

\* A set with 0 and with the successor of each of its members has them all.
LEMMA AllNaturals ==
    ASSUME NEW S, S \subseteq Nat, 0 \in S, \A n \in S : n + 1 \in S
    PROVE  S = Nat
<1> SUFFICES ASSUME S # Nat PROVE FALSE
  OBVIOUS
<1>1. PICK m \in Nat \ S : \A k \in Nat \ S : m <= k
  <2>1. Nat \ S # {} /\ Nat \ S \subseteq Nat
    OBVIOUS
  <2>2. QED
    BY <2>1, LeastNatural
<1>2. m \in Nat /\ m # 0 /\ m \notin S
  OBVIOUS
<1>3. m - 1 \in Nat /\ ~(m <= m - 1)
  BY <1>2
<1>4. m - 1 \in S /\ (m - 1) + 1 = m
  BY <1>1, <1>2, <1>3
<1>5. QED
  BY <1>2, <1>4

----------------------------------------------------------------------------
(* Reading the lines.                                                      *)

Nothing == [lines |-> <<>>, open |-> <<>>]
Readings == [lines : Seq(Seq(Piece)), open : Seq(Piece)]

LEMMA NothingType == Nothing \in Readings
<1>1. \A T : <<>> \in Seq(T)
  OBVIOUS
<1>2. QED
  BY <1>1 DEF Nothing, Readings

LEMMA AfterType ==
    ASSUME NEW s \in Readings, NEW p \in Piece
    PROVE  Closed(s) \in Seq(Seq(Piece)) /\ After(s, p) \in Readings
<1>1. s.lines \in Seq(Seq(Piece)) /\ s.open \in Seq(Piece)
  BY DEF Readings
<1>2. Append(s.lines, s.open) \in Seq(Seq(Piece)) /\ Append(s.open, p) \in Seq(Piece)
  BY <1>1
<1>3. Closed(s) \in Seq(Seq(Piece))
  BY <1>1, <1>2 DEF Closed
<1>4. QED
  BY <1>1, <1>2, <1>3 DEF After, Readings

\* Every sequence of pieces can be read to its end.
LEMMA ReadingExists ==
    ASSUME NEW n \in Nat, NEW l, \A i \in 1 .. n : l[i] \in Piece
    PROVE  \E f \in [0 .. n -> Readings] :
             f = [i \in 0 .. n |-> IF i = 0 THEN Nothing ELSE After(f[i - 1], l[i])]
<1> DEFINE Reads(m, f) == /\ f \in [0 .. m -> Readings] /\ f[0] = Nothing
                          /\ \A i \in 1 .. m : f[i] = After(f[i - 1], l[i])
           S == {m \in Nat : m <= n => \E f : Reads(m, f)}
<1>1. 0 \in S
  <2>1. Reads(0, [i \in 0 .. 0 |-> Nothing])
    BY NothingType
  <2>2. QED
    BY <2>1
<1>2. ASSUME NEW m \in S PROVE m + 1 \in S
  <2> SUFFICES ASSUME m + 1 <= n PROVE \E f : Reads(m + 1, f)
    OBVIOUS
  <2>1. m \in Nat /\ m <= n
    OBVIOUS
  <2>2. PICK f : Reads(m, f)
    BY <2>1
  <2> DEFINE h == [i \in 0 .. m + 1 |-> IF i = m + 1 THEN After(f[m], l[m + 1]) ELSE f[i]]
  <2>3. After(f[m], l[m + 1]) \in Readings
    <3>1. m + 1 \in 1 .. n /\ m \in 0 .. m
      BY <2>1
    <3>2. f[m] \in Readings /\ l[m + 1] \in Piece
      BY <2>2, <3>1
    <3>3. QED
      BY <3>2, AfterType
  <2>4. h \in [0 .. m + 1 -> Readings] /\ h[0] = Nothing
    BY <2>1, <2>2, <2>3
  <2>5. ASSUME NEW i \in 1 .. m + 1 PROVE h[i] = After(h[i - 1], l[i])
    <3>1. CASE i = m + 1
      BY <2>1, <3>1
    <3>2. CASE i # m + 1
      <4>1. i \in 1 .. m /\ i \in 0 .. m /\ i - 1 \in 0 .. m /\ i - 1 # m + 1
        BY <2>1, <3>2
      <4>2. h[i] = f[i] /\ h[i - 1] = f[i - 1]
        BY <2>1, <3>2, <4>1
      <4>3. QED
        BY <2>2, <4>1, <4>2
    <3>3. QED
      BY <3>1, <3>2
  <2>6. Reads(m + 1, h)
    BY <2>4, <2>5
  <2>7. QED
    BY <2>6
<1>3. n \in S
  <2> HIDE DEF S
  <2>1. S \subseteq Nat
    BY DEF S
  <2>2. QED
    BY <1>1, <1>2, <2>1, AllNaturals
<1>4. \E f : Reads(n, f)
  <2>1. n <= n
    OBVIOUS
  <2>2. QED
    BY <1>3, <2>1
<1>5. PICK f : Reads(n, f)
  BY <1>4
<1>6. f = [i \in 0 .. n |-> IF i = 0 THEN Nothing ELSE After(f[i - 1], l[i])]
  <2>1. \A i \in 0 .. n : f[i] = IF i = 0 THEN Nothing ELSE After(f[i - 1], l[i])
    BY <1>5
  <2>2. QED
    BY <1>5, <2>1
<1>7. QED
  BY <1>5, <1>6

LEMMA SplitFacts ==
    ASSUME NEW l \in Seq(Piece)
    PROVE  /\ \A i \in 0 .. Len(l) : Split(l)[i] \in Readings
           /\ \A i \in 1 .. Len(l) : Split(l)[i] = After(Split(l)[i - 1], l[i])
<1> DEFINE n == Len(l)
           read == Split(l)
<1>1. n \in Nat /\ \A i \in 1 .. n : l[i] \in Piece
  OBVIOUS
<1>2. PICK g \in [0 .. n -> Readings] :
        g = [i \in 0 .. n |-> IF i = 0 THEN Nothing ELSE After(g[i - 1], l[i])]
  <2> HIDE DEF n
  <2>1. QED
    BY <1>1, ReadingExists
<1>3. read = [i \in 0 .. n |-> IF i = 0 THEN Nothing ELSE After(read[i - 1], l[i])]
  BY <1>2 DEF Split, Nothing
<1>4. read[0] = Nothing /\ \A i \in 1 .. n : read[i] = After(read[i - 1], l[i])
  <2> HIDE DEF read
  <2>1. QED
    BY <1>1, <1>3
<1>5. \A i \in 0 .. n : read[i] \in Readings
  <2> HIDE DEF read
  <2> DEFINE S == {m \in Nat : m <= n => read[m] \in Readings}
  <2>1. 0 \in S
    BY <1>4, NothingType
  <2>2. ASSUME NEW m \in S PROVE m + 1 \in S
    <3> SUFFICES ASSUME m + 1 <= n PROVE read[m + 1] \in Readings
      OBVIOUS
    <3>1. m + 1 \in 1 .. n /\ (m + 1) - 1 = m /\ read[m] \in Readings
      BY <1>1
    <3>2. QED
      BY <1>1, <1>4, <3>1, AfterType
  <2>3. S = Nat
    <3> HIDE DEF S
    <3>1. S \subseteq Nat
      BY DEF S
    <3>2. QED
      BY <2>1, <2>2, <3>1, AllNaturals
  <2>4. QED
    BY <1>1, <2>3
<1>6. QED
  BY <1>4, <1>5

Text(r) == <<[record |-> r, part |-> 1], [record |-> r, part |-> 2]>>

\* From s to t one line more has been read, the text of r if s was at the
\* beginning of a line.
Extends(t, s, r) ==
    /\ t.open = <<>> /\ Len(t.lines) = Len(s.lines) + 1
    /\ \A i \in 1 .. Len(s.lines) : t.lines[i] = s.lines[i]
    /\ s.open = <<>> => t.lines[Len(s.lines) + 1] = Text(r)

LEMMA TwoAppended ==
    ASSUME NEW S, NEW p \in S, NEW q \in S
    PROVE  Append(Append(<<>>, p), q) = <<p, q>>
<1>1. <<>> \in Seq(S)
  OBVIOUS
<1>2. PICK x : x = Append(<<>>, p)
  OBVIOUS
<1>3. x \in Seq(S) /\ Len(x) = 1 /\ x[1] = p
  BY <1>1, <1>2, AppendProperties
<1>4. PICK y : y = Append(x, q)
  OBVIOUS
<1>5. y \in Seq(S) /\ Len(y) = 2 /\ y[1] = p /\ y[2] = q
  <2>1. x \in Seq(S)
    BY <1>3
  <2>2. /\ y \in Seq(S) /\ Len(y) = Len(x) + 1
        /\ \A i \in 1 .. Len(x) : y[i] = x[i]
        /\ y[Len(x) + 1] = q
    BY <1>4, <2>1, AppendProperties
  <2>3. QED
    BY <1>3, <2>2
<1>6. <<p, q>> \in Seq(S) /\ Len(<<p, q>>) = 2 /\ <<p, q>>[1] = p /\ <<p, q>>[2] = q
  OBVIOUS
<1>7. y = <<p, q>>
  BY <1>5, <1>6, SeqEqual
<1>8. QED
  BY <1>2, <1>4, <1>7

\* Reading a whole record ends a line.
LEMMA LineEnded ==
    ASSUME NEW s \in Readings, NEW p \in Piece, NEW q \in Piece, NEW e \in Piece,
           p.part = 1, q.part = 2, e.part = Newline
    PROVE  After(After(After(s, p), q), e)
             = [lines |-> Append(s.lines, Append(Append(s.open, p), q)), open |-> <<>>]
<1>1. s.lines \in Seq(Seq(Piece)) /\ s.open \in Seq(Piece)
  BY DEF Readings
<1> DEFINE line == Append(Append(s.open, p), q)
<1>2. Append(s.open, p) \in Seq(Piece) /\ Len(Append(s.open, p)) = Len(s.open) + 1
  BY <1>1
<1>3. line \in Seq(Piece) /\ Len(line) = Len(s.open) + 2 /\ Len(s.open) \in Nat
  BY <1>1, <1>2
<1>4. line # <<>>
  <2> HIDE DEF line
  <2>1. Len(line) # 0
    BY <1>3
  <2>2. QED
    BY <2>1
<1>5. After(After(s, p), q) = [lines |-> s.lines, open |-> line]
  BY DEF After, Newline
<1>6. Closed([lines |-> s.lines, open |-> line]) = Append(s.lines, line)
  <2> HIDE DEF line
  <2>1. QED
    BY <1>4 DEF Closed
<1>7. \A x : After(x, e) = [lines |-> Closed(x), open |-> <<>>]
  BY DEF After
<1>8. QED
  BY <1>5, <1>6, <1>7

\* A whole record in the file ends a line; it is that line if the one before
\* it had ended.
LEMMA RecordRead ==
    ASSUME NEW l \in Seq(Piece), NEW k \in Nat, k + 3 <= Len(l), NEW r,
           l[k + 1] = [record |-> r, part |-> 1],
           l[k + 2] = [record |-> r, part |-> 2],
           l[k + 3] = [record |-> r, part |-> 3],
           NEW s, s = Split(l)[k], NEW t, t = Split(l)[k + 3]
    PROVE  s \in Readings /\ t \in Readings /\ Extends(t, s, r)
<1>1. /\ s \in Readings /\ t \in Readings
      /\ t = After(After(After(s, l[k + 1]), l[k + 2]), l[k + 3])
      /\ l[k + 1] \in Piece /\ l[k + 2] \in Piece /\ l[k + 3] \in Piece
  <2>1. /\ k \in 0 .. Len(l) /\ k + 3 \in 0 .. Len(l)
        /\ k + 1 \in 1 .. Len(l) /\ k + 2 \in 1 .. Len(l) /\ k + 3 \in 1 .. Len(l)
        /\ (k + 1) - 1 = k /\ (k + 2) - 1 = k + 1 /\ (k + 3) - 1 = k + 2
    OBVIOUS
  <2>2. /\ \A i \in 0 .. Len(l) : Split(l)[i] \in Readings
        /\ \A i \in 1 .. Len(l) : Split(l)[i] = After(Split(l)[i - 1], l[i])
    BY SplitFacts
  <2>3. s \in Readings /\ t \in Readings
    BY <2>1, <2>2
  <2>4. /\ Split(l)[k + 1] = After(s, l[k + 1])
        /\ Split(l)[k + 2] = After(Split(l)[k + 1], l[k + 2])
        /\ t = After(Split(l)[k + 2], l[k + 3])
    BY <2>1, <2>2
  <2>5. QED
    BY <2>1, <2>3, <2>4
<1> DEFINE line == Append(Append(s.open, l[k + 1]), l[k + 2])
<1>2. s.lines \in Seq(Seq(Piece)) /\ s.open \in Seq(Piece)
  BY <1>1 DEF Readings
<1>3. line \in Seq(Piece)
  <2>1. Append(s.open, l[k + 1]) \in Seq(Piece)
    BY <1>1, <1>2, AppendType
  <2>2. QED
    BY <1>1, <2>1, AppendType
<1>4. t = [lines |-> Append(s.lines, line), open |-> <<>>]
  <2>1. l[k + 1].part = 1 /\ l[k + 2].part = 2 /\ l[k + 3].part = Newline
    BY DEF Newline
  <2>2. QED
    BY <1>1, <2>1, LineEnded
<1>5. s.open = <<>> => line = Text(r)
  <2>1. Text(r) = <<l[k + 1], l[k + 2]>>
    BY DEF Text
  <2>2. QED
    BY <1>1, <2>1, TwoAppended
<1> HIDE DEF line
<1>6. /\ Len(Append(s.lines, line)) = Len(s.lines) + 1
      /\ \A i \in 1 .. Len(s.lines) : Append(s.lines, line)[i] = s.lines[i]
      /\ Append(s.lines, line)[Len(s.lines) + 1] = line
  BY <1>2, <1>3
<1>7. t.lines = Append(s.lines, line) /\ t.open = <<>>
  BY <1>4
<1>8. QED
  BY <1>1, <1>5, <1>6, <1>7 DEF Extends

\* The reading s ends with the lines of rs up to j, but for the first of them.
EndsWith(s, rs, j) ==
    /\ s \in Readings /\ s.open = <<>> /\ Len(s.lines) >= j
    /\ \A i \in 2 .. j : s.lines[Len(s.lines) - j + i] = Text(rs[i])

LEMMA OneMore ==
    ASSUME NEW j \in Nat, NEW rs, NEW s, EndsWith(s, rs, j),
           NEW t \in Readings, Extends(t, s, rs[j + 1])
    PROVE  EndsWith(t, rs, j + 1)
<1>1. s.lines \in Seq(Seq(Piece)) /\ t.lines \in Seq(Seq(Piece))
  BY DEF EndsWith, Readings
<1>2. PICK x \in Nat : x = Len(s.lines)
  BY <1>1
<1>3. PICK y \in Nat : y = Len(t.lines)
  BY <1>1
<1>4. x >= j /\ y = x + 1
  BY <1>2, <1>3 DEF EndsWith, Extends
<1>5. ASSUME NEW i \in 2 .. j + 1 PROVE t.lines[y - (j + 1) + i] = Text(rs[i])
  <2>1. y - (j + 1) + i = x - j + i
    BY <1>4
  <2>2. CASE i = j + 1
    <3>1. x - j + i = x + 1
      BY <2>2
    <3>2. t.lines[x + 1] = Text(rs[j + 1])
      BY <1>2 DEF EndsWith, Extends
    <3>3. QED
      BY <2>1, <2>2, <3>1, <3>2
  <2>3. CASE i # j + 1
    <3>1. i \in 2 .. j /\ x - j + i \in 1 .. x
      BY <1>4, <2>3
    <3>2. s.lines[x - j + i] = Text(rs[i])
      BY <1>2, <3>1 DEF EndsWith
    <3>3. t.lines[x - j + i] = s.lines[x - j + i]
      BY <1>2, <3>1 DEF Extends
    <3>4. QED
      BY <2>1, <3>2, <3>3
  <2>4. QED
    BY <2>2, <2>3
<1>6. t.open = <<>> /\ y >= j + 1
  BY <1>4 DEF Extends
<1>7. QED
  BY <1>3, <1>5, <1>6 DEF EndsWith

\* After its first b pieces, l has the m records of rs, whole, and nothing else.
EndsIn(l, b, rs, m) ==
    /\ Len(l) = b + 3 * m
    /\ \A j \in 1 .. m : \A part \in 1 .. 3 :
         l[b + 3 * (j - 1) + part] = [record |-> rs[j], part |-> part]

\* When a file ends with the records of rs, whole, its last lines are those of
\* rs, but for the first one: something torn may stand before it on its line.
LEMMA LastLines ==
    ASSUME NEW l \in Seq(Piece), NEW m \in Nat, NEW rs, NEW b \in Nat,
           EndsIn(l, b, rs, m), m > 0
    PROVE  /\ Lines(l) \in Seq(Seq(Piece)) /\ Len(Lines(l)) >= m
           /\ \A i \in 2 .. m : Lines(l)[Len(Lines(l)) - m + i] = Text(rs[i])
<1> DEFINE t(j) == Split(l)[b + 3 * j]
           S == {n \in Nat : n + 1 <= m => EndsWith(t(n + 1), rs, n + 1)}
<1>1. ASSUME NEW j \in 1 .. m
      PROVE  t(j - 1) \in Readings /\ t(j) \in Readings /\ Extends(t(j), t(j - 1), rs[j])
  <2>1. PICK k \in Nat : k = b + 3 * (j - 1)
    OBVIOUS
  <2>2. k + 3 <= Len(l) /\ k + 3 = b + 3 * j
    BY <2>1 DEF EndsIn
  <2>3. /\ l[k + 1] = [record |-> rs[j], part |-> 1]
        /\ l[k + 2] = [record |-> rs[j], part |-> 2]
        /\ l[k + 3] = [record |-> rs[j], part |-> 3]
    <3>1. 1 \in 1 .. 3 /\ 2 \in 1 .. 3 /\ 3 \in 1 .. 3
      OBVIOUS
    <3>2. QED
      BY <2>1, <3>1 DEF EndsIn
  <2>4. t(j - 1) = Split(l)[k] /\ t(j) = Split(l)[k + 3]
    BY <2>1, <2>2
  <2> HIDE DEF t
  <2>5. QED
    BY <2>2, <2>3, <2>4, RecordRead
<1> HIDE DEF t
<1>2. EndsWith(t(1), rs, 1)
  <2>1. 1 \in 1 .. m /\ 1 - 1 = 0 /\ 2 .. 1 = {}
    OBVIOUS
  <2>2. t(0) \in Readings /\ t(1) \in Readings /\ Extends(t(1), t(0), rs[1])
    BY <1>1, <2>1
  <2>3. Len(t(0).lines) \in Nat
    BY <2>2 DEF Readings
  <2>4. QED
    BY <2>1, <2>2, <2>3 DEF EndsWith, Extends
<1>3. 0 \in S
  BY <1>2
<1>4. ASSUME NEW n \in S PROVE n + 1 \in S
  <2>1. SUFFICES ASSUME n + 2 <= m PROVE EndsWith(t(n + 2), rs, n + 2)
    <3>1. n \in Nat /\ n + 1 \in Nat /\ (n + 1) + 1 = n + 2
      OBVIOUS
    <3>2. QED
      BY <3>1
  <2>2. n + 1 \in Nat /\ n + 2 \in 1 .. m /\ (n + 2) - 1 = n + 1 /\ (n + 1) + 1 = n + 2
    BY <2>1
  <2>3. EndsWith(t(n + 1), rs, n + 1)
    BY <2>1
  <2>4. t(n + 2) \in Readings /\ Extends(t(n + 2), t(n + 1), rs[n + 2])
    BY <1>1, <2>2
  <2>5. QED
    BY <2>2, <2>3, <2>4, OneMore
<1>5. EndsWith(t(m), rs, m)
  <2>1. S = Nat
    <3> HIDE DEF S
    <3>1. S \subseteq Nat
      BY DEF S
    <3>2. QED
      BY <1>3, <1>4, <3>1, AllNaturals
  <2>2. m - 1 \in Nat /\ (m - 1) + 1 = m /\ m <= m
    OBVIOUS
  <2>3. m - 1 \in S
    BY <2>1, <2>2
  <2>4. QED
    BY <2>2, <2>3
<1>6. Lines(l) = t(m).lines
  <2>1. Lines(l) = Closed(t(m))
    BY DEF Lines, EndsIn, t
  <2>2. QED
    BY <1>5, <2>1 DEF Closed, EndsWith
<1>7. t(m).lines \in Seq(Seq(Piece))
  BY <1>5 DEF EndsWith, Readings
<1>8. QED
  BY <1>5, <1>6, <1>7 DEF EndsWith

----------------------------------------------------------------------------
(* What has been acknowledged since the latest fault ends the file.        *)

\* The pieces of the append that has the flock come after it.
Unreported == IF flock = None THEN 0 ELSE done[flock]
Base == Len(log) - Unreported - 3 * Len(since)

SinceWritten ==
    /\ Base >= 0
    /\ \A j \in 1 .. Len(since) : \A part \in 1 .. Newline :
         log[Base + 3 * (j - 1) + part] = [record |-> since[j], part |-> part]

\* An append that has been forced to the disk is still at the end of the file.
SyncedAtEnd == \A w \in Writers : pc[w] = "unlock" => done[w] = Newline /\ AtEnd(w)

HInv == IInv /\ SyncedAtEnd /\ SinceWritten

LEMMA InitHInv == Init => HInv
<1> SUFFICES ASSUME Init PROVE HInv
  OBVIOUS
<1>1. SyncedAtEnd
  BY DEF Init, SyncedAtEnd
<1>2. Len(log) = 0 /\ Len(since) = 0 /\ flock = None
  BY DEF Init
<1>3. SinceWritten
  BY <1>2 DEF SinceWritten, Base, Unreported
<1>4. QED
  BY <1>1, <1>3, InitIInv DEF HInv

LEMMA Lengths ==
    ASSUME TypeOK
    PROVE  /\ Len(log) \in Nat /\ Len(since) \in Nat /\ Unreported \in 0 .. 3 /\ Base \in Int
           /\ Len(log) = Base + 3 * Len(since) + Unreported
<1>1. Len(log) \in Nat /\ Len(since) \in Nat
  BY DEF TypeOK
<1>2. Unreported \in 0 .. 3
  BY Numbers DEF TypeOK, Unreported
<1>3. QED
  BY <1>1, <1>2 DEF Base

\* Appending to the file, or counting what has been written so far, leaves the
\* acknowledged records where they are.
LEMMA SinceKept ==
    ASSUME TypeOK, SinceWritten, since' = since, Base' = Base,
           \A i \in 1 .. Len(log) : log'[i] = log[i]
    PROVE  SinceWritten'
<1>1. /\ Len(log) \in Nat /\ Len(since) \in Nat /\ Base \in Int /\ Base >= 0
      /\ Base + 3 * Len(since) <= Len(log)
  BY Lengths DEF SinceWritten
<1>2. ASSUME NEW j \in 1 .. Len(since), NEW part \in 1 .. Newline
      PROVE  log'[Base + 3 * (j - 1) + part] = [record |-> since[j], part |-> part]
  <2>1. Base + 3 * (j - 1) + part \in 1 .. Len(log)
    BY <1>1 DEF Newline
  <2>2. log[Base + 3 * (j - 1) + part] = [record |-> since[j], part |-> part]
    BY DEF SinceWritten
  <2>3. QED
    BY <2>1, <2>2
<1>3. QED
  BY <1>1, <1>2 DEF SinceWritten

\* After a fault nothing has been acknowledged since, and what the holder of the
\* flock has written is in the file.
LEMMA SinceEmptied ==
    ASSUME TypeOK', FlockHeld', EndWritten', SyncedAtEnd', since' = <<>>
    PROVE  SinceWritten'
<1>1. Len(since') = 0 /\ Len(log') \in Nat
  BY DEF TypeOK
<1>2. Unreported' \in Nat /\ Unreported' <= Len(log')
  <2>1. CASE flock' = None
    BY <1>1, <2>1 DEF Unreported
  <2>2. CASE flock' # None
    <3>1. flock' \in Writers /\ done'[flock'] \in Nat
      BY <2>2, Numbers DEF TypeOK
    <3>2. pc'[flock'] \in {"write", "sync", "unlock"}
      BY <3>1 DEF FlockHeld
    <3>3. done'[flock'] <= Len(log')
      BY <3>1, <3>2 DEF EndWritten, SyncedAtEnd, AtEnd
    <3>4. QED
      BY <2>2, <3>1, <3>3 DEF Unreported
  <2>3. QED
    BY <2>1, <2>2
<1>3. Base' >= 0
  BY <1>1, <1>2 DEF Base
<1>4. QED
  BY <1>1, <1>3 DEF SinceWritten

LEMMA OpenHInv == ASSUME HInv, NEW w \in Writers, Open(w), IInv' PROVE HInv'
<1> USE DEF HInv, IInv, Open, Goto, history
<1>1. SyncedAtEnd'
  BY DEF TypeOK, SyncedAtEnd, AtEnd
<1>2. Unreported' = Unreported
  <2>1. flock # w /\ flock \in Writers \cup {None}
    BY DEF TypeOK, FlockHeld
  <2>2. flock # None => done'[flock] = done[flock]
    BY <2>1 DEF TypeOK
  <2>3. QED
    BY <2>2 DEF Unreported
<1>3. Base' = Base
  BY <1>2 DEF Base
<1>4. QED
  BY <1>1, <1>3, SinceKept

LEMMA LockHInv == ASSUME HInv, NEW w \in Writers, Lock(w), IInv' PROVE HInv'
<1> USE DEF HInv, IInv, Lock, Goto, history
<1>1. SyncedAtEnd'
  BY DEF TypeOK, SyncedAtEnd, AtEnd
<1>2. Unreported' = 0 /\ Unreported = 0
  BY NoneAssumption DEF Unreported, EndWritten
<1>3. Base' = Base
  BY <1>2 DEF Base
<1>4. QED
  BY <1>1, <1>3, SinceKept

LEMMA WriteHInv == ASSUME HInv, NEW w \in Writers, Write(w), IInv' PROVE HInv'
<1> USE DEF HInv, IInv, Write, Goto, history
<1>1. flock = w /\ flock' = w /\ pc[w] = "write"
  BY DEF FlockHeld
<1>2. done[w] \in Nat /\ done'[w] = done[w] + 1
  <2>1. done \in [Writers -> 0 .. Newline] /\ done' = [done EXCEPT ![w] = @ + 1]
    BY DEF TypeOK
  <2> HIDE DEF HInv, IInv, Write, Goto, history
  <2>2. QED
    BY <2>1, Numbers
<1>3. SyncedAtEnd'
  <2>1. \A v \in Writers : pc'[v] # "unlock"
    BY <1>1 DEF TypeOK, FlockHeld
  <2>2. QED
    BY <2>1 DEF SyncedAtEnd
<1>4. /\ Len(log) \in Nat /\ Len(log') = Len(log) + 1
      /\ \A i \in 1 .. Len(log) : log'[i] = log[i]
  <2>1. [record |-> record[w], part |-> done[w] + 1] \in Piece
    BY <1>1, <1>2 DEF RecordNamed, EndWritten, Piece, Newline
  <2>2. QED
    BY <2>1 DEF TypeOK
<1>5. Unreported' = done[w] + 1 /\ Unreported = done[w]
  BY <1>1, <1>2, NoneAssumption DEF Unreported
<1>6. Len(since) \in Nat /\ since' = since
  BY DEF TypeOK
<1>7. Base' = Base
  <2> HIDE DEF HInv, IInv, Write, Goto, history
  <2>1. PICK x \in Nat : x = 3 * Len(since) /\ x = 3 * Len(since')
    BY <1>6
  <2>2. PICK d \in Nat : d = done[w]
    BY <1>2
  <2>3. PICK n \in Nat : n = Len(log)
    BY <1>4
  <2>4. Base' = (n + 1) - (d + 1) - x
    BY <1>4, <1>5, <2>1, <2>2, <2>3 DEF Base
  <2>5. Base = n - d - x
    BY <1>5, <2>1, <2>2, <2>3 DEF Base
  <2>6. (n + 1) - (d + 1) - x = n - d - x
    OBVIOUS
  <2>7. QED
    BY <2>4, <2>5, <2>6
<1>8. QED
  BY <1>3, <1>4, <1>6, <1>7, SinceKept

LEMMA SyncHInv == ASSUME HInv, NEW w \in Writers, Sync(w), IInv' PROVE HInv'
<1> USE DEF HInv, IInv, Sync, Goto, history
<1>1. SyncedAtEnd'
  BY DEF TypeOK, SyncedAtEnd, EndWritten, AtEnd
<1>2. Base' = Base
  BY DEF Base, Unreported
<1>3. QED
  BY <1>1, <1>2, SinceKept

LEMMA UnlockHInv == ASSUME HInv, NEW w \in Writers, Unlock(w), IInv' PROVE HInv'
<1> USE DEF HInv, IInv, Unlock, Goto
<1>1. SyncedAtEnd'
  BY DEF TypeOK, SyncedAtEnd, AtEnd
<1>2. flock = w /\ done[w] = 3 /\ AtEnd(w) /\ record[w] \in 1 .. MaxRecords
  BY DEF FlockHeld, SyncedAtEnd, RecordNamed, Newline
<1>3. PICK n \in Nat : n = Len(since)
  BY DEF TypeOK
<1>4. /\ Len(since') = n + 1 /\ since'[n + 1] = record[w]
      /\ \A j \in 1 .. n : since'[j] = since[j]
  <2>1. since \in Seq(1 .. MaxRecords)
    BY DEF TypeOK
  <2>2. QED
    BY <1>2, <1>3, <2>1
<1>5. Unreported = 3 /\ Unreported' = 0
  BY <1>2, NoneAssumption DEF Unreported
<1>6. /\ Base \in Int /\ Base >= 0 /\ Base' = Base /\ Len(log) \in Nat
      /\ Len(log) = Base + 3 * n + 3
  <2>1. Len(log) \in Nat /\ Base \in Int /\ Len(log) = Base + 3 * n + 3
    BY <1>3, <1>5, Lengths
  <2>2. Base' = Len(log) - 3 * (n + 1)
    BY <1>4, <1>5, <2>1 DEF Base
  <2>3. QED
    BY <2>1, <2>2 DEF SinceWritten
<1>7. ASSUME NEW j \in 1 .. n + 1, NEW part \in 1 .. Newline
      PROVE  log[Base + 3 * (j - 1) + part] = [record |-> since'[j], part |-> part]
  <2>1. CASE j = n + 1
    <3>1. Base + 3 * (j - 1) + part = Len(log) - done[w] + part
      BY <1>2, <1>6, <2>1 DEF Newline
    <3>2. part \in 1 .. done[w]
      BY <1>2 DEF Newline
    <3>3. QED
      BY <1>2, <1>4, <2>1, <3>1, <3>2 DEF AtEnd
  <2>2. CASE j # n + 1
    <3>1. j \in 1 .. n
      BY <2>2
    <3>2. QED
      BY <1>3, <1>4, <3>1 DEF SinceWritten
  <2>3. QED
    BY <2>1, <2>2
<1>8. SinceWritten'
  BY <1>4, <1>6, <1>7 DEF SinceWritten
<1>9. QED
  BY <1>1, <1>8

LEMMA StopHInv == ASSUME HInv, NEW w \in Writers, Stop(w), IInv' PROVE HInv'
<1> USE DEF HInv, IInv, Stop, Fault, Goto
<1>1. SyncedAtEnd'
  BY DEF TypeOK, SyncedAtEnd, AtEnd
<1>2. QED
  BY <1>1, SinceEmptied

LEMMA PowerLossHInv == ASSUME HInv, PowerLoss, IInv' PROVE HInv'
<1> USE DEF HInv, IInv, PowerLoss, Fault
<1>1. SyncedAtEnd'
  BY DEF SyncedAtEnd
<1>2. QED
  BY <1>1, SinceEmptied

LEMMA NameSettlesHInv == ASSUME HInv, NameSettles, IInv' PROVE HInv'
<1> USE DEF HInv, IInv, NameSettles, history
<1>1. SyncedAtEnd'
  BY DEF SyncedAtEnd, AtEnd
<1>2. Base' = Base
  BY DEF Base, Unreported
<1>3. QED
  BY <1>1, <1>2, SinceKept

LEMMA StepHInv == HInv /\ [Next]_vars => HInv'
<1> SUFFICES ASSUME HInv, [Next]_vars PROVE HInv'
  OBVIOUS
<1>1. IInv'
  BY StepIInv DEF HInv
<1>2. CASE UNCHANGED vars
  BY <1>1, <1>2 DEF vars, history, HInv, SyncedAtEnd, AtEnd, SinceWritten, Base, Unreported
<1>3. CASE Next
  BY <1>1, <1>3, OpenHInv, LockHInv, WriteHInv, SyncHInv, UnlockHInv, StopHInv,
     PowerLossHInv, NameSettlesHInv
  DEF Next, Progress
<1>4. QED
  BY <1>2, <1>3

LEMMA HInvHeals == HInv => HistoryHeals
<1> SUFFICES ASSUME HInv, flock = None, Len(log) <= MaxHistory,
                    NEW n \in 1 .. MaxLimit, Len(since) > n
             PROVE  TailOf(n) = SubSeq(since, Len(since) - n + 1, Len(since))
  BY DEF HistoryHeals
<1>1. PICK m \in Nat : m = Len(since)
  BY DEF HInv, IInv, TypeOK
<1>2. PICK b \in Nat : b = Base
  BY Lengths DEF HInv, IInv, SinceWritten
<1>3. n \in Nat /\ n > 0 /\ m > n
  BY <1>1, BoundAssumption
<1>4. PICK lines : lines = Lines(log)
  OBVIOUS
<1>5. /\ lines \in Seq(Seq(Piece)) /\ Len(lines) >= m
      /\ \A i \in 2 .. m : lines[Len(lines) - m + i] = Text(since[i])
  <2>1. log \in Seq(Piece) /\ Len(log) = b + 3 * m
    BY <1>1, <1>2, Lengths DEF HInv, IInv, TypeOK, Unreported
  <2>2. \A j \in 1 .. m : \A part \in 1 .. 3 :
          log[b + 3 * (j - 1) + part] = [record |-> since[j], part |-> part]
    BY <1>1, <1>2 DEF HInv, SinceWritten, Newline
  <2>3. m > 0
    BY <1>3
  <2>4. EndsIn(log, b, since, m)
    BY <2>1, <2>2 DEF EndsIn
  <2>5. /\ Lines(log) \in Seq(Seq(Piece)) /\ Len(Lines(log)) >= m
        /\ \A i \in 2 .. m : Lines(log)[Len(Lines(log)) - m + i] = Text(since[i])
    BY <2>1, <2>3, <2>4, LastLines
  <2>6. QED
    BY <1>4, <2>5
<1>6. PICK k \in Nat : k = Len(lines)
  BY <1>5
<1> DEFINE last == [i \in 1 .. n |-> lines[k - n + i]]
<1>7. ASSUME NEW i \in 1 .. n
      PROVE  /\ last[i] = Text(since[m - n + i])
             /\ since[m - n + i] \in 1 .. MaxRecords
  <2>1. m - n + i \in 2 .. m /\ k - m + (m - n + i) = k - n + i
    BY <1>3
  <2>2. lines[k - n + i] = Text(since[m - n + i])
    BY <1>5, <1>6, <2>1
  <2>3. since \in Seq(1 .. MaxRecords)
    BY DEF HInv, IInv, TypeOK
  <2>4. last[i] = lines[k - n + i]
    OBVIOUS
  <2>5. since[m - n + i] \in 1 .. MaxRecords
    <3>1. m - n + i \in 1 .. Len(since)
      BY <1>1, <2>1
    <3>2. QED
      BY <2>3, <3>1, ElementOfSeq
  <2>6. QED
    BY <2>2, <2>4, <2>5
<1>8. \A i \in 1 .. n : Parses(last[i]) /\ last[i][1].record = since[m - n + i]
  <2>1. \A r \in 1 .. MaxRecords : Parses(Text(r)) /\ Text(r)[1].record = r
    BY DEF Parses, Text
  <2> HIDE DEF last
  <2>2. QED
    BY <1>7, <2>1
<1>9. Lesser(n, k) = n
  BY <1>1, <1>3, <1>5, <1>6 DEF Lesser
<1>10. TailOf(n) = [i \in 1 .. n |-> last[i][1].record]
  <2>1. TailOf(n) = IF Len(log) > MaxHistory \/ \E i \in DOMAIN last : ~Parses(last[i])
                    THEN None ELSE [i \in DOMAIN last |-> last[i][1].record]
    BY <1>4, <1>6, <1>9 DEF TailOf
  <2>2. DOMAIN last = 1 .. n
    OBVIOUS
  <2>3. ~(Len(log) > MaxHistory)
    BY BoundAssumption DEF HInv, IInv, TypeOK
  <2> HIDE DEF last
  <2>4. QED
    BY <1>8, <2>1, <2>2, <2>3
<1>11. SubSeq(since, m - n + 1, m) = [i \in 1 .. n |-> since[m - n + i]]
  BY <1>1, <1>3 DEF HInv, IInv, TypeOK
<1>12. QED
  <2> HIDE DEF last
  <2>1. [i \in 1 .. n |-> last[i][1].record] = [i \in 1 .. n |-> since[m - n + i]]
    BY <1>8
  <2>2. QED
    BY <1>1, <1>10, <1>11, <2>1

\* Once more than n appends have succeeded since the latest fault, history -n
\* answers with the last n of them, in the order in which they were reported,
\* whatever was torn before them (tail).
THEOREM HistoryCorrect == Spec => []HistoryHeals
BY InitHInv, StepHInv, HInvHeals, PTL DEF Spec
=============================================================================
