------------------------- MODULE ConfigStoreProofs -------------------------
(***************************************************************************)
(* What holds of ConfigStore for any number of processes, texts and        *)
(* configurations and any number of edits, faults and operations.          *)
(***************************************************************************)
EXTENDS ConfigMeaning, FiniteSetTheorems, TLAPS

\* A process that writes has a configuration to write, and renames a
\* temporary file only when its data are on the disk.
WritesConfig ==
    \A r \in Procs :
      /\ pc[r] \in Writing => config[r] \in Configs
      /\ pc[r] = "rename" => synced[r]

\* What is active is known and is an answer of every load under way.
Witnessed ==
    /\ Active(file) \subseteq known
    /\ \A r \in Procs : pc[r] # "idle" => Active(file) \subseteq answers[r]

\* The copy may only hold what is known, and only that is on its way there:
\* the active file has been renamed when a save comes to the copy.
CopyKnown ==
    /\ \A t \in {file["good"]} \cup disk["good"] : t # None => Meaning(t) \in known
    /\ \A r \in Procs :
         pc[r] \in Writing /\ (target[r] = "good" \/ pc[r] = "dir")
           => config[r] \in known

\* A load that found no active file and still finds no copy has seen the
\* moment when there was neither, because a copy never goes away.
NeitherSeen ==
    \A r \in Procs :
      pc[r] = "good-exists" /\ file["good"] = None => Default \in answers[r]

\* The result of a load that is not degraded, until it is used or saved.
ResultSeen ==
    \A r \in Procs :
      /\ pc[r] = "loaded" /\ ~degraded[r] => config[r] \in answers[r]
      /\ pc[r] \in Writing /\ op[r] # "init" => config[r] \in answers[r]

\* An init, and nothing else, looks for a file to init, and it never has a
\* result to report.
InitIsSilent ==
    \A r \in Procs :
      /\ op[r] = "init" => pc[r] \in {"init", "idle"} \cup Writing
      /\ pc[r] = "init" => op[r] = "init"

IInv ==
    /\ TypeOK
    /\ WritesConfig
    /\ NeverTorn
    /\ Witnessed
    /\ CopyKnown
    /\ NeitherSeen
    /\ ResultSeen
    /\ InitIsSilent

\* What a configuration is written as means that configuration.
LEMMA RoundTrip ==
    ASSUME NEW c \in Configs
    PROVE  ToToml[c] \in Texts /\ ToToml[c] # None /\ Meaning(ToToml[c]) = c
  BY TextAssumption, NoneAssumption DEF Meaning

\* What is active are configurations.
LEMMA ActiveConfigs ==
    ASSUME NEW f \in [Files -> Texts \cup {None}]
    PROVE  Active(f) \subseteq Configs
  BY TextAssumption DEF Active, Meaning, Files

LEMMA InitIInv == Init => IInv
<1> SUFFICES ASSUME Init PROVE IInv
  OBVIOUS
<1> USE TextAssumption, NoneAssumption
<1>1. file \in [Files -> Texts \cup {None}] /\ Active(file) \subseteq Configs
  BY ActiveConfigs DEF Init
<1>2. /\ Meaning(file["good"]) \in Configs \cup {None}
      /\ file["good"] # None => Meaning(file["good"]) \in Configs
  BY <1>1 DEF Init, Meaning, Files
<1>3. TypeOK
  <2>1. known \subseteq Configs
    BY <1>1, <1>2 DEF Init
  <2>2. disk \in [Files -> SUBSET (Texts \cup {None})] /\ left \subseteq Texts \cup {None}
    <3>1. \A f \in Files : {file[f]} \subseteq Texts \cup {None}
      BY <1>1
    <3>2. file["user"] \in Texts \cup {None}
      BY <1>1 DEF Files
    <3>3. QED
      BY <3>1, <3>2 DEF Init
  <2>3. target \in [Procs -> Files] /\ pc \in [Procs -> Stages] /\ op \in [Procs -> Operations]
    BY DEF Init, Files, Stages, Operations
  <2>4. QED
    BY <1>1, <2>1, <2>2, <2>3 DEF Init, TypeOK
<1>4. NeverTorn
  BY DEF Init, NeverTorn, Files
<1>5. CopyKnown /\ WritesConfig /\ Witnessed
  BY <1>1, <1>2 DEF Init, CopyKnown, WritesConfig, Witnessed, Writing, Files
<1>6. NeitherSeen /\ ResultSeen /\ InitIsSilent
  BY DEF Init, NeitherSeen, ResultSeen, InitIsSilent, Writing
<1>7. QED
  BY <1>3, <1>4, <1>5, <1>6 DEF IInv

LEMMA StepIInv == IInv /\ [Next]_vars => IInv'
<1> SUFFICES ASSUME IInv, [Next]_vars PROVE IInv'
  OBVIOUS
<1> USE TextAssumption, NoneAssumption DEF IInv
<1>a. /\ file \in [Files -> Texts \cup {None}] /\ "user" \in Files /\ "good" \in Files
      /\ Active(file) \subseteq Configs /\ Default \in Configs
  BY ActiveConfigs DEF TypeOK, Files
<1>b. \A f \in Files : Meaning(file[f]) # None => Meaning(file[f]) \in Configs
  BY <1>a DEF Meaning
<1>c. Meaning(file["user"]) # None => Meaning(file["user"]) \in Active(file)
  BY DEF Active, Meaning
<1>0. CASE UNCHANGED vars
  BY <1>0 DEF vars, TypeOK, WritesConfig, NeverTorn, Witnessed, CopyKnown,
     NeitherSeen, ResultSeen, InitIsSilent
<1>1. ASSUME NEW r \in Procs, NEW operation \in Operations, Begin(r, operation) PROVE IInv'
  <2> USE <1>1 DEF Begin, Goto, history, bounds
  <2>1. TypeOK'
    BY <1>a, <1>b DEF TypeOK, Stages, Writing, Operations, Files
  <2>2. WritesConfig'
    BY DEF TypeOK, WritesConfig, Writing
  <2>3. NeverTorn'
    BY DEF NeverTorn
  <2>4. Witnessed'
    BY DEF TypeOK, Witnessed
  <2>5. CopyKnown'
    BY DEF TypeOK, CopyKnown, Writing
  <2>6. NeitherSeen'
    BY DEF TypeOK, NeitherSeen
  <2>7. ResultSeen'
    BY DEF TypeOK, ResultSeen, Writing
  <2>8. InitIsSilent'
    BY DEF TypeOK, InitIsSilent, Writing
  <2>9. QED
    BY <2>1, <2>2, <2>3, <2>4, <2>5, <2>6, <2>7, <2>8
<1>2. ASSUME NEW r \in Procs, UserExists(r) PROVE IInv'
  <2> USE <1>2 DEF UserExists, Goto, history, bounds
  <2>1. TypeOK'
    BY <1>a, <1>b DEF TypeOK, Stages, Writing, Operations, Files
  <2>2. WritesConfig'
    BY DEF TypeOK, WritesConfig, Writing
  <2>3. NeverTorn'
    BY DEF NeverTorn
  <2>4. Witnessed'
    BY DEF TypeOK, Witnessed
  <2>5. CopyKnown'
    BY DEF TypeOK, CopyKnown, Writing
  <2>6. NeitherSeen'
    BY DEF TypeOK, Witnessed, NeitherSeen, Active
  <2>7. ResultSeen'
    BY DEF TypeOK, ResultSeen, Writing
  <2>8. InitIsSilent'
    BY DEF TypeOK, InitIsSilent, Writing
  <2>9. QED
    BY <2>1, <2>2, <2>3, <2>4, <2>5, <2>6, <2>7, <2>8
<1>3. ASSUME NEW r \in Procs, GoodExists(r) PROVE IInv'
  <2> USE <1>3 DEF GoodExists, Load, Proceed, Save, SavedFirst, Goto, history, bounds
  <2>1. TypeOK'
    <3>1. pc' \in [Procs -> Stages]
      BY DEF TypeOK, Stages, Writing
    <3>2. config' \in [Procs -> Configs \cup {None}]
      BY <1>a, <1>b DEF TypeOK
    <3>3. degraded' \in [Procs -> BOOLEAN]
      BY DEF TypeOK
    <3>4. target' \in [Procs -> Files]
      BY <1>a DEF TypeOK
    <3>5. QED
      BY <3>1, <3>2, <3>3, <3>4 DEF TypeOK
  <2>2. WritesConfig'
    BY <1>a DEF TypeOK, WritesConfig, Writing
  <2>3. NeverTorn'
    BY DEF NeverTorn
  <2>4. Witnessed'
    BY DEF TypeOK, Witnessed
  <2>5. CopyKnown'
    BY DEF TypeOK, CopyKnown, Writing
  <2>6. NeitherSeen'
    BY DEF TypeOK, NeitherSeen
  <2>7. ResultSeen'
    BY <1>a DEF TypeOK, NeitherSeen, ResultSeen, InitIsSilent, Writing
  <2>8. InitIsSilent'
    BY DEF TypeOK, InitIsSilent, Writing
  <2>9. QED
    BY <2>1, <2>2, <2>3, <2>4, <2>5, <2>6, <2>7, <2>8
<1>4. ASSUME NEW r \in Procs, ReadUser(r) PROVE IInv'
  <2> USE <1>4 DEF ReadUser, Load, Proceed, Save, SavedFirst, Goto, history, bounds
  <2>1. TypeOK'
    <3>1. pc' \in [Procs -> Stages]
      BY DEF TypeOK, Stages, Writing
    <3>2. config' \in [Procs -> Configs \cup {None}]
      BY <1>a, <1>b DEF TypeOK
    <3>3. degraded' \in [Procs -> BOOLEAN]
      BY DEF TypeOK
    <3>4. target' \in [Procs -> Files]
      BY <1>a DEF TypeOK
    <3>5. QED
      BY <3>1, <3>2, <3>3, <3>4 DEF TypeOK
  <2>2. WritesConfig'
    BY <1>a, <1>b DEF TypeOK, WritesConfig, Writing
  <2>3. NeverTorn'
    BY DEF NeverTorn
  <2>4. Witnessed'
    BY DEF TypeOK, Witnessed
  <2>5. CopyKnown'
    BY <1>c DEF TypeOK, Witnessed, CopyKnown, Writing
  <2>6. NeitherSeen'
    BY DEF TypeOK, NeitherSeen
  <2>7. ResultSeen'
    BY <1>c DEF TypeOK, Witnessed, ResultSeen, Writing
  <2>8. InitIsSilent'
    BY DEF TypeOK, InitIsSilent, Writing
  <2>9. QED
    BY <2>1, <2>2, <2>3, <2>4, <2>5, <2>6, <2>7, <2>8
<1>5. ASSUME NEW r \in Procs, FallBack(r) PROVE IInv'
  <2> USE <1>5 DEF FallBack, Load, Goto, history, bounds
  <2>1. TypeOK'
    <3>1. pc' \in [Procs -> Stages]
      BY DEF TypeOK, Stages
    <3>2. config' \in [Procs -> Configs \cup {None}]
      BY <1>a, <1>b DEF TypeOK
    <3>3. degraded' \in [Procs -> BOOLEAN]
      BY DEF TypeOK
    <3>4. QED
      BY <3>1, <3>2, <3>3 DEF TypeOK
  <2>2. WritesConfig'
    BY DEF TypeOK, WritesConfig, Writing
  <2>3. NeverTorn'
    BY DEF NeverTorn
  <2>4. Witnessed'
    BY DEF TypeOK, Witnessed
  <2>5. CopyKnown'
    BY DEF TypeOK, CopyKnown, Writing
  <2>6. NeitherSeen'
    BY DEF TypeOK, NeitherSeen
  <2>7. ResultSeen'
    BY DEF TypeOK, ResultSeen, Writing
  <2>8. InitIsSilent'
    BY DEF TypeOK, InitIsSilent, Writing
  <2>9. QED
    BY <2>1, <2>2, <2>3, <2>4, <2>5, <2>6, <2>7, <2>8
<1>6. ASSUME NEW r \in Procs, InitIfMissing(r) PROVE IInv'
  <2> USE <1>6 DEF InitIfMissing, Load, Save, SavedFirst, Goto, history, bounds
  <2>1. TypeOK'
    <3>1. pc' \in [Procs -> Stages]
      BY DEF TypeOK, Stages, Writing
    <3>2. config' \in [Procs -> Configs \cup {None}]
      BY <1>a, <1>b DEF TypeOK
    <3>3. degraded' \in [Procs -> BOOLEAN]
      BY DEF TypeOK
    <3>4. target' \in [Procs -> Files]
      BY <1>a DEF TypeOK
    <3>5. QED
      BY <3>1, <3>2, <3>3, <3>4 DEF TypeOK
  <2>2. WritesConfig'
    BY <1>a DEF TypeOK, WritesConfig, Writing
  <2>3. NeverTorn'
    BY DEF NeverTorn
  <2>4. Witnessed'
    BY DEF TypeOK, Witnessed
  <2>5. CopyKnown'
    BY DEF TypeOK, CopyKnown, Writing
  <2>6. NeitherSeen'
    BY DEF TypeOK, NeitherSeen
  <2>7. ResultSeen'
    BY <1>a DEF TypeOK, NeitherSeen, ResultSeen, InitIsSilent, Writing
  <2>8. InitIsSilent'
    BY DEF TypeOK, InitIsSilent, Writing
  <2>9. QED
    BY <2>1, <2>2, <2>3, <2>4, <2>5, <2>6, <2>7, <2>8
<1>7. ASSUME NEW r \in Procs, Use(r) PROVE IInv'
  <2> USE <1>7 DEF Use, Goto, history, bounds
  <2>1. TypeOK'
    BY <1>a, <1>b DEF TypeOK, Stages, Writing, Operations, Files
  <2>2. WritesConfig'
    BY DEF TypeOK, WritesConfig, Writing
  <2>3. NeverTorn'
    BY DEF NeverTorn
  <2>4. Witnessed'
    BY DEF TypeOK, Witnessed
  <2>5. CopyKnown'
    BY DEF TypeOK, CopyKnown, Writing
  <2>6. NeitherSeen'
    BY DEF TypeOK, NeitherSeen
  <2>7. ResultSeen'
    BY DEF TypeOK, ResultSeen, Writing
  <2>8. InitIsSilent'
    BY DEF TypeOK, InitIsSilent, Writing
  <2>9. QED
    BY <2>1, <2>2, <2>3, <2>4, <2>5, <2>6, <2>7, <2>8
<1>8. ASSUME NEW r \in Procs, WriteTemp(r) PROVE IInv'
  <2> USE <1>8 DEF WriteTemp, Goto, history, bounds
  <2>1. TypeOK'
    BY <1>a, <1>b DEF TypeOK, Stages, Writing, Operations, Files
  <2>2. WritesConfig'
    BY DEF TypeOK, WritesConfig, Writing
  <2>3. NeverTorn'
    BY DEF NeverTorn
  <2>4. Witnessed'
    BY DEF TypeOK, Witnessed
  <2>5. CopyKnown'
    BY DEF TypeOK, CopyKnown, Writing
  <2>6. NeitherSeen'
    BY DEF TypeOK, NeitherSeen
  <2>7. ResultSeen'
    BY DEF TypeOK, ResultSeen, Writing
  <2>8. InitIsSilent'
    BY DEF TypeOK, InitIsSilent, Writing
  <2>9. QED
    BY <2>1, <2>2, <2>3, <2>4, <2>5, <2>6, <2>7, <2>8
<1>9. ASSUME NEW r \in Procs, SyncTemp(r) PROVE IInv'
  <2> USE <1>9 DEF SyncTemp, Goto, history, bounds
  <2>1. TypeOK'
    BY <1>a, <1>b DEF TypeOK, Stages, Writing, Operations, Files
  <2>2. WritesConfig'
    BY DEF TypeOK, WritesConfig, Writing
  <2>3. NeverTorn'
    BY DEF NeverTorn
  <2>4. Witnessed'
    BY DEF TypeOK, Witnessed
  <2>5. CopyKnown'
    BY DEF TypeOK, CopyKnown, Writing
  <2>6. NeitherSeen'
    BY DEF TypeOK, NeitherSeen
  <2>7. ResultSeen'
    BY DEF TypeOK, ResultSeen, Writing
  <2>8. InitIsSilent'
    BY DEF TypeOK, InitIsSilent, Writing
  <2>9. QED
    BY <2>1, <2>2, <2>3, <2>4, <2>5, <2>6, <2>7, <2>8
<1>10. ASSUME NEW r \in Procs, Rename(r) PROVE IInv'
  <2> USE <1>10 DEF Rename, Witness, Goto, history, bounds
  <2>0. config[r] \in Configs /\ synced[r] /\ target[r] \in Files
    BY DEF TypeOK, WritesConfig, Writing
  <2>1. TypeOK'
    <3>1. pc' \in [Procs -> Stages]
      BY DEF TypeOK, Stages, Writing
    <3>2. file' \in [Files -> Texts \cup {None}]
      BY <2>0, RoundTrip DEF TypeOK
    <3>3. disk' \in [Files -> SUBSET (Texts \cup {None})]
      BY <2>0, RoundTrip DEF TypeOK
    <3>4. Active(file') \subseteq Configs
      BY <3>2, ActiveConfigs
    <3>5. QED
      BY <3>1, <3>2, <3>3, <3>4 DEF TypeOK
  <2>2. WritesConfig'
    BY DEF TypeOK, WritesConfig, Writing
  <2>3. NeverTorn'
    <3> SUFFICES ASSUME NEW f \in Files
                 PROVE  {file'[f]} \cup disk'[f] \subseteq
                          {ToToml[c] : c \in Configs} \cup IF f = "user" THEN left ELSE {None}
      BY DEF NeverTorn
    <3>1. CASE f = target[r]
      <4>1. file'[f] = ToToml[config[r]] /\ disk'[f] = disk[f] \cup {ToToml[config[r]]}
        BY <2>0, <3>1 DEF TypeOK
      <4>2. QED
        BY <2>0, <4>1 DEF NeverTorn
    <3>2. CASE f # target[r]
      BY <3>2 DEF TypeOK, NeverTorn
    <3>3. QED
      BY <3>1, <3>2
  <2>4. Witnessed'
    BY DEF TypeOK, Witnessed
  <2>5. CopyKnown'
    <3>1. Meaning(ToToml[config[r]]) = config[r] /\ ToToml[config[r]] # None
      BY <2>0, RoundTrip
    <3>2. config[r] \in known'
      <4>1. CASE target[r] = "good"
        BY <4>1 DEF CopyKnown, Writing
      <4>2. CASE target[r] = "user"
        <5>1. file'["user"] = ToToml[config[r]]
          BY <1>a, <4>2
        <5>2. config[r] \in Active(file')
          BY <3>1, <5>1, <2>0 DEF Active
        <5>3. QED
          BY <5>2
      <4>3. QED
        BY <2>0, <4>1, <4>2 DEF Files
    <3>3. \A t \in {file'["good"]} \cup disk'["good"] : t # None => Meaning(t) \in known'
      <4>1. {file'["good"]} \cup disk'["good"] \subseteq
              {file["good"]} \cup disk["good"] \cup {ToToml[config[r]]}
        BY <1>a, <2>0 DEF TypeOK
      <4>2. \A t \in {file["good"]} \cup disk["good"] : t # None => Meaning(t) \in known'
        BY DEF CopyKnown
      <4>3. TAKE t \in {file'["good"]} \cup disk'["good"]
      <4>4. CASE t = ToToml[config[r]]
        BY ONLY <3>1, <3>2, <4>4
      <4>5. CASE t \in {file["good"]} \cup disk["good"]
        BY ONLY <4>2, <4>5
      <4>6. QED
        BY ONLY <4>1, <4>4, <4>5, t \in {file'["good"]} \cup disk'["good"]
    <3>4. \A q \in Procs :
            pc'[q] \in Writing /\ (target'[q] = "good" \/ pc'[q] = "dir")
              => config'[q] \in known'
      BY <3>2 DEF TypeOK, CopyKnown, Writing
    <3>5. QED
      BY <3>3, <3>4 DEF CopyKnown
  <2>6. NeitherSeen'
    BY <1>a, <2>0, RoundTrip DEF TypeOK, NeitherSeen
  <2>7. ResultSeen'
    BY DEF TypeOK, ResultSeen, Writing
  <2>8. InitIsSilent'
    BY DEF TypeOK, InitIsSilent, Writing
  <2>9. QED
    BY <2>1, <2>2, <2>3, <2>4, <2>5, <2>6, <2>7, <2>8
<1>11. ASSUME NEW r \in Procs, SyncDir(r) PROVE IInv'
  <2> USE <1>11 DEF SyncDir, Save, SavedFirst, Goto, history, bounds
  <2>0. (CHOOSE f \in Files : f # SavedFirst) = "good"
    BY DEF Files
  <2>1. TypeOK'
    BY <1>a, <1>b, <2>0 DEF TypeOK, Stages, Writing, Operations, Files
  <2>2. WritesConfig'
    BY DEF TypeOK, WritesConfig, Writing
  <2>3. NeverTorn'
    BY <1>a DEF NeverTorn
  <2>4. Witnessed'
    BY DEF TypeOK, Witnessed
  <2>5. CopyKnown'
    BY <1>a, <2>0 DEF TypeOK, CopyKnown, Writing
  <2>6. NeitherSeen'
    BY DEF TypeOK, NeitherSeen
  <2>7. ResultSeen'
    BY <1>a, <2>0 DEF TypeOK, ResultSeen, Writing
  <2>8. InitIsSilent'
    BY DEF TypeOK, InitIsSilent, Writing
  <2>9. QED
    BY <2>1, <2>2, <2>3, <2>4, <2>5, <2>6, <2>7, <2>8
<1>12. ASSUME NEW r \in Procs, Stop(r) PROVE IInv'
  <2> USE <1>12 DEF Stop, Fault, Goto, history, bounds
  <2>1. TypeOK'
    BY <1>a, <1>b DEF TypeOK, Stages, Writing, Operations, Files
  <2>2. WritesConfig'
    BY DEF TypeOK, WritesConfig, Writing
  <2>3. NeverTorn'
    BY DEF NeverTorn
  <2>4. Witnessed'
    BY DEF TypeOK, Witnessed
  <2>5. CopyKnown'
    BY DEF TypeOK, CopyKnown, Writing
  <2>6. NeitherSeen'
    BY DEF TypeOK, NeitherSeen
  <2>7. ResultSeen'
    BY DEF TypeOK, ResultSeen, Writing
  <2>8. InitIsSilent'
    BY DEF TypeOK, InitIsSilent, Writing
  <2>9. QED
    BY <2>1, <2>2, <2>3, <2>4, <2>5, <2>6, <2>7, <2>8
<1>13. ASSUME PowerLoss PROVE IInv'
  <2> USE <1>13 DEF PowerLoss, Fault, Witness, Goto, history, bounds
  <2>1. TypeOK'
    <3>1. pc' \in [Procs -> Stages]
      BY DEF Stages
    <3>2. file' \in [Files -> Texts \cup {None}]
      OBVIOUS
    <3>3. disk' \in [Files -> SUBSET (Texts \cup {None})]
      BY <3>2
    <3>4. Active(file') \subseteq Configs
      BY <3>2, ActiveConfigs
    <3>5. QED
      BY <3>1, <3>2, <3>3, <3>4 DEF TypeOK
  <2>2. WritesConfig'
    BY DEF TypeOK, WritesConfig, Writing
  <2>3. NeverTorn'
    BY <1>a DEF TypeOK, NeverTorn
  <2>4. Witnessed'
    BY DEF TypeOK, Witnessed
  <2>5. CopyKnown'
    BY <1>a DEF TypeOK, CopyKnown, Writing
  <2>6. NeitherSeen'
    BY DEF TypeOK, NeitherSeen
  <2>7. ResultSeen'
    BY DEF TypeOK, ResultSeen, Writing
  <2>8. InitIsSilent'
    BY DEF TypeOK, InitIsSilent, Writing
  <2>9. QED
    BY <2>1, <2>2, <2>3, <2>4, <2>5, <2>6, <2>7, <2>8
<1>14. ASSUME NEW text \in Texts \cup {None}, Edit(text) PROVE IInv'
  <2> USE <1>14 DEF Edit, Witness, Goto, history, bounds
  <2>1. TypeOK'
    <3>1. file' \in [Files -> Texts \cup {None}]
      BY DEF TypeOK
    <3>2. disk' \in [Files -> SUBSET (Texts \cup {None})]
      BY DEF TypeOK
    <3>3. Active(file') \subseteq Configs
      BY <3>1, ActiveConfigs
    <3>4. answers' \in [Procs -> SUBSET Configs] /\ known' \subseteq Configs
      BY <3>3 DEF TypeOK
    <3>5. left' \subseteq Texts \cup {None} /\ edits' \in Nat
      BY DEF TypeOK
    <3>6. QED
      BY <3>1, <3>2, <3>4, <3>5 DEF TypeOK
  <2>2. WritesConfig'
    BY DEF TypeOK, WritesConfig, Writing
  <2>3. NeverTorn'
    BY DEF NeverTorn
  <2>4. Witnessed'
    BY DEF TypeOK, Witnessed
  <2>5. CopyKnown'
    BY DEF TypeOK, CopyKnown, Writing
  <2>6. NeitherSeen'
    BY DEF TypeOK, NeitherSeen
  <2>7. ResultSeen'
    BY DEF TypeOK, ResultSeen, Writing
  <2>8. InitIsSilent'
    BY DEF TypeOK, InitIsSilent, Writing
  <2>9. QED
    BY <2>1, <2>2, <2>3, <2>4, <2>5, <2>6, <2>7, <2>8
<1>15. QED
  BY <1>0, <1>1, <1>2, <1>3, <1>4, <1>5, <1>6, <1>7, <1>8, <1>9, <1>10, <1>11, <1>12, <1>13, <1>14 DEF Next

LEMMA AlwaysIInv == Spec => []IInv
  BY InitIInv, StepIInv, PTL DEF Spec

\* The state of the store and of every process is well typed: no process uses
\* or writes what is not a valid configuration.
THEOREM TypeCorrect == Spec => []TypeOK
<1>1. IInv => TypeOK
  BY DEF IInv
<1>2. QED
  BY AlwaysIInv, <1>1, PTL

\* Neither file is ever torn, now or after a loss of power.
THEOREM NeverTornCorrect == Spec => []NeverTorn
<1>1. IInv => NeverTorn
  BY DEF IInv
<1>2. QED
  BY AlwaysIInv, <1>1, PTL

\* A configuration reported as not degraded was active during the load.
THEOREM AnswerCorrect == Spec => []AnswerIsTrue
<1>1. IInv => AnswerIsTrue
  BY DEF IInv, ResultSeen, AnswerIsTrue
<1>2. QED
  BY AlwaysIInv, <1>1, PTL

\* The last-known-good copy holds nothing that was never active.
THEOREM GoodCorrect == Spec => []GoodWasActive
<1>1. IInv => GoodWasActive
  BY DEF IInv, CopyKnown, GoodWasActive
<1>2. QED
  BY AlwaysIInv, <1>1, PTL

\* Normalize writes nothing it did not find active.
THEOREM SavedCorrect == Spec => []OnlyActiveIsSaved
<1>1. IInv => OnlyActiveIsSaved
  BY DEF IInv, ResultSeen, OnlyActiveIsSaved
<1>2. QED
  BY AlwaysIInv, <1>1, PTL

----------------------------------------------------------------------------
(* The texts and what they mean.                                           *)

LEMMA Fields ==
    ASSUME NEW doc \in Document
    PROVE  /\ doc.js \in Hours /\ doc.go \in Hours /\ doc.rust \in Hours
           /\ doc.build \in Hours /\ doc.node \in Hours
           /\ doc.interval \in Hours /\ doc.maintenance \in Hours
           /\ IsFiniteSet(doc.protected) /\ doc.protected \subseteq RawPath
           /\ doc.cleanup # None =>
                /\ doc.cleanup.cache \in Hours /\ doc.cleanup.build \in Hours
                /\ doc.cleanup.node \in Hours /\ doc.cleanup.critical \in Hours
                /\ doc.cleanup.actions \in Hours /\ doc.cleanup.enabled \in Switch
                /\ doc.cleanup.roots \subseteq Names
                /\ doc.cleanup.protected \subseteq Seq(Names)
  BY DEF Document, Cleanup

\* The age of the caches is the longest that the file gives, if it gives one.
LEMMA LongestAge ==
    ASSUME NEW doc \in Document
    PROVE  /\ CacheAge(doc) \in Hours
           /\ \A age \in {doc.js, doc.go, doc.rust} \ {None} :
                CacheAge(doc) \in Nat /\ CacheAge(doc) >= age
<1> DEFINE ages == {doc.js, doc.go, doc.rust} \ {None}
<1>1. ages \subseteq Nat /\ None \notin Nat
  BY Fields, DocumentAssumption DEF Hours
<1>2. CASE ages = {}
  BY <1>2 DEF CacheAge, Hours
<1>3. CASE ages # {}
  <2>1. \E x \in ages : \A y \in ages : x >= y
    <3>1. PICK a \in ages : TRUE
      BY <1>3
    <3>2. PICK b \in ages : b >= a /\ (doc.js \in ages => b >= doc.js)
      BY <1>1, <3>1
    <3>3. PICK c \in ages : c >= b /\ (doc.go \in ages => c >= doc.go)
      BY <1>1, <3>2
    <3>4. PICK d \in ages : d >= c /\ (doc.rust \in ages => d >= doc.rust)
      BY <1>1, <3>3
    <3>5. \A y \in ages : d >= y
      BY <1>1, <3>2, <3>3, <3>4
    <3>6. QED
      BY <3>4, <3>5
  <2>2. Max(ages) \in ages /\ \A y \in ages : Max(ages) >= y
    <3> HIDE DEF ages
    <3>1. QED
      BY <2>1 DEF Max
  <2>3. CacheAge(doc) = Max(ages)
    BY <1>3 DEF CacheAge
  <2> HIDE DEF ages
  <2>4. QED
    BY <1>1, <2>2, <2>3 DEF Hours, ages
<1>4. QED
  BY <1>2, <1>3

\* The settings of an accepted file are those of one of the two schemas.
LEMMA Accepted ==
    ASSUME NEW doc \in Document, NEW home \in BOOLEAN, NEW c,
           c = ParseConfigText(doc, home), c # None
    PROVE  /\ Valid(c)
           /\ \/ Kind(doc) = "legacy" /\ c = MigrateLegacyConfig(doc, home)
              \/ Kind(doc) = "current" /\ c = Current(doc, home)
  BY DEF ParseConfigText, Accept

LEMMA Migrated ==
    ASSUME NEW doc \in Document, NEW home \in BOOLEAN, NEW c,
           c = MigrateLegacyConfig(doc, home), c # None
    PROVE  LET base == DefaultForHome(home)
           IN  /\ None \notin Expanded(doc, home)
               /\ c = [schema |-> base.schema, disk |-> base.disk,
                       enabled |-> base.enabled, roots |-> base.roots,
                       protected |-> Expanded(doc, home),
                       cache |-> Given(CacheAge(doc), base.cache),
                       build |-> Given(doc.build, base.build),
                       node |-> Given(doc.node, base.node),
                       critical |-> base.critical, actions |-> base.actions,
                       interval |-> Given(doc.interval, base.interval),
                       maintenance |-> Given(doc.maintenance, base.maintenance)]
  BY DEF MigrateLegacyConfig

LEMMA ShortSeq ==
    ASSUME NEW S, NEW a \in S, NEW b \in S
    PROVE  <<a>> \in Seq(S) /\ <<a, b>> \in Seq(S)
  OBVIOUS

LEMMA Defaults ==
    ASSUME NEW home \in BOOLEAN, NEW base, base = DefaultForHome(home)
    PROVE  /\ base.schema = "1" /\ base.disk = "valid" /\ base.enabled \in BOOLEAN
           /\ base.critical = 24 /\ base.actions \in Nat
           /\ base.cache \in Nat /\ base.build \in Nat /\ base.node \in Nat
           /\ base.interval \in Nat /\ base.maintenance \in Nat
           /\ base.roots \subseteq Names /\ base.protected \subseteq Seq(Names)
<1>1. PICK paths : paths = {<<"etc">>, <<"home", ".ssh">>}
  OBVIOUS
<1>2. paths \subseteq Seq(Names)
  <2>1. "etc" \in Names /\ "home" \in Names /\ ".ssh" \in Names
    BY DocumentAssumption
  <2>2. <<"etc">> \in Seq(Names) /\ <<"home", ".ssh">> \in Seq(Names)
    BY <2>1, ShortSeq
  <2>3. QED
    BY <1>1, <2>2
<1>3. PICK roots : roots = {"home"}
  OBVIOUS
<1>4. roots \subseteq Names
  BY <1>3, DocumentAssumption
<1>5. PICK yes : yes = TRUE
  OBVIOUS
<1>6. base = [schema |-> "1", disk |-> "valid", enabled |-> yes,
              roots |-> IF home THEN roots ELSE {},
              protected |-> IF home THEN paths ELSE {},
              cache |-> 168, build |-> 168, node |-> 720, critical |-> 24, actions |-> 20,
              interval |-> 30, maintenance |-> 21600]
  BY <1>1, <1>3, <1>5, SMT DEF DefaultForHome
<1>7. /\ base.schema = "1" /\ base.disk = "valid" /\ base.critical = 24
      /\ base.enabled = yes /\ base.actions = 20
      /\ base.cache = 168 /\ base.build = 168 /\ base.node = 720
      /\ base.interval = 30 /\ base.maintenance = 21600
      /\ base.roots \in {roots, {}} /\ base.protected \in {paths, {}}
  BY <1>6, SMT
<1>8. base.enabled \in BOOLEAN
  BY <1>5, <1>7
<1>9. QED
  BY <1>2, <1>4, <1>7, <1>8, SMT

\* Whatever a legacy file says, migration keeps the ages it asks for, and those
\* above a day still ask for a day when space is wanted (migrate_legacy_config,
\* age_for).
THEOREM AgesCorrect == ASSUME NEW docs \in SUBSET Document PROVE AgesKept(docs)
<1> DEFINE Keeps(c, compress, normal, age) ==
             age # None => \/ AgeFor(c, compress, normal) >= age
                           \/ compress /\ AgeFor(c, compress, normal) >= 24
<1> SUFFICES ASSUME NEW doc \in docs, NEW home \in BOOLEAN, NEW compress \in BOOLEAN,
                    NEW c, c = ParseConfigText(doc, home), Kind(doc) = "legacy", c # None
             PROVE  /\ Keeps(c, compress, c.cache, doc.js) /\ Keeps(c, compress, c.cache, doc.go)
                    /\ Keeps(c, compress, c.cache, doc.rust)
                    /\ Keeps(c, compress, c.build, doc.build)
                    /\ Keeps(c, compress, c.node, doc.node)
  BY DEF AgesKept
<1>1. doc \in Document
  OBVIOUS
<1>2. c = MigrateLegacyConfig(doc, home)
  BY <1>1, Accepted
<1>3. \E x, y, z : /\ c.cache = Given(CacheAge(doc), x) /\ x \in Nat
                   /\ c.build = Given(doc.build, y) /\ c.node = Given(doc.node, z)
  <2>1. PICK base : base = DefaultForHome(home)
    OBVIOUS
  <2>2. /\ c.cache = Given(CacheAge(doc), base.cache) /\ c.build = Given(doc.build, base.build)
        /\ c.node = Given(doc.node, base.node)
    BY <1>1, <1>2, <2>1, Migrated
  <2>3. QED
    BY <2>1, <2>2, Defaults
<1>4. c.critical = 24
  <2>1. PICK base : base = DefaultForHome(home)
    OBVIOUS
  <2>2. c.critical = base.critical
    BY <1>1, <1>2, <2>1, Migrated
  <2>3. QED
    BY <2>1, <2>2, Defaults
<1>5. ASSUME NEW normal \in Nat, NEW age \in Nat, normal >= age
      PROVE  Keeps(c, compress, normal, age)
  BY <1>4, <1>5 DEF AgeFor
<1>6. ASSUME NEW age \in {doc.js, doc.go, doc.rust}, age # None
      PROVE  age \in Nat /\ c.cache \in Nat /\ c.cache >= age
  <2>1. CacheAge(doc) \in Nat /\ CacheAge(doc) >= age
    BY <1>1, <1>6, LongestAge
  <2>2. CacheAge(doc) # None
    BY <2>1, DocumentAssumption
  <2>3. age \in Nat
    BY <1>1, <1>6, Fields DEF Hours
  <2>4. QED
    BY <1>3, <2>1, <2>2, <2>3 DEF Given
<1>7. doc.build # None => doc.build \in Nat /\ c.build = doc.build
  BY <1>1, <1>3, Fields DEF Given, Hours
<1>8. doc.node # None => doc.node \in Nat /\ c.node = doc.node
  BY <1>1, <1>3, Fields DEF Given, Hours
<1>9. ASSUME NEW age \in {doc.js, doc.go, doc.rust} PROVE Keeps(c, compress, c.cache, age)
  <2>1. CASE age = None
    BY <2>1
  <2>2. CASE age # None
    BY <1>5, <1>6, <2>2
  <2>3. QED
    BY <2>1, <2>2
<1>10. Keeps(c, compress, c.build, doc.build)
  <2>1. CASE doc.build = None
    BY <2>1
  <2>2. CASE doc.build # None
    <3>1. doc.build \in Nat /\ c.build = doc.build /\ doc.build >= doc.build
      BY <1>7, <2>2
    <3>2. QED
      BY <1>5, <3>1
  <2>3. QED
    BY <2>1, <2>2
<1>11. Keeps(c, compress, c.node, doc.node)
  <2>1. CASE doc.node = None
    BY <2>1
  <2>2. CASE doc.node # None
    <3>1. doc.node \in Nat /\ c.node = doc.node /\ doc.node >= doc.node
      BY <1>8, <2>2
    <3>2. QED
      BY <1>5, <3>1
  <2>3. QED
    BY <2>1, <2>2
<1> HIDE DEF Keeps
<1>12. QED
  BY <1>9, <1>10, <1>11

\* The paths that are protected after a migration are those that the legacy
\* file protects (migrate_legacy_protected_path).
THEOREM ProtectionCorrect ==
    ASSUME NEW docs \in SUBSET Document PROVE ProtectionKept(docs)
<1> SUFFICES ASSUME NEW doc \in docs, NEW home \in BOOLEAN,
                    NEW c, c = ParseConfigText(doc, home), Kind(doc) = "legacy", c # None
             PROVE  /\ \A raw \in doc.protected : \E path \in c.protected : Means(raw, path)
                    /\ \A path \in c.protected : \E raw \in doc.protected : Means(raw, path)
  BY DEF ProtectionKept
<1>1. doc \in Document
  OBVIOUS
<1>2. c = MigrateLegacyConfig(doc, home)
  BY <1>1, Accepted
<1>3. None \notin Expanded(doc, home) /\ c.protected = Expanded(doc, home)
  BY <1>1, <1>2, Migrated
<1>4. ASSUME NEW raw \in doc.protected
      PROVE  Expand(raw, home) \in c.protected /\ Means(raw, Expand(raw, home))
  <2>1. Expand(raw, home) \in c.protected /\ Expand(raw, home) # None
    BY <1>3 DEF Expanded
  <2>2. Means(raw, Expand(raw, home))
    BY <2>1 DEF Expand, Means
  <2>3. QED
    BY <2>1, <2>2
<1>5. ASSUME NEW path \in c.protected PROVE \E raw \in doc.protected : path = Expand(raw, home)
  BY <1>3 DEF Expanded
<1>6. QED
  BY <1>4, <1>5

LEMMA GivenHours ==
    ASSUME NEW hours \in Hours, NEW n \in Nat
    PROVE  Given(hours, n) \in Nat
  BY DEF Given, Hours

\* Settings, as to_toml prints them.
Settings ==
    [schema : {"1"}, disk : {"valid"}, enabled : BOOLEAN, roots : SUBSET Names,
     protected : SUBSET Seq(Names), cache : Nat, build : Nat, node : Nat, critical : Nat,
     actions : Nat, interval : Nat, maintenance : Nat]

\* What a [cleanup] comes to, or the defaults that stand for it.
LEMMA CleanupType ==
    ASSUME NEW doc \in Document, NEW home \in BOOLEAN, NEW cleanup,
           cleanup = IF doc.cleanup = None THEN DefaultForHome(home)
                     ELSE Completed(doc.cleanup, DefaultForHome(home))
    PROVE  /\ cleanup.enabled \in BOOLEAN /\ cleanup.roots \subseteq Names
           /\ cleanup.protected \subseteq Seq(Names) /\ cleanup.cache \in Nat
           /\ cleanup.build \in Nat /\ cleanup.node \in Nat /\ cleanup.critical \in Nat
           /\ cleanup.actions \in Nat
<1>1. PICK base : base = DefaultForHome(home)
  OBVIOUS
<1>2. /\ base.enabled \in BOOLEAN /\ base.critical = 24 /\ base.actions \in Nat
      /\ base.cache \in Nat /\ base.build \in Nat /\ base.node \in Nat
      /\ base.roots \subseteq Names /\ base.protected \subseteq Seq(Names)
  BY <1>1, Defaults
<1>3. CASE doc.cleanup = None
  BY <1>1, <1>2, <1>3
<1>4. CASE doc.cleanup # None
  <2>1. PICK t \in Cleanup : t = doc.cleanup
    BY <1>4 DEF Document
  <2>2. cleanup = [t EXCEPT
                     !.enabled = Given(t.enabled, base.enabled),
                     !.cache = Given(t.cache, base.cache),
                     !.build = Given(t.build, base.build), !.node = Given(t.node, base.node),
                     !.critical = Given(t.critical, base.critical),
                     !.actions = Given(t.actions, base.actions)]
    BY <1>1, <1>4, <2>1 DEF Completed
  <2>3. /\ cleanup.enabled = Given(t.enabled, base.enabled)
        /\ cleanup.cache = Given(t.cache, base.cache)
        /\ cleanup.build = Given(t.build, base.build) /\ cleanup.node = Given(t.node, base.node)
        /\ cleanup.critical = Given(t.critical, base.critical)
        /\ cleanup.actions = Given(t.actions, base.actions)
        /\ cleanup.roots = t.roots /\ cleanup.protected = t.protected
    BY <2>1, <2>2 DEF Cleanup
  <2>4. /\ t.cache \in Hours /\ t.build \in Hours /\ t.node \in Hours
        /\ t.critical \in Hours /\ t.actions \in Hours /\ t.enabled \in Switch
        /\ t.roots \subseteq Names /\ t.protected \subseteq Seq(Names)
    BY <2>1 DEF Cleanup
  <2>5. cleanup.enabled \in BOOLEAN
    BY <1>2, <2>3, <2>4 DEF Given, Switch
  <2>6. /\ Given(t.cache, base.cache) \in Nat /\ Given(t.build, base.build) \in Nat
        /\ Given(t.node, base.node) \in Nat /\ Given(t.critical, base.critical) \in Nat
        /\ Given(t.actions, base.actions) \in Nat
    <3>1. 24 \in Nat
      OBVIOUS
    <3>2. QED
      BY <1>2, <2>4, <3>1, GivenHours
  <2>7. QED
    BY <2>3, <2>4, <2>5, <2>6
<1>5. QED
  BY <1>3, <1>4

LEMMA AcceptedType ==
    ASSUME NEW doc \in Document, NEW home \in BOOLEAN, NEW c,
           c = ParseConfigText(doc, home), c # None
    PROVE  c \in Settings
<1>1. PICK base : base = DefaultForHome(home)
  OBVIOUS
<1>2. /\ base.schema = "1" /\ base.disk = "valid" /\ base.critical = 24
      /\ base.enabled \in BOOLEAN /\ base.actions \in Nat
      /\ base.cache \in Nat /\ base.build \in Nat /\ base.node \in Nat
      /\ base.interval \in Nat /\ base.maintenance \in Nat
      /\ base.roots \subseteq Names /\ base.protected \subseteq Seq(Names)
  BY <1>1, Defaults
<1>3. c.schema = "1" /\ c.disk = "valid"
  <2>1. Valid(c)
    BY Accepted
  <2>2. QED
    BY <2>1, SMT DEF Valid
<1>4. CASE c = MigrateLegacyConfig(doc, home)
  <2>1. Expanded(doc, home) \subseteq Seq(Names)
    <3>1. ASSUME NEW raw \in doc.protected PROVE Expand(raw, home) \in Seq(Names) \cup {None}
      <4>1. raw.rest \in Seq(Names)
        BY Fields DEF RawPath
      <4>2. <<"home">> \o raw.rest \in Seq(Names)
        <5>1. "home" \in Names
          BY DocumentAssumption
        <5>2. <<"home">> \in Seq(Names)
          BY <5>1, ShortSeq
        <5>3. QED
          BY <4>1, <5>2
      <4>3. QED
        BY <4>1, <4>2 DEF Expand
    <3>2. QED
      BY <1>4, <3>1, Migrated DEF Expanded
  <2>2. /\ Given(CacheAge(doc), base.cache) \in Nat /\ Given(doc.build, base.build) \in Nat
        /\ Given(doc.node, base.node) \in Nat /\ Given(doc.interval, base.interval) \in Nat
        /\ Given(doc.maintenance, base.maintenance) \in Nat
    BY <1>2, Fields, LongestAge, GivenHours
  <2>3. c = [schema |-> base.schema, disk |-> base.disk,
             enabled |-> base.enabled, roots |-> base.roots,
             protected |-> Expanded(doc, home),
             cache |-> Given(CacheAge(doc), base.cache),
             build |-> Given(doc.build, base.build),
             node |-> Given(doc.node, base.node),
             critical |-> base.critical, actions |-> base.actions,
             interval |-> Given(doc.interval, base.interval),
             maintenance |-> Given(doc.maintenance, base.maintenance)]
    BY <1>1, <1>4, Migrated
  <2>4. base.critical \in Nat
    BY <1>2
  <2>5. QED
    BY <1>2, <2>1, <2>2, <2>3, <2>4 DEF Settings
<1>5. CASE c = Current(doc, home)
  <2>1. Strict(doc)
    BY <1>5 DEF Current
  <2>2. PICK cleanup : cleanup = IF doc.cleanup = None THEN base
                                 ELSE Completed(doc.cleanup, base)
    OBVIOUS
  <2>3. /\ cleanup.enabled \in BOOLEAN /\ cleanup.roots \subseteq Names
        /\ cleanup.protected \subseteq Seq(Names) /\ cleanup.cache \in Nat
        /\ cleanup.build \in Nat /\ cleanup.node \in Nat /\ cleanup.critical \in Nat
        /\ cleanup.actions \in Nat
    BY <1>1, <2>2, CleanupType
  <2>4. PICK interval, maintenance : /\ interval = Given(doc.interval, base.interval)
                                     /\ maintenance = Given(doc.maintenance, base.maintenance)
    OBVIOUS
  <2>5. interval \in Nat /\ maintenance \in Nat
    BY <1>2, <2>4, Fields, GivenHours
  <2>6. PICK schema, shares : c = [schema |-> schema, disk |-> shares,
             enabled |-> cleanup.enabled, roots |-> cleanup.roots,
             protected |-> cleanup.protected, cache |-> cleanup.cache,
             build |-> cleanup.build, node |-> cleanup.node, critical |-> cleanup.critical,
             actions |-> cleanup.actions, interval |-> interval,
             maintenance |-> maintenance]
    <3>1. PICK schema : schema = IF doc.schema = "none" THEN "1" ELSE doc.schema
      OBVIOUS
    <3>2. PICK shares : shares = Given(doc.disk, base.disk)
      OBVIOUS
    <3>3. c = [schema |-> schema, disk |-> shares,
             enabled |-> cleanup.enabled, roots |-> cleanup.roots,
             protected |-> cleanup.protected, cache |-> cleanup.cache,
             build |-> cleanup.build, node |-> cleanup.node, critical |-> cleanup.critical,
             actions |-> cleanup.actions, interval |-> interval,
             maintenance |-> maintenance]
      BY <1>1, <1>5, <2>1, <2>2, <2>4, <3>1, <3>2 DEF Current
    <3>4. QED
      BY <3>3
  <2>7. schema = "1" /\ shares = "valid"
    BY <1>3, <2>6
  <2>8. QED
    BY <2>3, <2>5, <2>6, <2>7 DEF Settings
<1>6. QED
  BY <1>4, <1>5, Accepted

\* Settings that are valid are printed as a file that is accepted and has them
\* (to_toml and parse_config_text).
LEMMA ReadBack ==
    ASSUME NEW c \in Settings, NEW home \in BOOLEAN, Valid(c), c # None
    PROVE  ParseConfigText(ToTomlText(c), home) = c
<1> DEFINE d == ToTomlText(c)
<1>1. /\ c.schema = "1" /\ c.disk = "valid" /\ c.critical \in Nat /\ c.actions \in Nat
      /\ c.enabled \in BOOLEAN
      /\ c.cache \in Nat /\ c.build \in Nat /\ c.node \in Nat
      /\ c.interval \in Nat /\ c.maintenance \in Nat
      /\ c.roots \subseteq Names /\ c.protected \subseteq Seq(Names)
      /\ c = [schema |-> c.schema, disk |-> c.disk, enabled |-> c.enabled,
              roots |-> c.roots, protected |-> c.protected, cache |-> c.cache,
              build |-> c.build, node |-> c.node, critical |-> c.critical,
              actions |-> c.actions, interval |-> c.interval,
              maintenance |-> c.maintenance]
  BY DEF Settings
<1>2. PICK t : t = [enabled |-> c.enabled, roots |-> c.roots, protected |-> c.protected,
                    cache |-> c.cache, build |-> c.build, node |-> c.node,
                    critical |-> c.critical, actions |-> c.actions]
  OBVIOUS
<1>3. /\ d.version = "none" /\ d.schema = "1" /\ d.tables = FALSE /\ d.typed = TRUE
      /\ d.strange = FALSE /\ d.retired = "none" /\ d.protected = {}
      /\ d.disk = "valid" /\ d.interval = c.interval /\ d.maintenance = c.maintenance
      /\ d.cleanup = t
  BY <1>1, <1>2 DEF ToTomlText, Blank
<1>4. d.cleanup # None
  <2>1. t \in Cleanup
    BY <1>1, <1>2 DEF Cleanup, Hours, Switch
  <2>2. QED
    BY <1>3, <2>1, DocumentAssumption
<1> HIDE DEF d
<1>5. Kind(d) = "current" /\ Strict(d)
  BY <1>3 DEF Kind, Strict
<1>6. \A hours \in Nat : \A n : Given(hours, n) = hours
  BY DocumentAssumption DEF Given
<1>7. \A n : Given(c.enabled, n) = c.enabled
  <2>1. c.enabled # None
    BY <1>1, DocumentAssumption
  <2>2. QED
    BY <2>1 DEF Given
<1>0. PICK base : base = DefaultForHome(home)
  OBVIOUS
<1>8. PICK cleanup : cleanup = Completed(t, base)
  OBVIOUS
<1>9. /\ cleanup.enabled = c.enabled /\ cleanup.roots = c.roots
      /\ cleanup.protected = c.protected /\ cleanup.cache = c.cache
      /\ cleanup.build = c.build /\ cleanup.node = c.node
      /\ cleanup.critical = c.critical /\ cleanup.actions = c.actions
  <2>1. cleanup = [t EXCEPT
                     !.enabled = Given(t.enabled, base.enabled),
                     !.cache = Given(t.cache, base.cache),
                     !.build = Given(t.build, base.build), !.node = Given(t.node, base.node),
                     !.critical = Given(t.critical, base.critical),
                     !.actions = Given(t.actions, base.actions)]
    BY <1>8 DEF Completed
  <2>2. /\ t.enabled = c.enabled /\ t.roots = c.roots /\ t.protected = c.protected
        /\ t.cache = c.cache /\ t.build = c.build /\ t.node = c.node
        /\ t.critical = c.critical /\ t.actions = c.actions
    BY <1>2
  <2>3. /\ cleanup.enabled = Given(t.enabled, base.enabled)
        /\ cleanup.cache = Given(t.cache, base.cache)
        /\ cleanup.build = Given(t.build, base.build) /\ cleanup.node = Given(t.node, base.node)
        /\ cleanup.critical = Given(t.critical, base.critical)
        /\ cleanup.actions = Given(t.actions, base.actions)
        /\ cleanup.roots = t.roots /\ cleanup.protected = t.protected
    BY <1>2, <2>1
  <2>4. QED
    BY <1>1, <1>6, <1>7, <2>2, <2>3
<1>10. Current(d, home) =
        [schema |-> d.schema, disk |-> Given(d.disk, base.disk),
         enabled |-> cleanup.enabled, roots |-> cleanup.roots,
         protected |-> cleanup.protected, cache |-> cleanup.cache,
         build |-> cleanup.build, node |-> cleanup.node,
         critical |-> cleanup.critical, actions |-> cleanup.actions,
         interval |-> Given(d.interval, base.interval),
         maintenance |-> Given(d.maintenance, base.maintenance)]
  BY <1>0, <1>3, <1>4, <1>5, <1>8 DEF Current
<1>11. Given(d.disk, base.disk) = c.disk
  <2>1. base.disk = "valid"
    BY <1>0, Defaults
  <2>2. QED
    BY <1>1, <1>3, <2>1 DEF Given
<1>12. Given(d.interval, base.interval) = c.interval
       /\ Given(d.maintenance, base.maintenance) = c.maintenance
  BY <1>1, <1>3, <1>6
<1>13. Current(d, home) = c
  BY <1>1, <1>3, <1>9, <1>10, <1>11, <1>12
<1>14. QED
  BY <1>5, <1>13 DEF ParseConfigText, Accept, d

\* What normalize writes for any file that is accepted is accepted again, with
\* the same meaning (to_toml and parse_config_text).
THEOREM NormalizeCorrect ==
    ASSUME NEW docs \in SUBSET Document PROVE NormalizeIsStable(docs)
<1> SUFFICES ASSUME NEW doc \in docs, NEW home \in BOOLEAN,
                    NEW c, c = ParseConfigText(doc, home), c # None
             PROVE  ParseConfigText(ToTomlText(c), home) = c
  BY DEF NormalizeIsStable
<1>1. doc \in Document
  OBVIOUS
<1>2. QED
  BY <1>1, Accepted, AcceptedType, ReadBack

\* Migration and normalize keep what a configuration means, and the files of
\* the store only ever hold texts of which this is true (ConfigStore and
\* parse_config_text).
THEOREM MeaningCorrect == Spec => []MeaningIsKept
<1>1. Legacy \in SUBSET Document /\ Legacy \cup Others \in SUBSET Document
  BY DocumentAssumption
<1>2. DocumentsKept
  BY <1>1, AgesCorrect, ProtectionCorrect, NormalizeCorrect DEF DocumentsKept
<1>3. StableTexts = Texts
  <2>1. ASSUME NEW t \in Texts PROVE NormalizeIsStable({Documents[t]})
    <3>1. {Documents[t]} \in SUBSET Document
      BY DocumentAssumption
    <3>2. QED
      BY <3>1, NormalizeCorrect
  <2>2. QED
    BY <2>1 DEF StableTexts
<1>4. TypeOK => MeaningIsKept
  BY <1>2, <1>3 DEF TypeOK, MeaningIsKept
<1>5. QED
  BY <1>4, TypeCorrect, PTL

\* What ConfigStore assumes of its tables is true of the configurations that
\* are read from some text, if different ones have different settings.
THEOREM RoundTripCorrect ==
    ASSUME \A c \in Configs : \E t \in Texts : Parse[t] = c,
           \A c, d \in Configs : Meant[c] = Meant[d] => c = d,
           \A c \in Configs : Meant[c] # None
    PROVE  \A c \in Configs : Parse[ToToml[c]] = c
<1> TAKE c \in Configs
<1>1. PICK t \in Texts : Parse[t] = c
  OBVIOUS
<1>2. Meant[c] = ParseConfigText(Documents[t], TRUE) /\ Meant[c] # None
  BY <1>1, NoneAssumption, MeaningAssumption
<1>3. NormalizeIsStable({Documents[t]})
  BY DocumentAssumption, NormalizeCorrect
<1>4. ParseConfigText(ToTomlText(Meant[c]), TRUE) = Meant[c]
  BY <1>2, <1>3 DEF NormalizeIsStable
<1>5. ParseConfigText(Documents[ToToml[c]], TRUE) = Meant[c]
  BY <1>4, MeaningAssumption
<1>6. ToToml[c] \in Texts /\ Parse[ToToml[c]] \in Configs \cup {None}
  BY TextAssumption
<1>7. Parse[ToToml[c]] # None /\ Meant[Parse[ToToml[c]]] = Meant[c]
  BY <1>2, <1>5, <1>6, MeaningAssumption
<1>8. QED
  BY <1>6, <1>7
============================================================================
