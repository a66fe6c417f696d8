----------------------------- MODULE Selection -----------------------------
(***************************************************************************)
(* What a cleanup cycle chooses to remove, over many cycles (src/main.rs   *)
(* run_cleanup, src/cleanup.rs plan_cleanup and the loop of                *)
(* execute_cleanup): a probe, the eligible candidates in order of risk and *)
(* age, the share of them that the logical budget and the action limit     *)
(* let through, and their removal one by one while the volume and the      *)
(* candidates go on changing.  How one directory is removed is the subject *)
(* of Cleanup; here a removal is one step.                                 *)
(***************************************************************************)
EXTENDS DiskPressure, SequencesExt

CONSTANTS
    Enabled,     \* configured cleanup.enabled
    Paths,       \* candidate paths: numbers, compared as paths are
    Rank,        \* risk rank of the kind of each path
    NormalAge,   \* configured minimum age of each risk rank
    CriticalAge, \* configured critical_min_age
    MaxActions,  \* configured max_actions_per_cycle
    Volumes, Configs,  \* bound: volumes and disk configurations considered
    Frees,       \* bound: bytes free at the start
    Sizes,       \* bound: logical sizes of a candidate
    MaxAge,      \* bound: ages of a candidate
    MaxUser,     \* bound: steps of the user's programs
    MaxFails     \* bound: cycles that end in an error

ASSUME PathsAssumption ==
    /\ Paths \subseteq Nat /\ IsFiniteSet(Paths)
    /\ Rank \in [Paths -> 0 .. 2]
    /\ Sizes \subseteq Nat
ASSUME SettingsAssumption ==
    /\ Enabled \in BOOLEAN
    /\ NormalAge \in [0 .. 2 -> Nat \ {0}]
    /\ CriticalAge \in Nat \ {0}
    /\ MaxActions \in 1 .. 100
    /\ MaxAge \in Nat /\ MaxUser \in Nat /\ MaxFails \in Nat
ASSUME VolumeAssumption ==
    /\ Volumes \subseteq Nat \ {0}
    /\ Frees \subseteq Nat
    /\ \A c \in Configs : c \in Thresholds /\ ValidDisk(c)

VARIABLES
    config, total,  \* the disk configuration and the size of the volume
    free,           \* bytes free on the volume
    present,        \* candidates that exist
    age, size,      \* since the newest modification, and logical bytes
    stuck,          \* candidates whose inspection or removal fails
    running,        \* a cycle is executing
    need, budget,   \* its need_space and logical budget
    seen,           \* the candidates its planning found
    stale,          \* candidates written to since then
    plan,           \* those it selected and has not handled yet, in order
    tried,          \* those it has handled
    deleted,        \* deleted_logical_bytes of its report
    user, fails     \* counters for the bounds

volume == <<config, total>>
chosen == <<need, budget, seen>>
vars == <<volume, free, present, age, size, stuck, stale, running, chosen,
          plan, tried, deleted, user, fails>>

TypeOK ==
    /\ config \in Configs /\ total \in Volumes /\ free \in 0 .. total
    /\ present \subseteq Paths /\ stuck \subseteq Paths /\ stale \subseteq Paths
    /\ age \in [Paths -> 0 .. MaxAge] /\ size \in [Paths -> Sizes]
    /\ running \in BOOLEAN /\ need \in BOOLEAN /\ budget \in Nat
    /\ seen \subseteq Paths /\ plan \in Seq(seen) /\ tried \subseteq seen
    /\ deleted \in Nat
    /\ user \in 0 .. MaxUser /\ fails \in 0 .. MaxFails

Init ==
    /\ config \in Configs /\ total \in Volumes
    /\ free \in {f \in Frees : ValidVolume(total, f)}
    /\ present \in SUBSET Paths /\ stuck \in SUBSET present
    /\ age \in [Paths -> 0 .. MaxAge] /\ size \in [Paths -> Sizes]
    /\ stale = {} /\ running = FALSE /\ need = FALSE /\ budget = 0
    /\ seen = {} /\ plan = <<>> /\ tried = {} /\ deleted = 0
    /\ user = 0 /\ fails = 0

----------------------------------------------------------------------------

\* age_for: ages are compressed for want of space.
MinAge(p, compress) ==
    IF compress THEN Smaller(CriticalAge, NormalAge[Rank[p]])
    ELSE NormalAge[Rank[p]]

\* Mutant of Before: the oldest first, whatever the risk.
OldestBefore(p, q) ==
    \/ age[p] > age[q]
    \/ age[p] = age[q] /\ p < q

\* The order of plan.candidates: risk, then newest modification, then larger.
Before(p, q) ==
    \/ Rank[p] < Rank[q]
    \/ /\ Rank[p] = Rank[q]
       /\ \/ age[p] > age[q]
          \/ age[p] = age[q] /\ size[p] > size[q]
          \/ age[p] = age[q] /\ size[p] = size[q] /\ p < q

\* sort_by: the one sequence of the members of S that is in order.
Ordered(S) ==
    {s \in [1 .. Cardinality(S) -> S] :
       \A i, j \in 1 .. Cardinality(S) : i < j => Before(s[i], s[j])}

\* What retain has selected before each candidate of s, in bytes.
Selected(s) ==
    LET sum[i \in 0 .. Len(s)] == IF i = 0 THEN 0 ELSE sum[i - 1] + size[s[i]]
    IN  sum

\* Mutant of Retains: a full budget still lets a candidate through.
RetainsInclusive(s, k, b) ==
    /\ \A i \in 1 .. k : Selected(s)[i - 1] <= b
    /\ k < Len(s) => Selected(s)[k] > b

\* retain keeps the first k candidates of s: while the budget is not reached.
Retains(s, k, b) ==
    /\ \A i \in 1 .. k : Selected(s)[i - 1] < b
    /\ k < Len(s) => Selected(s)[k] >= b

\* take(max_actions_per_cycle)
FirstActions(s) == SubSeq(s, 1, Smaller(Len(s), MaxActions))

\* What the inspection of a candidate accepts.
Removable(p, compress) ==
    p \in present \ stuck /\ age[p] >= MinAge(p, compress)

\* The second inspection, which compares the newest modification with the plan.
Accepted(p) == Removable(p, need) /\ p \notin stale

\* The probe, plan_cleanup and retain.  What makes a candidate stuck may show
\* at its first inspection, which leaves it out of the plan, or only later.
Begin ==
    /\ ~running
    /\ LET short == NeedSpace(free, total, config)
           old == {p \in present : Enabled /\ age[p] >= MinAge(p, short)}
           limit == LogicalBudget(free, total, config)
       IN \E found \in SUBSET old :
            /\ old \ stuck \subseteq found
            /\ seen' = found
            /\ need' = short
            /\ budget' = limit
            /\ \E order \in Ordered(found), k \in 0 .. Cardinality(found) :
                 /\ IF short THEN Retains(order, k, limit) ELSE k = Len(order)
                 /\ plan' = FirstActions(SubSeq(order, 1, k))
    /\ running' = TRUE
    /\ stale' = {} /\ tried' = {} /\ deleted' = 0
    /\ UNCHANGED <<volume, free, present, age, size, stuck, user, fails>>

Handle(p) ==
    /\ running
    /\ plan # <<>> /\ p = Head(plan)
    /\ plan' = Tail(plan)
    /\ tried' = tried \cup {p}

\* The second inspection accepts p and the directory is removed.  The volume
\* gains its logical size, or less: shared and sparse data may gain nothing.
Delete(p, gained) ==
    /\ Handle(p)
    /\ Accepted(p)
    /\ present' = present \ {p}
    /\ deleted' = deleted + size[p]
    /\ free' = Smaller(free + gained, total)
    /\ UNCHANGED <<volume, age, size, stuck, stale, running, chosen, user, fails>>

\* The second inspection or the removal fails and the loop goes on.
Spare(p) ==
    /\ Handle(p)
    /\ ~Accepted(p)
    /\ UNCHANGED <<volume, free, present, age, size, stuck, stale, running, chosen,
                   deleted, user, fails>>

Finish ==
    /\ running
    /\ plan = <<>>
    /\ running' = FALSE
    /\ UNCHANGED <<volume, free, present, age, size, stuck, stale, chosen, plan,
                   tried, deleted, user, fails>>

\* An append to the audit log fails and ends the cycle.
Fail ==
    /\ fails < MaxFails
    /\ fails' = fails + 1
    /\ running
    /\ running' = FALSE
    /\ UNCHANGED <<volume, free, present, age, size, stuck, stale, chosen, plan,
                   tried, deleted, user>>

UserStep == user < MaxUser /\ user' = user + 1

\* The user's programs fill the volume or free some of it.
UserUses(f) ==
    /\ UserStep
    /\ f # free /\ ValidVolume(total, f)
    /\ free' = f
    /\ UNCHANGED <<volume, present, age, size, stuck, stale, running, chosen, plan,
                   tried, deleted, fails>>

\* They write below a candidate, or create it again.
UserWrites(p, bytes) ==
    /\ UserStep
    /\ present' = present \cup {p}
    /\ age' = [age EXCEPT ![p] = 0]
    /\ size' = [size EXCEPT ![p] = bytes]
    /\ stale' = stale \cup {p}
    /\ UNCHANGED <<volume, free, stuck, running, chosen, plan, tried, deleted,
                   fails>>

\* They take a candidate into use or leave it.
UserHolds(p) ==
    /\ UserStep
    /\ p \in present
    /\ stuck' = IF p \in stuck THEN stuck \ {p} ELSE stuck \cup {p}
    /\ UNCHANGED <<volume, free, present, age, size, stale, running, chosen, plan,
                   tried, deleted, fails>>

TimePasses ==
    /\ UserStep
    /\ age' = [p \in Paths |-> Smaller(age[p] + 1, MaxAge)]
    /\ UNCHANGED <<volume, free, present, size, stuck, stale, running, chosen, plan,
                   tried, deleted, fails>>

Progress ==
    \/ Begin
    \/ \E p \in Paths : Spare(p) \/ \E gained \in {0, size[p]} : Delete(p, gained)
    \/ Finish

Next ==
    \/ Progress
    \/ Fail
    \/ \E f \in Frees : UserUses(f)
    \/ \E p \in Paths : UserHolds(p) \/ \E bytes \in Sizes : UserWrites(p, bytes)
    \/ TimePasses

Spec == Init /\ [][Next]_vars

\* Cycles are begun again and again, by the monitor or by hand, and a cycle
\* is executed to its end.
FairSpec == Spec /\ WF_vars(Progress)

----------------------------------------------------------------------------

\* The capped thresholds keep the order of the configured ones: no pressure
\* class is lost on a small volume and the target is not below pressure.
OrderKept ==
    LET t == Effective(config, total) IN
      /\ t.emergency <= t.critical
      /\ t.critical <= t.pressure
      /\ t.pressure <= t.target

\* README.md: "a small disk does not remain permanently in pressure".  On
\* every volume and with every valid configuration some amount of free space
\* below the whole of it needs no cleanup.
PressureCanEnd == total > 1 => \E f \in 0 .. total - 1 : ~NeedSpace(f, total, config)

\* The shares of pressure and target are the same number of bytes.
TinyVolume == PercentCap(total, 20) = PercentCap(total, 30)

\* Space is needed exactly when the budget is positive: selection neither
\* drops every candidate of a cycle that is due nor frees for nothing.
NeedHasBudget ==
    ~TinyVolume =>
      (NeedSpace(free, total, config) <=> LogicalBudget(free, total, config) > 0)

\* A cycle that frees its budget leaves the volume out of need, and one that
\* frees a byte less does not.
BudgetCures ==
    LET limit == LogicalBudget(free, total, config) IN
      ~TinyVolume =>
        /\ ~NeedSpace(free + limit, total, config)
        /\ limit > 0 => NeedSpace(free + limit - 1, total, config)

\* The removal of p by the cycle.
Removes(p) == tried' # tried /\ p \in present \ present'

\* A riskier kind (build output, then node_modules) is removed only after
\* every candidate of a safer kind that the cycle found has had its turn,
\* whatever the budget, the action limit and the user do.
SaferFirst ==
    [][\A p \in Paths : Removes(p) =>
         \A q \in seen : Rank[q] < Rank[p] => q \in tried]_vars

\* README.md: "Cleanup stays bounded by the effective target": a needy cycle
\* removes nothing more once it has removed its budget.
BoundedByTarget ==
    [][\A p \in Paths : Removes(p) /\ need => deleted < budget]_vars

\* If in the end nothing is stuck, repeated cycles end the need or remove
\* everything old enough.
Relieved ==
    \/ ~NeedSpace(free, total, config)
    \/ \A p \in present : ~Removable(p, TRUE)
ReliefComes ==
    Enabled => (<>[](stuck = {}) => <>[]Relieved)
============================================================================
