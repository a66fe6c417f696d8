----------------------------- MODULE Planning -----------------------------
(***************************************************************************)
(* What GuardWSL offers for removal (src/cleanup.rs plan_cleanup,          *)
(* src/repository.rs discover_repositories): the caches of the home        *)
(* directory, the repositories found below the scan roots, the projects    *)
(* found below each repository, the inspection of what they hold, and the  *)
(* sorted plan.  A directory is read by its name, one at a time, and the   *)
(* user moves, removes and writes directories in between.                  *)
(*                                                                         *)
(* A path is the sequence of its names below the home directory.  A        *)
(* directory that is moved away leaves a symbolic link, so that everything *)
(* below its path is still found through the link.  Inspection is one step *)
(* here: Cleanup has the system calls it is made of.                       *)
(***************************************************************************)
EXTENDS Integers, SequencesExt

CONSTANTS
    Layouts,      \* records: what the user has at the beginning
    Order,        \* the place of each path in the order of paths
    GlobalCaches, \* caches of the home directory
    Protected,    \* cleanup.protected_paths, normalised
    Age,          \* the minimum age of each kind, in this cycle
    MaxDepth,     \* depth of either walk (4 in the source)
    MaxProjects,  \* projects of a repository (512 in the source)
    Movable,      \* bound: directories the user moves, removes and makes
    Busy,         \* bound: directories the user's programs write and use
    Now,          \* the time; the plan takes none
    MaxSteps,     \* bound: the user's steps
    None

ASSUME OrderAssumption ==
    /\ DOMAIN Order \subseteq Seq(STRING) \ {<<>>} /\ None \notin DOMAIN Order
    /\ \A p \in DOMAIN Order : Order[p] \in Nat \ {0}
    /\ \A p, q \in DOMAIN Order : Order[p] = Order[q] => p = q

\* A directory is in directories, up to the names in the home directory.
ASSUME LayoutAssumption ==
    \A l \in Layouts :
      /\ l.dirs \subseteq DOMAIN Order /\ IsFiniteSet(l.dirs)
      /\ \A p \in l.dirs : \A n \in 1 .. Len(p) : SubSeq(p, 1, n) \in l.dirs
      /\ l.roots \subseteq l.dirs /\ DOMAIN l.git \subseteq l.dirs

ASSUME LimitAssumption ==
    /\ MaxDepth \in Nat /\ MaxProjects \in Nat /\ Now \in Nat /\ MaxSteps \in Nat

VARIABLES
    layout,    \* the record of Layouts: what a directory holds when it is there
    dirs,      \* the directories that are found, links followed
    away,      \* those that are symbolic links to where they were moved
    stamp,     \* newest modification time below each directory
    used,      \* directories that a process refers to
    pc,
    frontier,  \* entries of the walk that are still to be read
    repos,     \* repositories that were found and are still to be looked at
    repo,      \* the one that is
    projects,  \* its project directories
    offers,    \* what is still to be inspected
    candidates, skips,  \* the plan
    touched,   \* history: what the user touched since the plan was begun
    steps      \* counter for the bound

disk == <<dirs, away, stamp, used>>
found == <<frontier, repos, repo, projects, offers>>
result == <<candidates, skips>>
planVars == <<layout, disk, pc, found, result, touched, steps>>

Kinds == {"Cache", "ProjectCache", "RustTarget", "NextBuild", "NodeModules"}
Stages == {"start", "push", "roots", "walk", "repos", "projects", "sort", "done", "failed"}

\* The names the source tells apart.
Trash == ".guardwsl-trash-1"
NotScanned == {".git", "node_modules", "target", ".next", ".cache", ".venv", "venv",
               "vendor", "backups", "backup", ".codex", ".claude"}
NotProjects == {Trash, ".git", "node_modules", "target", ".next", ".turbo", ".cache",
                "dist", "build", "out", "vendor", "backups", "backup"}
RepoCaches == {".turbo", ".vite", ".pytest_cache", ".mypy_cache", ".ruff_cache"}
Manifests == {"Cargo.toml", "package.json"}
Artifacts == {"target", ".next", "node_modules"}

ASSUME CacheAssumption == \A p \in GlobalCaches \cap DOMAIN Order : Last(p) \notin Artifacts

All == layout.dirs
Names(base, p) == {p[i] : i \in Len(base) + 1 .. Len(p)}
Below(p, S) == {q \in S : IsPrefix(p, q)}

PlanTypeOK ==
    /\ layout \in Layouts
    /\ dirs \subseteq All /\ away \subseteq dirs /\ used \subseteq All
    /\ stamp \in [All -> 0 .. Now]
    /\ pc \in Stages
    /\ \A f \in frontier : f.path \in Below(f.base, All) /\ Len(f.path) - Len(f.base) <= MaxDepth
    /\ repos \cup projects \subseteq All /\ repo \in All \cup {None}
    /\ \A c \in offers \cup ToSet(candidates) :
         c.path \in All /\ c.kind \in Kinds /\ c.repo \in All \cup {None}
    /\ skips \cup touched \subseteq All
    /\ steps \in 0 .. MaxSteps

PlanInit ==
    /\ layout \in Layouts
    /\ dirs = All /\ away = {} /\ used = {}
    /\ stamp = [p \in All |-> 0]
    /\ pc = "start"
    /\ frontier = {} /\ repos = {} /\ repo = None /\ projects = {} /\ offers = {}
    /\ candidates = <<>> /\ skips = {}
    /\ touched = {} /\ steps = 0

----------------------------------------------------------------------------
(* What is asked of a path.                                                *)

\* canonicalize gives the path itself: no component of it is a link.
InPlace(p) == p \in dirs /\ \A q \in away : ~IsPrefix(q, p)

\* regular_file: read through links, for as long as the directory is found.
Holds(d, file) == d \in dirs /\ file \in layout.files[d]

\* find_lockfile: in the project or anywhere up to the repository.
FindLockfile(d, r) == \E q \in All : IsPrefix(r, q) /\ IsPrefix(q, d) /\ Holds(q, "lock")

ValidateContext(o) ==
    LET parent == Front(o.path)
    IN  /\ o.kind = "RustTarget" => Holds(parent, "Cargo.toml")
        /\ o.kind \in {"NextBuild", "NodeModules"} =>
             Holds(parent, "package.json") /\ FindLockfile(parent, o.repo)

\* Git is asked in the repository the candidate was found through.
ValidateGitState(o) ==
    o.repo # None => /\ o.path \notin layout.git[o.repo].tracked
                     /\ o.path \in layout.git[o.repo].ignored

\* inspect_candidate.
Inspects(o) ==
    /\ InPlace(o.path)
    /\ o.path \notin layout.loose /\ Front(o.path) \notin layout.loose
    /\ \A p \in Protected : ~IsPrefix(p, o.path) /\ ~IsPrefix(o.path, p)
    /\ ValidateContext(o) /\ ValidateGitState(o)
    /\ o.path \notin used
    /\ Now - stamp[o.path] >= Age[o.kind]

Candidate(o) == [path |-> o.path, kind |-> o.kind, repo |-> o.repo, stamp |-> stamp[o.path]]

IsGuardQuarantinePath(p) == Trash \in ToSet(p)

----------------------------------------------------------------------------
(* The plan.                                                               *)

Planner == UNCHANGED <<layout, disk, touched, steps>>
First(S) == CHOOSE p \in S : \A q \in S : Order[p] <= Order[q]
Entry(base, p) == [base |-> base, path |-> p]

\* plan_cleanup, add_global_caches.
StartPlan ==
    /\ pc = "start" /\ pc' = "push"
    /\ offers' = {[path |-> p, kind |-> "Cache", repo |-> None] : p \in GlobalCaches \cap All}
    /\ Planner /\ UNCHANGED <<frontier, repos, repo, projects, result>>

\* push_candidate: nothing is said of a path that is not there.
PushCandidate ==
    /\ pc = "push" /\ offers # {}
    /\ LET p == First({o.path : o \in offers})
           o == CHOOSE x \in offers : x.path = p
       IN  /\ offers' = offers \ {o}
           /\ IF p \notin dirs THEN UNCHANGED result
              ELSE IF Inspects(o)
                   THEN candidates' = Append(candidates, Candidate(o)) /\ UNCHANGED skips
              ELSE skips' = skips \cup {p} /\ UNCHANGED candidates
    /\ Planner /\ UNCHANGED <<pc, frontier, repos, repo, projects>>

Pushed ==
    /\ pc = "push" /\ offers = {}
    /\ pc' = IF repo = None THEN "roots" ELSE IF frontier = {} THEN "repos" ELSE "projects"
    /\ Planner /\ UNCHANGED <<found, result>>

\* authenticate_roots: one bad root and there is no plan at all.
AuthenticateRoots ==
    /\ pc = "roots"
    /\ IF \A r \in layout.roots : InPlace(r) /\ r \notin layout.loose
       THEN pc' = "walk" /\ frontier' = {Entry(r, r) : r \in layout.roots}
       ELSE pc' = "failed" /\ UNCHANGED frontier
    /\ Planner /\ UNCHANGED <<repos, repo, projects, offers, result>>

Next1(f) == f = CHOOSE x \in frontier : x.path = First({y.path : y \in frontier})

\* The directories a walk goes on to: links and excluded names are not among
\* them (WalkDir with follow_links(false), max_depth(4) and filter_entry).
Children(f, excluded) ==
    {Entry(f.base, q) : q \in {p \in dirs \ away :
        /\ Len(p) = Len(f.path) + 1 /\ IsPrefix(f.path, p)
        /\ Len(p) - Len(f.base) <= MaxDepth
        /\ Last(p) \notin excluded}}

\* authenticate_repository: the path is canonical, and .git is one.
Authentic(p) == InPlace(p) /\ layout.git[p].marker

\* discover_repositories, one directory: it is opened by the path it had when
\* its parent was read, through a link that has taken its place since.
VisitDirectory(f) ==
    /\ pc = "walk" /\ Next1(f)
    /\ frontier' = (frontier \ {f}) \cup IF f.path \in dirs THEN Children(f, NotScanned) ELSE {}
    /\ IF f.path \in dirs /\ (f.path \notin DOMAIN layout.git \/ Authentic(f.path))
       THEN /\ repos' = repos \cup ({f.path} \cap DOMAIN layout.git)
            /\ UNCHANGED skips
       ELSE skips' = skips \cup {f.path} /\ UNCHANGED repos
    /\ Planner /\ UNCHANGED <<pc, repo, projects, offers, candidates>>

WalkDone ==
    /\ pc = "walk" /\ frontier = {}
    /\ pc' = "repos"
    /\ Planner /\ UNCHANGED <<found, result>>

\* Mutant of SkipQuarantined: quarantines are left out by no one but the walk.
SkipNone(r) == FALSE

\* A repository in a preserved quarantine.
SkipQuarantined(r) == IsGuardQuarantinePath(r)

\* The next repository, in the order of paths: add_repository_candidates begins
\* with the caches at its root.
NextRepository ==
    /\ pc = "repos" /\ repos # {}
    /\ LET r == First(repos)
       IN  /\ repos' = repos \ {r}
           /\ IF SkipQuarantined(r)
              THEN skips' = skips \cup {r} /\ UNCHANGED <<pc, frontier, repo, projects, offers>>
              ELSE /\ pc' = "push" /\ repo' = r /\ frontier' = {Entry(r, r)} /\ projects' = {}
                   /\ offers' = {[path |-> Append(r, n), kind |-> "ProjectCache", repo |-> r] :
                                   n \in {x \in RepoCaches : Append(r, x) \in All}}
                   /\ UNCHANGED skips
    /\ Planner /\ UNCHANGED candidates

RepositoriesDone ==
    /\ pc = "repos" /\ repos = {}
    /\ pc' = "sort"
    /\ Planner /\ UNCHANGED <<found, result>>

\* Mutant of HasManifest: an entry is one level deeper than the depth counts.
HasManifestShallow(d) ==
    /\ \E file \in Manifests : Holds(d, file)
    /\ Len(d) - Len(repo) + 1 < MaxDepth

\* A manifest is an entry too: its directory is one level less deep.
HasManifest(d) ==
    /\ \E file \in Manifests : Holds(d, file)
    /\ Len(d) - Len(repo) + 1 <= MaxDepth

\* discover_project_roots, one directory; errors are passed over.
VisitProject(f) ==
    /\ pc = "projects" /\ Next1(f)
    /\ frontier' = (frontier \ {f}) \cup IF f.path \in dirs THEN Children(f, NotProjects) ELSE {}
    /\ projects' = IF HasManifest(f.path) THEN projects \cup {f.path} ELSE projects
    /\ Planner /\ UNCHANGED <<pc, repos, repo, offers, result>>

\* What a project is asked for; the sibling manifests are looked at again by
\* ValidateContext.
OffersOf(d, r) ==
    {o \in {[path |-> Append(d, "target"), kind |-> "RustTarget", repo |-> r],
            [path |-> Append(d, ".next"), kind |-> "NextBuild", repo |-> r],
            [path |-> Append(d, "node_modules"), kind |-> "NodeModules", repo |-> r]} :
        /\ o.path \in All
        /\ Holds(d, IF o.kind = "RustTarget" THEN "Cargo.toml" ELSE "package.json")
        /\ o.kind = "NodeModules" => FindLockfile(d, r)}

\* The first MAX_DISCOVERED_PROJECTS of them; nothing is said of the others.
ProjectsDone ==
    /\ pc = "projects" /\ frontier = {}
    /\ LET taken == {d \in projects :
                       Cardinality({e \in projects : Order[e] < Order[d]}) < MaxProjects}
       IN  offers' = UNION {OffersOf(d, repo) : d \in taken}
    /\ pc' = "push"
    /\ Planner /\ UNCHANGED <<frontier, repos, repo, projects, result>>

RiskRank(kind) ==
    CASE kind \in {"Cache", "ProjectCache"} -> 0
      [] kind \in {"RustTarget", "NextBuild"} -> 1
      [] kind = "NodeModules" -> 2

RepoOrder(c) == IF c.repo = None THEN 0 ELSE Order[c.repo]

\* sort_by is stable, and repositories come in the order of paths.
Precedes(c, d) ==
    \/ RiskRank(c.kind) < RiskRank(d.kind)
    \/ /\ RiskRank(c.kind) = RiskRank(d.kind)
       /\ \/ c.stamp < d.stamp
          \/ c.stamp = d.stamp /\ Order[c.path] < Order[d.path]
          \/ c.stamp = d.stamp /\ c.path = d.path /\ RepoOrder(c) < RepoOrder(d)

\* sort_by: the place of each is the number of those that precede it.
InOrder(S) ==
    [i \in 1 .. Cardinality(S) |->
       CHOOSE c \in S : Cardinality({d \in S : Precedes(d, c)}) = i - 1]

\* dedup_by: whose neighbour before it has the same path.
Repeated(S) ==
    {c \in S : \E d \in S : /\ d.path = c.path /\ Precedes(d, c)
                            /\ \A e \in S : ~(Precedes(d, e) /\ Precedes(e, c))}

\* Mutant of Tidied: neighbours are compared before the plan is sorted.
DedupFirst(s) ==
    InOrder({s[i] : i \in {k \in DOMAIN s : k = 1 \/ s[k - 1].path # s[k].path}})

Tidied(s) == InOrder(ToSet(s) \ Repeated(ToSet(s)))

SortPlan ==
    /\ pc = "sort" /\ pc' = "done"
    /\ candidates' = Tidied(candidates)
    /\ Planner /\ UNCHANGED <<found, skips>>

----------------------------------------------------------------------------
(* The user.                                                               *)

User(p) ==
    /\ pc \notin {"done", "failed"}
    /\ steps < MaxSteps /\ steps' = steps + 1
    /\ touched' = IF pc = "start" THEN {} ELSE touched \cup {p}
    /\ UNCHANGED <<layout, pc, found, result>>

\* mv, and ln -s in its place; and back again.
UserMoves(p) ==
    /\ User(p)
    /\ p \in dirs /\ away' = (away \cup {p}) \ (away \cap {p})
    /\ UNCHANGED <<dirs, stamp, used>>

UserRemoves(p) ==
    /\ User(p)
    /\ p \in dirs /\ dirs' = dirs \ Below(p, dirs) /\ away' = away \ Below(p, dirs)
    /\ UNCHANGED <<stamp, used>>

\* A removed directory is there again, and what it held.
UserMakes(p) ==
    /\ User(p)
    /\ p \in All \ dirs /\ (Len(p) = 1 \/ Front(p) \in dirs)
    /\ dirs' = dirs \cup Below(p, All)
    /\ UNCHANGED <<away, stamp, used>>

\* Written to, or unpacked with the times of an archive.
UserTouches(p, time) ==
    /\ User(p)
    /\ p \in dirs /\ time # stamp[p] /\ stamp' = [stamp EXCEPT ![p] = time]
    /\ UNCHANGED <<dirs, away, used>>

UserOpens(p) ==
    /\ User(p)
    /\ p \in dirs /\ used' = used \cup {p}
    /\ UNCHANGED <<dirs, away, stamp>>

----------------------------------------------------------------------------
Plan ==
    \/ StartPlan \/ PushCandidate \/ Pushed \/ AuthenticateRoots \/ WalkDone
    \/ NextRepository \/ RepositoriesDone \/ ProjectsDone \/ SortPlan
    \/ \E f \in frontier : VisitDirectory(f) \/ VisitProject(f)

PlanNext ==
    \/ Plan
    \/ \E p \in Movable : UserMoves(p) \/ UserRemoves(p) \/ UserMakes(p)
    \/ \E p \in Busy : UserOpens(p) \/ \E time \in 0 .. Now : UserTouches(p, time)

PlanSpec == PlanInit /\ [][PlanNext]_planVars

----------------------------------------------------------------------------
(* What should be offered, said without the walks.                         *)

Untouched(p) == \A q \in touched : ~IsPrefix(q, p)

\* Repositories that lie where they are looked for.
IsRepository(r) ==
    /\ r \in DOMAIN layout.git /\ layout.git[r].marker /\ InPlace(r)
    /\ \E root \in layout.roots :
         /\ IsPrefix(root, r) /\ Len(r) <= Len(root) + MaxDepth
         /\ Names(root, r) \cap NotScanned = {}

\* Where it may have projects, and where it has them.
ProjectPlaces(r) ==
    {d \in Below(r, All) : /\ Len(d) < Len(r) + MaxDepth
                           /\ Names(r, d) \cap NotProjects = {}
                           /\ layout.files[d] \cap Manifests # {}}
ProjectsOf(r) == ProjectPlaces(r) \cap dirs

OffersIn(r) ==
    {[path |-> p, kind |-> "ProjectCache", repo |-> r] :
       p \in {q \in All : Front(q) = r /\ Last(q) \in RepoCaches}}
    \cup UNION {OffersOf(d, r) : d \in ProjectsOf(r)}

\* Everything that may be removed, unless it is in a preserved quarantine.
Offered ==
    {[path |-> p, kind |-> "Cache", repo |-> None] : p \in GlobalCaches \cap All}
    \cup UNION {OffersIn(r) : r \in {x \in DOMAIN layout.git :
                                       IsRepository(x) /\ Trash \notin ToSet(x)}}

----------------------------------------------------------------------------
(* Properties.                                                             *)

\* Nested repositories and overlapping roots offer a directory several times,
\* and it is inspected as often; it is in the plan, and its bytes in the budget,
\* twice only if it was given another time in between.
PlannedOnce ==
    pc = "done" =>
      \A i, j \in DOMAIN candidates :
        candidates[i].path = candidates[j].path /\ i # j =>
          candidates[i].stamp # candidates[j].stamp

\* Whatever the walks ran into: what no one touched meanwhile is in the plan
\* only where it really is, below a root, in a repository and a project that the
\* two depths and the excluded names leave, outside of every preserved quarantine.
PlanIsSound ==
    pc = "done" =>
      \A c \in ToSet(candidates) :
        Untouched(c.path) =>
          [path |-> c.path, kind |-> c.kind, repo |-> c.repo] \in
            {o \in Offered : InPlace(o.path) /\ Inspects(o)}

\* And all of it is: what no one touched is planned or, if its inspection refuses
\* it, among the skips, whatever happened to its neighbours.  Repositories that
\* may have had more projects than are taken are excepted: one that has been
\* removed since takes the place of another.
PlanIsComplete ==
    pc = "done" =>
      \A o \in Offered :
        /\ InPlace(o.path) /\ Untouched(o.path)
        /\ o.repo = None \/ Cardinality(ProjectPlaces(o.repo)) <= MaxProjects
        => IF Inspects(o) THEN o.path \in {c.path : c \in ToSet(candidates)} ELSE o.path \in skips
============================================================================
