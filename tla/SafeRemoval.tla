---------------------------- MODULE SafeRemoval ----------------------------
(* What the cleanup executor promises whoever owns the directories: one is  *)
(* announced, set aside whole under a name nothing has, and cut down only   *)
(* if it is the announced one; every other directory keeps its files, under *)
(* its path or under the name it was set aside by.  Plans, inspections, the *)
(* audit log and failing calls are not seen from here.                      *)
EXTENDS Naturals

CONSTANTS
    Paths,   \* paths a directory may have
    Dirs,    \* directories
    Procs,   \* processes that remove
    Tries    \* what tells the names of one process for one path apart

VARIABLES
    home,       \* the path of each directory, if it has one
    aside,      \* the name each directory is set aside by, if it is
    cut,        \* directories that have lost entries to a removal
    announced   \* what each process has said it removes

vars == <<home, aside, cut, announced>>

FreePath(p) == \A d \in Dirs : p \notin home[d]
FreeName(n) == \A d \in Dirs : n \notin aside[d]
Nowhere(d) == home[d] = {} /\ aside[d] = {}

Init ==
    /\ home \in [Dirs -> {{}} \cup {{p} : p \in Paths}]
    /\ \A d, e \in Dirs : d # e => home[d] \cap home[e] = {}
    /\ aside = [d \in Dirs |-> {}]
    /\ cut = {}
    /\ announced = [r \in Procs |-> {}]

Announce(r, p, d) ==
    /\ announced[r] = {}
    /\ announced' = [announced EXCEPT ![r] = {<<p, d>>}]
    /\ UNCHANGED <<home, aside, cut>>

\* The directory that has the announced path by now, whichever it is.
SetAside(r, p, d, k) ==
    /\ FreeName(<<p, r, k>>)
    /\ home[d] = {p} /\ aside[d] = {}
    /\ home' = [home EXCEPT ![d] = {}]
    /\ aside' = [aside EXCEPT ![d] = {<<p, r, k>>}]
    /\ UNCHANGED <<cut, announced>>

\* Only the announced directory, under a name of its process, loses entries ...
Cut(r, p, d, k) ==
    /\ aside[d] = {<<p, r, k>>}
    /\ cut' = cut \cup {d}
    /\ UNCHANGED <<home, aside, announced>>

\* ... and, having lost the last, its name.
Finish(r, p, d, k) ==
    /\ aside[d] = {<<p, r, k>>} /\ d \in cut
    /\ aside' = [aside EXCEPT ![d] = {}]
    /\ cut' = cut \ {d}
    /\ announced' = [announced EXCEPT ![r] = {}]
    /\ UNCHANGED home

GiveUp(r) ==
    /\ announced' = [announced EXCEPT ![r] = {}]
    /\ UNCHANGED <<home, aside, cut>>

\* The owner makes, discards and takes back directories.
Make(p, d) ==
    /\ Nowhere(d) /\ FreePath(p)
    /\ home' = [home EXCEPT ![d] = {p}]
    /\ UNCHANGED <<aside, cut, announced>>

Discard(d) ==
    /\ ~Nowhere(d)
    /\ home' = [home EXCEPT ![d] = {}]
    /\ aside' = [aside EXCEPT ![d] = {}]
    /\ cut' = cut \ {d}
    /\ UNCHANGED announced

Restore(d, n) ==
    /\ FreePath(n[1])
    /\ home' = [home EXCEPT ![d] = {n[1]}]
    /\ aside' = [aside EXCEPT ![d] = {}]
    /\ UNCHANGED <<cut, announced>>

Removal(r) ==
    \/ \E p \in Paths, d \in Dirs : Announce(r, p, d)
    \/ \E a \in announced[r], k \in Tries :
         \/ \E d \in Dirs : SetAside(r, a[1], d, k)
         \/ Cut(r, a[1], a[2], k)
         \/ Finish(r, a[1], a[2], k)
    \/ GiveUp(r)

Owner ==
    \E d \in Dirs :
      \/ \E p \in Paths : Make(p, d)
      \/ Discard(d)
      \/ \E n \in aside[d] : Restore(d, n)

Next == (\E r \in Procs : Removal(r)) \/ Owner

Spec == Init /\ [][Next]_vars
============================================================================
