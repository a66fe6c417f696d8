---------------------------- MODULE MCPlanning ----------------------------
(* A small instance of Planning: a home directory with a repository in a    *)
(* repository, one in a quarantine, one behind a broken .git and one that    *)
(* lies too deep, with walks of depth two.                                  *)
EXTENDS Planning

H == <<"home">>
O == <<"home", "outer">>
I == O \o <<"inner">>
P == I \o <<"part">>
E == O \o <<"extra">>
D == I \o <<"deep">>
Q == H \o <<Trash, "repo">>
B == H \o <<"broken">>
Npm == H \o <<".npm">>

\* In the order of paths.
Sorted ==
    << H, Npm, H \o <<Trash>>, Q, Q \o <<".turbo">>, B, B \o <<".turbo">>,
       O, O \o <<".turbo">>, E, E \o <<"target">>,
       I, D, D \o <<".turbo">>, I \o <<"node_modules">>, P, P \o <<"target">>,
       I \o <<"target">>, O \o <<"node_modules">>, O \o <<"target">> >>

MCOrder == [p \in ToSet(Sorted) |-> CHOOSE i \in DOMAIN Sorted : Sorted[i] = p]

Files(p) ==
    CASE p = O -> {"package.json", "lock", "Cargo.toml"}
      [] p = I -> {"package.json", "Cargo.toml"}
      [] p = P -> {"Cargo.toml"}
      [] p = E -> {"Cargo.toml"}
      [] OTHER -> {}

Ignores(r) == {p \in ToSet(Sorted) : IsPrefix(r, p) /\ Last(p) \in RepoCaches \cup Artifacts}
Git(r, tracked) == [marker |-> r # B, tracked |-> tracked, ignored |-> Ignores(r)]

Layout(paths, roots, tracked, loose) ==
    [dirs |-> paths, roots |-> roots, files |-> [p \in paths |-> Files(p)],
     git |-> [r \in {O, I, D, Q, B} \cap paths |->
               Git(r, IF r = I THEN tracked ELSE {})],
     loose |-> loose]

\* One root; two of them, one in the other, and no third project of O, so
\* that what it holds is found from either repository.
MCLayouts ==
    {Layout(ToSet(Sorted), {H}, {}, {B}),
     Layout({p \in ToSet(Sorted) : ~IsPrefix(E, p)}, {H, O}, {I \o <<"node_modules">>}, {})}

MCGlobalCaches == {Npm}
MCProtected == {O \o <<"target">>}
MCAge == [k \in Kinds |-> IF k = "NodeModules" THEN 2 ELSE 1]
MCBusy == {O \o <<".turbo">>, I \o <<"target">>, I \o <<"node_modules">>}
MCMovable == {H, O, E, I, I \o <<"target">>}
============================================================================
