--------------------------- MODULE MCConfigStore ---------------------------
(* A small instance of ConfigStore and ConfigMeaning, and the documents on   *)
(* which Configuration is checked.                                           *)
EXTENDS ConfigMeaning, TLC

CONSTANTS
    empty, legacy,  \* a file that sets nothing, one of the legacy schema
    tidy0, tidy1,   \* what to_toml gives for them
    bad,            \* a file that is refused
    default, custom \* what they mean

MCNames == {"home", "etc", ".ssh", "other", "here", "relative"}
Raw(head, rest) == [head |-> head, rest |-> rest]
LegacyText ==
    [Blank EXCEPT !.version = "1", !.tables = TRUE, !.js = 24, !.go = 36,
                  !.off = {"node"},
                  !.protected = {Raw("/", <<"etc">>), Raw("~/", <<".ssh">>)}]

MCDocuments ==
    (empty :> Blank) @@ (legacy :> LegacyText)
    @@ (tidy0 :> ToTomlText(DefaultForHome(TRUE)))
    @@ (tidy1 :> ToTomlText(ParseConfigText(LegacyText, TRUE)))
    @@ (bad :> [Blank EXCEPT !.version = "1", !.schema = "1"])

Meanings == (empty :> default) @@ (legacy :> custom) @@ (tidy0 :> default)
            @@ (tidy1 :> custom) @@ (bad :> None)
Printed == (default :> tidy0) @@ (custom :> tidy1)

MCMeant == (default :> DefaultForHome(TRUE)) @@ (custom :> ParseConfigText(LegacyText, TRUE))

\* One path written in three ways, another in two, and two that are refused.
MCPaths ==
    {Raw("/", <<"etc">>), Raw("~/", <<".ssh">>), Raw("/", <<"home", ".ssh">>),
     Raw("~//", <<"etc">>), Raw("~//", <<"home", ".ssh">>), Raw("/", <<"other">>),
     Raw("~", <<"other">>), Raw("", <<"here">>)}

MCLegacy ==
    {[Blank EXCEPT !.version = "1", !.tables = TRUE, !.js = js, !.go = go, !.rust = rust,
                   !.build = build, !.node = node, !.interval = i, !.off = off] :
       js \in {None, 0, 24}, go \in {None, 12, 36}, rust \in {None, 48},
       build \in {None, 0, 72}, node \in {None, 720}, i \in {None, 5, 45},
       off \in {{}, {"js", "node"}}}
    \cup {[Blank EXCEPT !.version = "1", !.tables = TRUE, !.go = 36, !.protected = paths] :
            paths \in SUBSET MCPaths}

Tables ==
    [enabled : {None, FALSE}, roots : {{}, {"home"}, {"relative"}, {"home", "etc"}},
     protected : SUBSET {<<"etc">>, <<"relative">>, <<"home", "other">>},
     cache : {None, 0, 24}, build : {None, 72}, node : {None},
     critical : {None, 0, 6}, actions : {None, 0, 100, 101}]

SomeTables ==
    {None} \cup {t \in Tables : /\ t.enabled = None /\ t.build = None /\ t.actions = None
                                /\ t.protected = {<<"etc">>} /\ t.cache # 0}

MCOthers ==
    {[Blank EXCEPT !.version = v, !.schema = s, !.tables = t, !.retired = r, !.typed = ok,
                   !.disk = d, !.cleanup = c] :
       v \in {"none", "1", "2"}, s \in {"none", "1", "2"}, t \in BOOLEAN,
       r \in {"none", "valid", "invalid"}, ok \in BOOLEAN, d \in {None, "contradictory"},
       c \in SomeTables}
    \cup {[Blank EXCEPT !.schema = "1", !.cleanup = c] : c \in Tables}

\* Processes are interchangeable.
Interchangeable == Permutations(Procs)
============================================================================
