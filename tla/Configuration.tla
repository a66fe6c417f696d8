--------------------------- MODULE Configuration ---------------------------
(***************************************************************************)
(* What a configuration file means (src/config.rs parse_config_text): the  *)
(* current schema with its defaults and retired tables, the legacy schema  *)
(* and its migration, and the validation both end with.  ConfigStore has   *)
(* the files; here is Parse and ToToml of it.                              *)
(*                                                                         *)
(* A document is the record of what it sets, None where it sets nothing.   *)
(* "home" is whether HOME is an absolute path.  Of the settings those are  *)
(* kept that the two schemas share or that decide about removal.  A list   *)
(* of paths is the set of them: migration makes the paths of a list        *)
(* distinct (one that a file of the current schema repeats counts twice    *)
(* against the limits in the code), and their order matters to nothing.    *)
(***************************************************************************)
EXTENDS Integers, Sequences, FiniteSets, FiniteSetsExt

CONSTANTS
    None,
    Names,        \* of directories, and the way to the home directory as "home"
    MaxRoots,     \* scan roots a file may name, 32
    MaxProtected  \* paths it may protect, 256

Hours == Nat \cup {None}
Switch == BOOLEAN \cup {None}

\* A path that is protected, as it is written: what it begins with, and the rest.
RawPath == [head : {"~/", "~//", "/", "~", ""}, rest : Seq(Names)]

\* The categories of the legacy schema.
Categories == {"js", "go", "rust", "build", "node"}

\* A [cleanup] of the current schema.
Cleanup ==
    [enabled : Switch, roots : SUBSET Names, protected : SUBSET Seq(Names),
     cache : Hours, build : Hours, node : Hours, critical : Hours, actions : Hours]

\* What a file may set, in either schema; "off" are the categories that a legacy
\* file switches off with enabled = false, which is not a field of LegacyCategory.
Document ==
    [version : STRING, schema : STRING, tables : BOOLEAN, typed : BOOLEAN,
     strange : BOOLEAN, retired : STRING,
     protected : {paths \in SUBSET RawPath : IsFiniteSet(paths)},
     disk : STRING \cup {None}, js : Hours, go : Hours, rust : Hours,
     build : Hours, node : Hours, off : SUBSET Categories, interval : Hours, maintenance : Hours,
     cleanup : Cleanup \cup {None}]

Given(value, otherwise) == IF value = None THEN otherwise ELSE value

----------------------------------------------------------------------------
(* Configurations.                                                         *)

\* GuardConfig::default_for_home; the protected paths stand for all ten.
DefaultForHome(home) ==
    [schema |-> "1", disk |-> "valid", enabled |-> TRUE,
     roots |-> IF home THEN {"home"} ELSE {},
     protected |-> IF home THEN {<<"etc">>, <<"home", ".ssh">>} ELSE {},
     cache |-> 168, build |-> 168, node |-> 720, critical |-> 24, actions |-> 20,
     interval |-> 30, maintenance |-> 21600]

\* validate of CleanupConfig, of MonitorConfig, and of GuardConfig with both.
ValidCleanup(c) ==
    /\ c.roots # {} /\ Cardinality(c.roots) <= MaxRoots
    /\ Cardinality(c.protected) <= MaxProtected
    /\ "relative" \notin c.roots
    /\ \A p \in c.protected : p # <<"relative">>
    /\ c.cache > 0 /\ c.build > 0 /\ c.node > 0 /\ c.critical > 0
    /\ c.actions \in 1 .. 100

ValidMonitor(c) == c.interval \in 10 .. 300 /\ c.maintenance \in 900 .. 604800

Valid(c) == c.schema = "1" /\ c.disk = "valid" /\ ValidCleanup(c) /\ ValidMonitor(c)

----------------------------------------------------------------------------
(* The legacy schema.                                                      *)

\* is_legacy_document: "legacy", "current" or "refused".
Kind(doc) ==
    IF doc.schema # "none" /\ doc.version # "none" THEN "refused"
    ELSE IF doc.version = "none" \/ ~doc.tables THEN "current"
    ELSE IF doc.version = "1" THEN "legacy" ELSE "refused"

\* migrate_legacy_protected_path, None where it is refused.  What follows "~/" is
\* joined to the home directory, in whose place it comes if it begins with "/".
Expand(raw, home) ==
    IF raw.head = "/" \/ (raw.head = "~//" /\ home) THEN raw.rest
    ELSE IF raw.head = "~/" /\ home THEN <<"home">> \o raw.rest
    ELSE None

\* Mutant of CacheAge: of the three ages the shortest is carried over.
ShortestAge(doc) ==
    LET ages == {doc.js, doc.go, doc.rust} \ {None}
    IN  IF ages = {} THEN None ELSE Min(ages)

\* One age for all caches: the longest of the three kinds the file names.
CacheAge(doc) ==
    LET ages == {doc.js, doc.go, doc.rust} \ {None}
    IN  IF ages = {} THEN None ELSE Max(ages)

\* The paths of the file, each once however it is written, and no others: the
\* default ones are not added.
Expanded(doc, home) == {Expand(raw, home) : raw \in doc.protected}

\* migrate_legacy_config: scan roots, disk, everything retired and the switches
\* of the categories are not carried over.
MigrateLegacyConfig(doc, home) ==
    LET base == DefaultForHome(home)
    IN  IF ~doc.typed \/ None \in Expanded(doc, home) THEN None
        ELSE [schema |-> base.schema, disk |-> base.disk,
              enabled |-> base.enabled, roots |-> base.roots,
              protected |-> Expanded(doc, home),
              cache |-> Given(CacheAge(doc), base.cache),
              build |-> Given(doc.build, base.build),
              node |-> Given(doc.node, base.node),
              critical |-> base.critical, actions |-> base.actions,
              interval |-> Given(doc.interval, base.interval),
              maintenance |-> Given(doc.maintenance, base.maintenance)]

----------------------------------------------------------------------------
(* The current schema.                                                     *)

\* The retired tables are validated and dropped, no other field is unknown.
Strict(doc) ==
    /\ doc.typed /\ doc.retired # "invalid" /\ ~doc.strange
    /\ doc.version = "none" /\ ~doc.tables /\ doc.protected = {}

\* A [cleanup] with serde's defaults for what it does not set: those of
\* CleanupConfig, without the home directory and without protected paths.
Completed(table, base) ==
    [table EXCEPT
       !.enabled = Given(@, base.enabled), !.cache = Given(@, base.cache),
       !.build = Given(@, base.build), !.node = Given(@, base.node),
       !.critical = Given(@, base.critical), !.actions = Given(@, base.actions)]

\* Serde's defaults: those of the whole configuration if there is no [cleanup],
\* with the home directory and the protected paths.
Current(doc, home) ==
    LET base == DefaultForHome(home)
        cleanup == IF doc.cleanup = None THEN base ELSE Completed(doc.cleanup, base)
    IN  IF ~Strict(doc) THEN None
        ELSE [schema |-> IF doc.schema = "none" THEN "1" ELSE doc.schema,
              disk |-> Given(doc.disk, base.disk),
              enabled |-> cleanup.enabled, roots |-> cleanup.roots,
              protected |-> cleanup.protected, cache |-> cleanup.cache,
              build |-> cleanup.build, node |-> cleanup.node,
              critical |-> cleanup.critical, actions |-> cleanup.actions,
              interval |-> Given(doc.interval, base.interval),
              maintenance |-> Given(doc.maintenance, base.maintenance)]

Accept(c) == c # None /\ Valid(c)

\* None if the document is refused.
ParseConfigText(doc, home) ==
    LET c == IF Kind(doc) = "legacy" THEN MigrateLegacyConfig(doc, home)
             ELSE IF Kind(doc) = "current" THEN Current(doc, home)
             ELSE None
    IN  IF Accept(c) THEN c ELSE None

\* A document that sets nothing.
Blank ==
    [version |-> "none", schema |-> "none", tables |-> FALSE, typed |-> TRUE,
     strange |-> FALSE, retired |-> "none", protected |-> {}, disk |-> None,
     js |-> None, go |-> None, rust |-> None, build |-> None, node |-> None, off |-> {},
     interval |-> None, maintenance |-> None, cleanup |-> None]

\* to_toml: the current schema, everything set.
ToTomlText(c) ==
    [Blank EXCEPT
       !.schema = c.schema, !.disk = c.disk, !.interval = c.interval,
       !.maintenance = c.maintenance,
       !.cleanup = [enabled |-> c.enabled, roots |-> c.roots, protected |-> c.protected,
                    cache |-> c.cache, build |-> c.build, node |-> c.node,
                    critical |-> c.critical, actions |-> c.actions]]

----------------------------------------------------------------------------
(* Properties, of every document of a set and whether there is a HOME.     *)

\* age_for: when space is wanted, less age is enough.
AgeFor(c, compress, normal) ==
    IF compress /\ c.critical < normal THEN c.critical ELSE normal

\* Whatever a file of either schema is about, nothing becomes removable before the
\* age that a legacy file asks for its kind, unless space is wanted: then the
\* day is enough that the current schema has as its default, although a legacy
\* file has no such setting.  Three kinds of caches share one age.  (That the
\* home directory is scanned and that a category that was switched off is
\* cleaned is not excluded: migration does both.)
AgesKept(docs) ==
    \A doc \in docs, home \in BOOLEAN, compress \in BOOLEAN :
      LET c == ParseConfigText(doc, home)
          Keeps(normal, age) ==
            age # None => \/ AgeFor(c, compress, normal) >= age
                          \/ compress /\ AgeFor(c, compress, normal) >= 24
      IN  Kind(doc) = "legacy" /\ c # None =>
            /\ Keeps(c.cache, doc.js) /\ Keeps(c.cache, doc.go) /\ Keeps(c.cache, doc.rust)
            /\ Keeps(c.build, doc.build) /\ Keeps(c.node, doc.node)

\* What a protected path of a legacy file means to who wrote it; "~//" is a slip
\* that the program takes for a path from the root.
Means(raw, path) ==
    \/ raw.head \in {"/", "~//"} /\ path = raw.rest
    \/ raw.head = "~/" /\ path = <<"home">> \o raw.rest

\* The paths that a legacy file protects are those that are protected after its
\* migration, the same ones and no others, in whatever way each is written;
\* one that cannot be understood makes the file refused, never a path less.
ProtectionKept(docs) ==
    \A doc \in docs, home \in BOOLEAN :
      LET c == ParseConfigText(doc, home)
      IN  Kind(doc) = "legacy" /\ c # None =>
            /\ \A raw \in doc.protected : \E path \in c.protected : Means(raw, path)
            /\ \A path \in c.protected : \E raw \in doc.protected : Means(raw, path)

\* What normalize writes for any file it accepts, it accepts again, with the
\* same meaning: no file is replaced with one that only the copy can mend.
NormalizeIsStable(docs) ==
    \A doc \in docs, home \in BOOLEAN :
      LET c == ParseConfigText(doc, home)
      IN  c # None => ParseConfigText(ToTomlText(c), home) = c
============================================================================
