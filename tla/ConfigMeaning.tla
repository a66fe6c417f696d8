--------------------------- MODULE ConfigMeaning ---------------------------
(***************************************************************************)
(* ConfigStore with the texts of its files and their meanings taken from   *)
(* Configuration: the two together are src/config.rs.                      *)
(***************************************************************************)
EXTENDS ConfigStore

CONSTANTS
    Names,      \* of directories
    MaxRoots, MaxProtected,  \* limits of a configuration
    Documents,  \* what each text sets
    Meant,      \* the settings of each configuration
    Legacy,     \* documents of the legacy schema
    Others      \* documents of the current one, and some of neither

INSTANCE Configuration

ASSUME DocumentAssumption ==
    /\ {"home", "etc", ".ssh"} \subseteq Names
    /\ None \notin Nat \cup BOOLEAN \cup Cleanup
    /\ Documents \in [Texts -> Document]
    /\ Legacy \cup Others \subseteq Document

\* The tables of ConfigStore are what Configuration makes of the documents.
ASSUME MeaningAssumption ==
    /\ \A t \in Texts : ParseConfigText(Documents[t], TRUE) =
                          IF Parse[t] = None THEN None ELSE Meant[Parse[t]]
    /\ \A c \in Configs : Documents[ToToml[c]] = ToTomlText(Meant[c])

DocumentsKept ==
    /\ AgesKept(Legacy) /\ ProtectionKept(Legacy)
    /\ NormalizeIsStable(Legacy \cup Others)
StableTexts == {t \in Texts : NormalizeIsStable({Documents[t]})}

\* The meaning of a configuration survives what is done to its text: after
\* migrate_legacy_config the same paths are protected and every kind keeps the
\* age that the legacy file asks for it, or a day when space is wanted; and what
\* normalize writes for any accepted file, and so for those the store comes to
\* hold, is read back the same by parse_config_text.
MeaningIsKept ==
    /\ DocumentsKept
    /\ \A f \in Files : file[f] \in StableTexts \cup {None}
============================================================================
