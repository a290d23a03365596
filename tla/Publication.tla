----------------------------- MODULE Publication -----------------------------
(***************************************************************************)
(* Directory publication (src/server/build/publication.js): an artifact is *)
(* built in a staging directory beside its published directory, checked,   *)
(* and only then replaces it, by two renames.  A builder first repairs     *)
(* what interrupted cycles left.                                           *)
(*                                                                         *)
(* The directories of one root: a published directory for each version,    *)
(* and a staging and a backup directory for each builder (their names      *)
(* carry its pid and the time).  A rename moves a directory at once; a     *)
(* removal, like a build, may stop half way.  The caller keeps builders of *)
(* one root apart.                                                         *)
(***************************************************************************)
EXTENDS Naturals

CONSTANTS
    Builder,     \* publication cycles, one per builder
    Version,     \* the published directories of the root
    VersionOf    \* VersionOf[p]: the target of builder p

\* What a path holds: nothing, part of a directory, or a whole directory, by
\* the builder that wrote it.
Content == {"none", "part", "first"} \cup Builder
Whole(c) == c \notin {"none", "part"}

VARIABLES
    cycle,     \* cycle[p]: where builder p is
    site,      \* site[v]: the published directory of version v
    staging,   \* staging[p]
    backup,    \* backup[p]
    latest     \* history: the version published last, and by whom

pubVars == <<cycle, site, staging, backup, latest>>

Cycles == {"off", "recover", "build", "backup", "place", "undo", "drop",
           "published", "clean", "done"}

\* What was published last; `Nothing` when nothing was.
Publications == [version : Version, by : Content]
Nothing == [version |-> "none", by |-> "none"]

\* Nothing was published yet, or one version.
PubInit ==
    /\ cycle = [p \in Builder |-> "off"]
    /\ latest \in {Nothing} \cup [version : Version, by : {"first"}]
    /\ site = [v \in Version |-> IF v = latest.version THEN "first" ELSE "none"]
    /\ staging = [p \in Builder |-> "none"]
    /\ backup = [p \in Builder |-> "none"]

Goes(p, to) == cycle' = [cycle EXCEPT ![p] = to]

BeginRecovery(p) ==
    /\ cycle[p] = "off"
    /\ Goes(p, "recover")
    /\ UNCHANGED <<site, staging, backup, latest>>

\* recoverPublication: a backup comes back when its target is missing.
Restore(p, q) ==
    /\ cycle[p] = "recover"
    /\ backup[q] # "none"
    /\ site[VersionOf[q]] = "none"
    /\ site' = [site EXCEPT ![VersionOf[q]] = backup[q]]
    /\ backup' = [backup EXCEPT ![q] = "none"]
    /\ UNCHANGED <<cycle, staging, latest>>

\* Mutant of Obsolete: a backup goes, wherever its target is.
ObsoleteAlways(q) == backup[q] # "none"

Obsolete(q) == backup[q] # "none" /\ site[VersionOf[q]] # "none"

\* ... and goes otherwise; so does every staging directory.
DropLeftover(p, q) ==
    /\ cycle[p] = "recover"
    /\ \/ /\ Obsolete(q)
          /\ \E left \in {"none", "part"} : backup' = [backup EXCEPT ![q] = left]
          /\ UNCHANGED staging
       \/ /\ staging[q] # "none"
          /\ \E left \in {"none", "part"} : staging' = [staging EXCEPT ![q] = left]
          /\ UNCHANGED backup
    /\ UNCHANGED <<cycle, site, latest>>

\* Mutant of Recovered: only staging directories are leftovers.
RecoveredStaging(p, writing) ==
    /\ cycle[p] = "recover"
    /\ \A q \in Builder : staging[q] = "none" \/ q \in writing
    /\ Goes(p, "build")
    /\ UNCHANGED <<site, staging, backup, latest>>

\* Every leftover was seen to; a build in `writing` may make its directory again.
Recovered(p, writing) ==
    /\ cycle[p] = "recover"
    /\ \A q \in Builder : backup[q] = "none" /\ (staging[q] = "none" \/ q \in writing)
    /\ Goes(p, "build")
    /\ UNCHANGED <<site, staging, backup, latest>>

\* The build writes into the staging directory; a whole one passes its check.
Write(p) ==
    /\ staging[p] # p
    /\ \E c \in {"part", p} : staging' = [staging EXCEPT ![p] = c]
    /\ UNCHANGED <<cycle, site, backup, latest>>

\* The build ended: what it wrote is published, or not.
Built(p, accepted) ==
    /\ cycle[p] = "build"
    /\ Goes(p, IF accepted THEN "backup" ELSE "clean")
    /\ UNCHANGED <<site, staging, backup, latest>>

\* publishDirectory: the published directory moves to the backup.
Backup(p) ==
    /\ cycle[p] = "backup"
    /\ backup' = [backup EXCEPT ![p] = site[VersionOf[p]]]
    /\ site' = [site EXCEPT ![VersionOf[p]] = "none"]
    /\ Goes(p, "place")
    /\ UNCHANGED <<staging, latest>>

Place(p) ==
    /\ cycle[p] = "place"
    /\ site' = [site EXCEPT ![VersionOf[p]] = staging[p]]
    /\ staging' = [staging EXCEPT ![p] = "none"]
    /\ latest' = [version |-> VersionOf[p], by |-> staging[p]]
    /\ Goes(p, "drop")
    /\ UNCHANGED backup

PlaceFails(p) ==
    /\ cycle[p] = "place"
    /\ Goes(p, IF backup[p] = "none" THEN "clean" ELSE "undo")
    /\ UNCHANGED <<site, staging, backup, latest>>

\* The rollback of the first rename.
Undo(p) ==
    /\ cycle[p] = "undo"
    /\ site' = [site EXCEPT ![VersionOf[p]] = backup[p]]
    /\ backup' = [backup EXCEPT ![p] = "none"]
    /\ Goes(p, "clean")
    /\ UNCHANGED <<staging, latest>>

\* The backup of the replaced version goes.
DropBackup(p) ==
    /\ cycle[p] = "drop"
    /\ \/ /\ backup[p] # "none"
          /\ \E left \in {"none", "part"} : backup' = [backup EXCEPT ![p] = left]
          /\ UNCHANGED cycle
       \/ /\ backup[p] = "none"
          /\ Goes(p, "published")
          /\ UNCHANGED backup
    /\ UNCHANGED <<site, staging, latest>>

\* A file operation throws, here or in the recovery; the cycle ends.
Throw(p) ==
    /\ cycle[p] \in {"recover", "backup", "undo", "drop", "published"}
    /\ Goes(p, "clean")
    /\ UNCHANGED <<site, staging, backup, latest>>

\* The `finally`: what is left of the staging directory goes.
Clean(p) ==
    /\ cycle[p] = "clean"
    /\ IF staging[p] = "none"
       THEN Goes(p, "done") /\ UNCHANGED staging
       ELSE /\ \E left \in {"none", "part"} : staging' = [staging EXCEPT ![p] = left]
            /\ UNCHANGED cycle
    /\ UNCHANGED <<site, backup, latest>>
=============================================================================
