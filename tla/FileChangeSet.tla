--------------------------- MODULE FileChangeSet ---------------------------
(***************************************************************************)
(* File change sets (src/server/storage/file-change-set.js).  A run plans  *)
(* its changes against the tree, rolls back what interrupted runs left,    *)
(* stages every new content beside its target, writes a journal, moves     *)
(* each target to a backup and its staged file in its place, verifies the  *)
(* targets, and commits by removing the journal.  A failure rolls the      *)
(* targets back; a process that stops part way leaves its journal.         *)
(*                                                                         *)
(* Every action is one file operation, so that a process may stop between  *)
(* any two of them.  The order of the entries within a loop is left open.  *)
(* Runs follow one another: the calls that make them are synchronous, and   *)
(* two processes that overlap are left out (see the README).               *)
(***************************************************************************)
EXTENDS Naturals

CONSTANTS
    Run,       \* runs of applyChangeSet, each in a process of its own
    Target,    \* target files
    Content,   \* contents
    Absent     \* the content of a file that does not exist

ASSUME FileChangeSetAssumption == Absent \notin Content /\ "nothing" \notin Target

VARIABLES
    state,     \* state[r]: where run r is in applyChangeSet
    wanted,    \* wanted[r]: the change set, a content by target
    pending,   \* pending[r]: the targets whose change is not planned `unchanged`
    created,   \* created[r]: the pending targets that did not exist
    todo,      \* todo[r]: the targets the current loop of r has left
    current,   \* current[r]: the target moved aside whose staged file comes next
    victim,    \* victim[r]: the run whose journal r rolls back
    disk,      \* disk[t]: the content of target t
    stage,     \* stage[r]: the targets run r has a staged file for
    backup,    \* backup[r][t]: the content of the backup of t by run r
    journal    \* journal[r]: the journal file of r: none, torn or whole

vars == <<state, wanted, pending, created, todo, current, victim,
          disk, stage, backup, journal>>

planVars == <<wanted, pending, created>>

Nothing == "nothing"
FileContent == Content \cup {Absent}
Changes == UNION {[D -> Content] : D \in SUBSET Target \ {{}}}
States == {"idle", "recover", "restore", "stage", "journal", "swap", "commit", "clean",
           "rollback", "unchanged", "unrecovered", "applied", "failed", "crashed"}
Ended == {"unchanged", "unrecovered", "applied", "failed", "crashed"}

Active(r) == state[r] \notin {"idle"} \cup Ended

Goto(r, s) == state' = [state EXCEPT ![r] = s]
Loop(r, ts) == todo' = [todo EXCEPT ![r] = ts]

-----------------------------------------------------------------------------
Init ==
    /\ state = [r \in Run |-> "idle"]
    /\ wanted = [r \in Run |-> [t \in {} |-> Absent]]
    /\ pending = [r \in Run |-> {}]
    /\ created = [r \in Run |-> {}]
    /\ todo = [r \in Run |-> {}]
    /\ current = [r \in Run |-> Nothing]
    /\ victim = [r \in Run |-> Nothing]
    /\ disk \in [Target -> FileContent]
    /\ stage = [r \in Run |-> {}]
    /\ backup = [r \in Run |-> [t \in Target |-> Absent]]
    /\ journal = [r \in Run |-> "none"]

\* changeSetPlan: the plan reads the tree as it is, before anything is recovered.
\* No other run is active.
Plan(r) ==
    /\ state[r] = "idle"
    /\ \A q \in Run : ~Active(q)
    /\ \E c \in Changes :
        LET differing == {t \in DOMAIN c : disk[t] # c[t]} IN
        /\ wanted' = [wanted EXCEPT ![r] = c]
        /\ pending' = [pending EXCEPT ![r] = differing]
        /\ Goto(r, IF differing = {} THEN "unchanged" ELSE "recover")
    /\ UNCHANGED <<created, todo, current, victim, disk, stage, backup, journal>>

-----------------------------------------------------------------------------
\* recoverChangeSets takes the journals one by one; a torn one does not parse.
TakeJournal(r) ==
    /\ state[r] = "recover"
    /\ \E v \in Run :
        /\ journal[v] = "whole"
        /\ victim' = [victim EXCEPT ![r] = v]
        /\ Loop(r, pending[v])
    /\ Goto(r, "restore")
    /\ UNCHANGED <<planVars, current, disk, stage, backup, journal>>

TornJournal(r) ==
    /\ state[r] = "recover"
    /\ \E v \in Run : journal[v] = "torn"
    /\ Goto(r, "unrecovered")
    /\ UNCHANGED <<planVars, todo, current, victim, disk, stage, backup, journal>>

\* rollback of one entry of run v: the staged file goes first, then the backup
\* comes back, or a created file is removed.
RollbackStage(r, v) ==
    /\ \E t \in todo[r] \cap stage[v] : stage' = [stage EXCEPT ![v] = @ \ {t}]
    /\ UNCHANGED <<state, planVars, todo, current, victim, disk, backup, journal>>

\* Mutant of Restored: a file the set created stays in place.
RestoredWithoutCreated(v, t) ==
    IF backup[v][t] # Absent THEN backup[v][t] ELSE disk[t]

Restored(v, t) ==
    IF backup[v][t] # Absent THEN backup[v][t]
    ELSE IF t \in created[v] THEN Absent ELSE disk[t]

RollbackTarget(r, v) ==
    /\ \E t \in todo[r] \ stage[v] :
        /\ disk' = [disk EXCEPT ![t] = Restored(v, t)]
        /\ backup' = [backup EXCEPT ![v][t] = Absent]
        /\ Loop(r, todo[r] \ {t})
    /\ UNCHANGED <<state, planVars, current, victim, stage, journal>>

RestoreEntry(r) ==
    /\ state[r] = "restore"
    /\ RollbackStage(r, victim[r]) \/ RollbackTarget(r, victim[r])

DropJournal(r) ==
    /\ state[r] = "restore"
    /\ todo[r] = {}
    /\ journal' = [journal EXCEPT ![victim[r]] = "none"]
    /\ victim' = [victim EXCEPT ![r] = Nothing]
    /\ Goto(r, "recover")
    /\ UNCHANGED <<planVars, todo, current, disk, stage, backup>>

-----------------------------------------------------------------------------
\* No journal is left: the entries note which targets exist now.
Prepare(r) ==
    /\ state[r] = "recover"
    /\ \A v \in Run : journal[v] = "none"
    /\ created' = [created EXCEPT ![r] = {t \in pending[r] : disk[t] = Absent}]
    /\ Loop(r, pending[r])
    /\ Goto(r, "stage")
    /\ UNCHANGED <<wanted, pending, current, victim, disk, stage, backup, journal>>

Stage(r) ==
    /\ state[r] = "stage"
    /\ \E t \in todo[r] :
        /\ stage' = [stage EXCEPT ![r] = @ \cup {t}]
        /\ Loop(r, todo[r] \ {t})
    /\ UNCHANGED <<state, planVars, current, victim, disk, backup, journal>>

\* outputJsonSync creates the journal file, then fills it.
OpenJournal(r) ==
    /\ state[r] = "stage"
    /\ todo[r] = {}
    /\ journal' = [journal EXCEPT ![r] = "torn"]
    /\ Goto(r, "journal")
    /\ UNCHANGED <<planVars, todo, current, victim, disk, stage, backup>>

FillJournal(r) ==
    /\ state[r] = "journal"
    /\ journal' = [journal EXCEPT ![r] = "whole"]
    /\ Loop(r, pending[r])
    /\ Goto(r, "swap")
    /\ UNCHANGED <<planVars, current, victim, disk, stage, backup>>

MoveAside(r) ==
    /\ state[r] = "swap"
    /\ current[r] = Nothing
    /\ \E t \in todo[r] \ created[r] :
        /\ disk[t] # Absent
        /\ backup' = [backup EXCEPT ![r][t] = disk[t]]
        /\ disk' = [disk EXCEPT ![t] = Absent]
        /\ current' = [current EXCEPT ![r] = t]
    /\ UNCHANGED <<state, planVars, todo, victim, stage, journal>>

Place(r) ==
    /\ state[r] = "swap"
    /\ \E t \in todo[r] \cap stage[r] :
        /\ current[r] = t \/ (current[r] = Nothing /\ t \in created[r])
        /\ disk' = [disk EXCEPT ![t] = wanted[r][t]]
        /\ stage' = [stage EXCEPT ![r] = @ \ {t}]
        /\ Loop(r, todo[r] \ {t})
    /\ current' = [current EXCEPT ![r] = Nothing]
    /\ UNCHANGED <<state, planVars, victim, backup, journal>>

Landed(r) == \A t \in pending[r] : disk[t] = wanted[r][t]

Verify(r) ==
    /\ state[r] = "swap"
    /\ todo[r] = {}
    /\ Landed(r)
    /\ Goto(r, "commit")
    /\ UNCHANGED <<planVars, todo, current, victim, disk, stage, backup, journal>>

\* A write or a rename fails, or the verification does: the catch rolls back.
Fail(r) ==
    /\ state[r] \in {"stage", "journal", "swap"}
    /\ state[r] = "swap" /\ todo[r] = {} => ~Landed(r)
    /\ Goto(r, "rollback")
    /\ Loop(r, pending[r])
    /\ current' = [current EXCEPT ![r] = Nothing]
    /\ UNCHANGED <<planVars, victim, disk, stage, backup, journal>>

RollbackEntry(r) ==
    /\ state[r] = "rollback"
    /\ RollbackStage(r, r) \/ RollbackTarget(r, r)

\* Mutant of Throw: the error is thrown on with the journal still there.
ThrowKeepsJournal(r) ==
    /\ state[r] = "rollback"
    /\ todo[r] = {}
    /\ Goto(r, "failed")
    /\ UNCHANGED <<planVars, todo, current, victim, disk, stage, backup, journal>>

\* The journal goes and the error is thrown on.
Throw(r) ==
    /\ state[r] = "rollback"
    /\ todo[r] = {}
    /\ journal' = [journal EXCEPT ![r] = "none"]
    /\ Goto(r, "failed")
    /\ UNCHANGED <<planVars, todo, current, victim, disk, stage, backup>>

\* The journal removal is the commit point.
Commit(r) ==
    /\ state[r] = "commit"
    /\ journal' = [journal EXCEPT ![r] = "none"]
    /\ Loop(r, pending[r])
    /\ Goto(r, "clean")
    /\ UNCHANGED <<planVars, current, victim, disk, stage, backup>>

Clean(r) ==
    /\ state[r] = "clean"
    /\ \E t \in todo[r] :
        /\ backup' = [backup EXCEPT ![r][t] = Absent]
        /\ Loop(r, todo[r] \ {t})
    /\ UNCHANGED <<state, planVars, current, victim, disk, stage, journal>>

Return(r) ==
    /\ state[r] = "clean"
    /\ todo[r] = {}
    /\ Goto(r, "applied")
    /\ UNCHANGED <<planVars, todo, current, victim, disk, stage, backup, journal>>

\* The process stops between two file operations, and its memory is lost; or an
\* operation outside the try throws (recovery, rollback, the removals after it),
\* which leaves the same files.  Past the commit point the set has landed and its
\* backups are orphans.
Crash(r) ==
    /\ Active(r)
    /\ Goto(r, IF state[r] = "clean" THEN "applied" ELSE "crashed")
    /\ Loop(r, {})
    /\ current' = [current EXCEPT ![r] = Nothing]
    /\ victim' = [victim EXCEPT ![r] = Nothing]
    /\ UNCHANGED <<planVars, disk, stage, backup, journal>>

-----------------------------------------------------------------------------
Next ==
    \E r \in Run :
        \/ Plan(r)
        \/ TakeJournal(r) \/ TornJournal(r) \/ RestoreEntry(r) \/ DropJournal(r)
        \/ Prepare(r) \/ Stage(r) \/ OpenJournal(r) \/ FillJournal(r)
        \/ MoveAside(r) \/ Place(r) \/ Verify(r) \/ Commit(r) \/ Clean(r) \/ Return(r)
        \/ Fail(r) \/ RollbackEntry(r) \/ Throw(r)
        \/ Crash(r)

Spec == Init /\ [][Next]_vars

-----------------------------------------------------------------------------
(* Properties *)

\* Every variable has its type, and a target is aside only while its entry of the
\* swap loop has not ended.
TypeOK ==
    /\ state \in [Run -> States]
    /\ wanted \in [Run -> Changes \cup {[t \in {} |-> Absent]}]
    /\ pending \in [Run -> SUBSET Target]
    /\ created \in [Run -> SUBSET Target]
    /\ todo \in [Run -> SUBSET Target]
    /\ current \in [Run -> Target \cup {Nothing}]
    /\ victim \in [Run -> Run \cup {Nothing}]
    /\ disk \in [Target -> FileContent]
    /\ stage \in [Run -> SUBSET Target]
    /\ backup \in [Run -> [Target -> FileContent]]
    /\ journal \in [Run -> {"none", "torn", "whole"}]
    /\ \A r \in Run : current[r] # Nothing => current[r] \in todo[r]

\* The tree the journals stand for: what is on disk once every whole journal
\* has been rolled back.
Tree ==
    [t \in Target |->
        IF \E r \in Run : journal[r] = "whole" /\ t \in pending[r]
        THEN Restored(CHOOSE r \in Run : journal[r] = "whole" /\ t \in pending[r], t)
        ELSE disk[t]]

Outcome ==
    [r \in Run |->
        CASE state[r] = "idle" -> "idle"
          [] state[r] \in {"clean", "applied"} -> "landed"
          [] state[r] \in Ended \ {"applied"} -> "dropped"
          [] OTHER -> "open"]

Planned == [r \in Run |-> [t \in pending[r] |-> wanted[r][t]]]

PlannedWrite == INSTANCE AtomicWrite WITH tree <- Tree, group <- Planned, outcome <- Outcome

WholeWrite == INSTANCE AtomicWrite WITH tree <- Tree, group <- wanted, outcome <- Outcome

\* What a run planned to write lands whole or not at all, whatever stops it and
\* wherever, and nothing else changes the tree (applyChangeSet, rollback,
\* recoverChangeSets): the module implements AtomicWrite.
PlannedLandsWhole == PlannedWrite!Spec

\* A change set lands whole or not at all: every change of a run that is applied
\* is in the tree, those it planned `unchanged` included.
ChangeSetLandsWhole == WholeWrite!Spec

\* A run that throws leaves every target in its previous state, and leaves no
\* journal that would roll anything back later.
FailureRestores ==
    [][\A r \in Run : state[r] # "failed" /\ state'[r] = "failed" =>
        disk' = Tree /\ \A q \in Run : journal'[q] = "none"]_vars
=============================================================================
