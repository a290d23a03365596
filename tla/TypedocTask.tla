----------------------------- MODULE TypedocTask -----------------------------
(***************************************************************************)
(* The documentation build (runTypedoc, src/client-builder/                *)
(* client-build-docs.js) in `build` mode: a builder takes two host locks,  *)
(* repairs what earlier builds left of the site, runs TypeDoc as a managed *)
(* process into a staging directory, publishes that directory when TypeDoc *)
(* completed, and releases the locks.                                      *)
(*                                                                         *)
(* Composes HostLock, ManagedProcess and Publication: a process of the     *)
(* host is one builder with one managed process and two handles, that of   *)
(* the lock of its target, one for each version, and that of the lock of   *)
(* the `heavy` profile, which every TypeDoc of the host takes and which    *)
(* has one slot.  The records of all of them share one directory.          *)
(***************************************************************************)
EXTENDS HostLock

CONSTANTS
    TargetOf,    \* TargetOf[p]: the handle by which process p holds the lock of its target
    HeavyOf,     \* HeavyOf[p]: its handle of the lock of the profile
    Version,     \* the versions of the site
    VersionOf,   \* VersionOf[p]: the version process p documents
    TargetLock,  \* TargetLock[v]: the name of the lock of version v
    HeavyLock    \* the name of the lock of the profile

ASSUME TypedocAssumption ==
    /\ VersionOf \in [Process -> Version]
    /\ {"part", "first"} \cap Process = {}
    /\ "none" \notin Process
    /\ "none" \notin Version
    /\ TargetOf \in [Process -> Handle]
    /\ HeavyOf \in [Process -> Handle]
    /\ \A p \in Process :
        /\ TargetOf[p] # HeavyOf[p]
        /\ {q \in Handle : ProcessOf[q] = p} = {TargetOf[p], HeavyOf[p]}
    /\ TargetLock \in [Version -> Name \ {HeavyLock}]
    /\ HeavyLock \in Name
    /\ SlotCount[HeavyLock] = 1

VARIABLES
    promise, group, exit, marks, escalation,   \* of ManagedProcess
    cycle, site, staging, backup, latest       \* of Publication

Task == INSTANCE ManagedProcess WITH Runner <- Process
Pub == INSTANCE Publication WITH Builder <- Process

taskVars == <<promise, group, exit, marks, escalation>>
pubVars == <<cycle, site, staging, backup, latest>>
docVars == <<state, slot, socket, records, seen, written, workload,
             promise, group, exit, marks, escalation,
             cycle, site, staging, backup, latest>>

DocInit == Init /\ Task!TaskInit /\ Pub!PubInit

-----------------------------------------------------------------------------
\* A build starts: each process makes one.
Build(p) ==
    /\ cycle[p] = "off"
    /\ state[HeavyOf[p]] = "idle"
    /\ CallFor(TargetOf[p], TargetLock[VersionOf[p]])
    /\ UNCHANGED <<taskVars, pubVars>>

\* The loop over the locks goes on to the second.
AskHeavy(p) ==
    /\ cycle[p] = "off"
    /\ state[TargetOf[p]] = "holding"
    /\ CallFor(HeavyOf[p], HeavyLock)
    /\ UNCHANGED <<taskVars, pubVars>>

Wait(p) ==
    /\ \E h \in {TargetOf[p], HeavyOf[p]} : Acquire(h) \/ Retry(h)
    /\ UNCHANGED <<taskVars, pubVars>>

\* maxRuntimeMs passed or a signal came; the `finally` releases the first lock
\* when it is the second that was held.
Reject(p) ==
    /\ \/ GiveUp(TargetOf[p]) /\ UNCHANGED cycle
       \/ GiveUp(HeavyOf[p]) /\ Pub!Goes(p, "done")
    /\ UNCHANGED <<taskVars, site, staging, backup, latest>>

\* recoverPublications, once both locks are held.
Repair(p) ==
    /\ state[HeavyOf[p]] = "holding"
    /\ \/ Pub!BeginRecovery(p)
       \/ \E q \in Process : Pub!Restore(p, q) \/ Pub!DropLeftover(p, q)
    /\ UNCHANGED <<vars, taskVars>>

EndRepair(p) ==
    /\ state[HeavyOf[p]] = "holding"
    /\ Pub!Recovered(p, {q \in Process : Task!Lives(q)})
    /\ UNCHANGED <<vars, taskVars>>

\* The host can not give the task its memory now.
NotAdmitted(p) ==
    /\ state[HeavyOf[p]] = "holding"
    /\ promise[p] = "off"
    /\ Pub!Built(p, FALSE)
    /\ UNCHANGED <<vars, taskVars>>

Launch(p) ==
    /\ cycle[p] = "build"
    /\ state[HeavyOf[p]] = "holding"
    /\ \/ Spawn(HeavyOf[p]) /\ Task!StartTask(p)
       \/ Task!StartFails(p) /\ UNCHANGED vars
    /\ UNCHANGED pubVars

\* TASK_START: each lock in turn is told of the process group.
TellLock(p) ==
    /\ \/ Attach(TargetOf[p])
       \/ workload[TargetOf[p]] # "spawned" /\ Attach(HeavyOf[p])
    /\ UNCHANGED <<taskVars, pubVars>>

\* The locks see the group of p end when it does.
LocksSee(p) ==
    IF group[p] # "gone" /\ group'[p] = "gone"
    THEN WorkloadEnds(HeavyOf[p]) ELSE UNCHANGED vars

\* The runner of p, with its timers and signals.
Supervise(p) ==
    /\ state[HeavyOf[p]] = "holding"
    /\ workload[HeavyOf[p]] # "spawned"
    /\ \/ Task!Stop(p) \/ Task!TimeLimit(p) \/ Task!Escalate(p)
       \/ Task!OverLimit(p) \/ Task!OomKill(p)
       \/ Task!Finish(p) \/ Task!Flush(p)
    /\ LocksSee(p)
    /\ UNCHANGED pubVars

\* TypeDoc itself, which may outlive its builder.
TypedocEnds(p) ==
    /\ Task!LeaderExits(p) \/ Task!OrphansEnd(p)
    /\ LocksSee(p)
    /\ UNCHANGED pubVars

TypedocWrites(p) ==
    /\ Task!Lives(p)
    /\ Pub!Write(p)
    /\ UNCHANGED <<vars, taskVars>>

\* The outcome is read, and what TypeDoc wrote is checked (typedocSiteProblems).
Judge(p) ==
    /\ state[HeavyOf[p]] = "holding"
    /\ promise[p] = "settled"
    /\ Pub!Built(p, Task!Reason(p) = "completed" /\ staging[p] = p)
    /\ UNCHANGED <<vars, taskVars>>

Publish(p) ==
    /\ state[HeavyOf[p]] = "holding"
    /\ \/ Pub!Backup(p) \/ Pub!Place(p) \/ Pub!PlaceFails(p) \/ Pub!Undo(p)
       \/ Pub!DropBackup(p) \/ Pub!Throw(p) \/ Pub!Clean(p)
    /\ UNCHANGED <<vars, taskVars>>

\* Every other version is obsolete once this one is published.
DropVersions(p) ==
    /\ state[HeavyOf[p]] = "holding"
    /\ cycle[p] = "published"
    /\ IF \A v \in Version \ {VersionOf[p]} : site[v] = "none"
       THEN Pub!Goes(p, "clean") /\ UNCHANGED site
       ELSE /\ \E v \in Version \ {VersionOf[p]} : \E left \in {"none", "part"} :
                   site[v] # "none" /\ site' = [site EXCEPT ![v] = left]
            /\ UNCHANGED cycle
    /\ UNCHANGED <<vars, taskVars, staging, backup, latest>>

\* The `finally` releases the locks in reverse order.
ReleaseLock(p) ==
    /\ cycle[p] = "done"
    /\ \/ Release(HeavyOf[p])
       \/ state[HeavyOf[p]] = "idle" /\ Release(TargetOf[p])
    /\ UNCHANGED <<taskVars, pubVars>>

\* The builder ends at any step; its TypeDoc goes on, without limits.
BuilderEnds(p) ==
    /\ Crash(HeavyOf[p])
    /\ Task!RunnerEnds(p)
    /\ Pub!Goes(p, "off")
    /\ UNCHANGED <<site, staging, backup, latest>>

BuilderStep(p) ==
    \/ AskHeavy(p) \/ Wait(p) \/ Repair(p) \/ EndRepair(p) \/ Launch(p) \/ TellLock(p) \/ Judge(p)
    \/ Publish(p) \/ DropVersions(p) \/ ReleaseLock(p)

DocNext ==
    \E p \in Process :
        \/ Build(p) \/ Reject(p) \/ BuilderStep(p) \/ NotAdmitted(p)
        \/ Supervise(p) \/ TypedocEnds(p) \/ TypedocWrites(p) \/ BuilderEnds(p)

DocSpec == DocInit /\ [][DocNext]_docVars

\* The timers of the runner, and the events of its child.
Timely(p) ==
    /\ state[HeavyOf[p]] = "holding"
    /\ Task!TimeLimit(p) \/ Task!Escalate(p) \/ Task!Finish(p) \/ Task!Flush(p)
    /\ LocksSee(p)
    /\ UNCHANGED pubVars

(***************************************************************************)
(* A builder takes its next step, or its runner does on a timer or an      *)
(* event of the child; the wait for a lock has a deadline.  TypeDoc itself *)
(* may run for ever: that it ends is up to its supervisor.                 *)
(***************************************************************************)
DocFairness ==
    \A p \in Process :
        /\ WF_docVars(BuilderStep(p) \/ Timely(p))
        /\ WF_docVars(EndRepair(p))
        /\ SF_docVars(Reject(p))

FairDocSpec == DocSpec /\ DocFairness

-----------------------------------------------------------------------------
(* Properties *)

\* Every variable has its type.
DocTypeOK ==
    /\ TypeOK
    /\ Task!TaskTypeOK
    /\ cycle \in [Process -> Pub!Cycles]
    /\ site \in [Version -> Pub!Content]
    /\ staging \in [Process -> Pub!Content]
    /\ backup \in [Process -> Pub!Content]
    /\ latest \in {Pub!Nothing} \cup Pub!Publications

\* The site is never lost, and never goes back to an earlier one: what was published
\* last was whole and is in its place, or its place is empty and every backup of
\* it, one of which the next recovery puts back, holds just that; whatever step a
\* builder ends at, that of the recovery included.
SiteKept ==
    latest # Pub!Nothing =>
        /\ Pub!Whole(latest.by)
        /\ \/ site[latest.version] = latest.by
           \/ /\ site[latest.version] = "none"
              /\ \E q \in Process : VersionOf[q] = latest.version /\ backup[q] # "none"
              /\ \A q \in Process :
                    VersionOf[q] = latest.version => backup[q] \in {"none", latest.by}

\* A builder that starts TypeDoc works beside the site published last: the recovery
\* is over before, and nobody else is between two renames.
BuildsBesideSite ==
    \A p \in Process : state[HeavyOf[p]] = "holding" /\ cycle[p] = "build" /\ latest # Pub!Nothing =>
        site[latest.version] = latest.by

\* What is published comes from a TypeDoc that exited with code 0 and that no
\* stop, limit or time-out reached before its exit was known.
OnlyCompletedPublished ==
    \A v \in Version, p \in Process :
        site[v] = p => exit[p] = "zero" /\ marks[p] = {}

\* A builder comes to release its lock only once no process of its TypeDoc runs,
\* which is what HostLock expects of its callers.
ReleasedAfterWorkload ==
    \A p \in Process : cycle[p] = "done" => ~Task!Lives(p)

\* Nobody takes the staging directory from under a TypeDoc that runs while its
\* builder lives, or while the record of the profile's lock names it.
LiveStagingKept ==
    [][\A q \in Process :
        Task!Lives(q) /\ staging[q] # "none" /\ (promise[q] # "off" \/ Recorded(HeavyOf[q]))
            => staging'[q] # "none"]_docVars

\* Every build ends: whatever signals TypeDoc ignores and whoever holds the locks.
BuildEnds ==
    \A p \in Process :
        (state[TargetOf[p]] # "idle") ~> (state[TargetOf[p]] \in {"idle", "ended"})
=============================================================================
