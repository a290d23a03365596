-------------------------- MODULE TypedocTaskProofs --------------------------
(***************************************************************************)
(* Proofs about TypedocTask, for every set of builders, versions and       *)
(* locks.  A step of a build is a step of HostLock, so what HostLockProofs *)
(* shows of the locks holds of the builders.  HeavyInv says which slot the *)
(* second handle of a builder asks for.  CycleInv relates where a builder  *)
(* is to its task; SealedInv, what is on the site to how its TypeDoc       *)
(* ended; KeptInv, under the exclusion of the profile's lock, each step of *)
(* a publication to the directories it finds.                              *)
(***************************************************************************)
EXTENDS TypedocTask, HostLockProofs

\* The one slot of the profile's lock is what the second handle of a builder asks for.
HeavyInv == \A p \in Process : slot[HeavyOf[p]] \in {NoSlot, <<HeavyLock, 1>>}

\* A cycle is under way.
Active(p) == cycle[p] \notin {"off", "done"}

CycleInv ==
    /\ \A p \in Process : Active(p) => state[HeavyOf[p]] = "holding"
    /\ \A p \in Process : state[HeavyOf[p]] = "ended" => cycle[p] = "off"
    /\ \A p \in Process : cycle[p] \in {"off", "recover"} => promise[p] = "off"
    /\ \A p \in Process : cycle[p] \in {"clean", "done"} => promise[p] \in {"off", "settled"}
    /\ \A p \in Process :
          cycle[p] \in {"backup", "place", "undo", "drop", "published"} => promise[p] = "settled"

TaskInv ==
    /\ \A p \in Process : exit[p] = "none" <=> group[p] \in {"none", "leader"}
    /\ \A p \in Process : promise[p] = "off" /\ state[HeavyOf[p]] # "ended" => group[p] = "none"
    /\ \A p \in Process : promise[p] \in {"flushing", "settled"} => ~Task!Lives(p)

\* TypeDoc of p completed, and nothing will change that.
Sealed(p) == exit[p] = "zero" /\ marks[p] = {} /\ promise[p] \in {"off", "settled"}

SealedInv ==
    /\ \A p \in Process : staging[p] \in {"none", "part", p}
    /\ \A p \in Process : cycle[p] \in {"backup", "place"} => Sealed(p)
    /\ \A v \in Version, p \in Process : site[v] = p => Sealed(p)
    /\ \A q, p \in Process : backup[q] = p => Sealed(p)

\* What was published last is in its place.
SiteIntact == latest # Pub!Nothing => site[latest.version] = latest.by

KeptInv ==
    /\ SiteKept
    /\ \A p \in Process : cycle[p] \in {"build", "backup"} =>
          /\ \A q \in Process : backup[q] = "none"
          /\ SiteIntact
    /\ \A p \in Process : cycle[p] \in {"backup", "place"} => staging[p] = p
    /\ \A p \in Process : cycle[p] \in {"place", "undo"} => site[VersionOf[p]] = "none"
    /\ \A p \in Process : cycle[p] = "undo" => backup[p] # "none"
    /\ \A p \in Process : cycle[p] \in {"drop", "published"} =>
          latest.version = VersionOf[p] /\ SiteIntact

-----------------------------------------------------------------------------
\* Every handle is one of the two of its process, and no two processes share one.
LEMMA HandleFacts ==
    ASSUME NEW p \in Process
    PROVE  /\ TargetOf[p] \in Handle /\ HeavyOf[p] \in Handle
           /\ ProcessOf[TargetOf[p]] = p /\ ProcessOf[HeavyOf[p]] = p
           /\ TargetOf[p] # HeavyOf[p]
           /\ \A q \in Process : HeavyOf[p] = HeavyOf[q] => p = q
           /\ \A q \in Process : TargetOf[p] # HeavyOf[q]
           /\ \A q \in Process : HeavyOf[q] \in Siblings(HeavyOf[p]) <=> q = p
<1>1. ASSUME NEW q \in Process
      PROVE  /\ TargetOf[q] \in Handle /\ HeavyOf[q] \in Handle /\ TargetOf[q] # HeavyOf[q]
             /\ ProcessOf[TargetOf[q]] = q /\ ProcessOf[HeavyOf[q]] = q
  <2>1. /\ TargetOf[q] \in Handle /\ HeavyOf[q] \in Handle /\ TargetOf[q] # HeavyOf[q]
        /\ {h \in Handle : ProcessOf[h] = q} = {TargetOf[q], HeavyOf[q]}
    BY TypedocAssumption DEF TypedocAssumption
  <2> QED
    BY <2>1
<1> QED
  BY <1>1 DEF Siblings

LEMMA HeavySlot == NoSlot \notin Slot /\ <<HeavyLock, 1>> \in Slot /\ SlotCount[HeavyLock] = 1
<1>1. HeavyLock \in Name /\ SlotCount[HeavyLock] = 1
  BY TypedocAssumption DEF TypedocAssumption
<1>2. 1 \in 1..SlotCount[HeavyLock]
  BY <1>1
<1>3. NoSlot \notin Slot
  <2> SUFFICES ASSUME NoSlot \in Slot PROVE FALSE
    OBVIOUS
  <2>1. NoSlot[2] \in 1..SlotCount[NoSlot[1]]
    BY SlotFacts
  <2>2. NoSlot[2] = 0
    BY DEF NoSlot
  <2> QED
    BY <2>1, <2>2
<1> QED
  BY <1>1, <1>2, <1>3, SlotFacts

-----------------------------------------------------------------------------
(***************************************************************************)
(* The locks: a build takes and releases them as HostLock says.            *)
(***************************************************************************)
LEMMA LocksSeeStep ==
    \A p \in Process : LocksSee(p) => WorkloadEnds(HeavyOf[p]) \/ UNCHANGED vars
BY DEF LocksSee

LEMMA TargetLocks == \A p \in Process : TargetLock[VersionOf[p]] \in Name /\ HeavyLock \in Name
BY TypedocAssumption DEF TypedocAssumption

LEMMA DocStepIsHostStep == [DocNext]_docVars => [Next]_vars
<1> SUFFICES ASSUME [DocNext]_docVars PROVE [Next]_vars
  OBVIOUS
<1>1. CASE UNCHANGED docVars
  BY <1>1 DEF docVars, vars
<1>2. ASSUME NEW p \in Process, Build(p) PROVE Next
  BY <1>2, TargetLocks, HandleFacts DEF Build, Next, Call
<1>3. ASSUME NEW p \in Process, Reject(p) PROVE Next
  BY <1>3, HandleFacts DEF Reject, Next
<1>4. ASSUME NEW p \in Process, BuilderStep(p) PROVE [Next]_vars
  <2>1. CASE Wait(p)
    BY <2>1, HandleFacts DEF Wait, Next
  <2>2. CASE Repair(p)
    BY <2>2 DEF Repair
  <2>3. CASE EndRepair(p)
    BY <2>3 DEF EndRepair
  <2>4. CASE Launch(p)
    BY <2>4, HandleFacts DEF Launch, Next
  <2>5. CASE TellLock(p)
    BY <2>5, HandleFacts DEF TellLock, Next
  <2>6. CASE Judge(p)
    BY <2>6 DEF Judge
  <2>7. CASE Publish(p)
    BY <2>7 DEF Publish
  <2>8. CASE DropVersions(p)
    BY <2>8 DEF DropVersions
  <2>9. CASE ReleaseLock(p)
    BY <2>9, HandleFacts DEF ReleaseLock, Next
  <2>10. CASE AskHeavy(p)
    BY <2>10, TargetLocks, HandleFacts DEF AskHeavy, Next, Call
  <2> QED
    BY <1>4, <2>1, <2>2, <2>3, <2>4, <2>5, <2>6, <2>7, <2>8, <2>9, <2>10 DEF BuilderStep
<1>5. ASSUME NEW p \in Process, NotAdmitted(p) PROVE [Next]_vars
  BY <1>5 DEF NotAdmitted
<1>6. ASSUME NEW p \in Process, Supervise(p) \/ TypedocEnds(p) PROVE [Next]_vars
  BY <1>6, LocksSeeStep, HandleFacts DEF Supervise, TypedocEnds, Next
<1>7. ASSUME NEW p \in Process, TypedocWrites(p) PROVE [Next]_vars
  BY <1>7 DEF TypedocWrites
<1>8. ASSUME NEW p \in Process, BuilderEnds(p) PROVE Next
  BY <1>8, HandleFacts DEF BuilderEnds, Next
<1> QED
  BY <1>1, <1>2, <1>3, <1>4, <1>5, <1>6, <1>7, <1>8 DEF DocNext

\* Seen through the variables of the locks, the builders are processes that
\* acquire, attach and release as HostLock says.
THEOREM BuildsUseTheLock == DocSpec => Spec
<1>1. DocInit => Init
  BY DEF DocInit
<1> QED
  BY <1>1, DocStepIsHostStep, PTL DEF DocSpec, Spec

-----------------------------------------------------------------------------
(***************************************************************************)
(* What the steps of each part change.                                     *)
(***************************************************************************)
dirVars == <<site, staging, backup, latest>>

\* The profile's lock is held by q as before, as far as the others care.
SameHold(q) ==
    /\ state[HeavyOf[q]] = "holding" => state'[HeavyOf[q]] = "holding"
    /\ state'[HeavyOf[q]] = "ended" <=> state[HeavyOf[q]] = "ended"

\* Steps in which neither the task nor the directories of a build change.
LockStep(p) ==
    Build(p) \/ AskHeavy(p) \/ Reject(p) \/ Wait(p) \/ TellLock(p) \/ ReleaseLock(p)

\* A step of one handle in a wait, and in a release.
LEMMA WaitFacts ==
    ASSUME SocketInv, NEW h \in Handle, Acquire(h) \/ Retry(h)
    PROVE  /\ \A k \in Handle \ {h} : state'[k] = state[k] /\ slot'[k] = slot[k]
           /\ state[h] \notin {"holding", "ended"} /\ state'[h] # "ended"
           /\ slot[h] = <<HeavyLock, 1>> => slot'[h] = <<HeavyLock, 1>>
           /\ slot[h] \in Slot
<1>0. TypeOK
  BY DEF SocketInv
<1>1. CASE BindBusy(h) \/ SlotTaken(h)
  <2>1. slot[h] \in Slot /\ NextSlot(h) /\ state[h] \in {"bind", "judge"}
    BY <1>1 DEF BindBusy, SlotTaken, SocketInv
  <2>2. ASSUME slot[h] = <<HeavyLock, 1>> PROVE slot'[h] = <<HeavyLock, 1>>
    <3>1. slot[h][1] = HeavyLock /\ slot[h][2] = 1
      BY <2>2
    <3>2. slot' = [slot EXCEPT ![h] = <<HeavyLock, 1>>]
      BY <2>1, <3>1, HeavySlot DEF NextSlot
    <3> QED
      BY <1>0, <3>2 DEF TypeOK
  <2> QED
    BY <1>0, <2>1, <2>2, NextSlotFacts
<1>2. CASE BindFree(h) \/ ReadSlot(h) \/ ReadAll(h) \/ Filter(h) \/ SweepOne(h)
  BY <1>0, <1>2 DEF BindFree, ReadSlot, ReadAll, Filter, SweepOne, TypeOK, SocketInv
<1>3. CASE WriteRecord(h) \/ Retry(h)
  BY <1>0, <1>3 DEF WriteRecord, Retry, TypeOK, SocketInv
<1> QED
  BY <1>1, <1>2, <1>3 DEF Acquire

LEMMA LockStepFacts ==
    ASSUME SocketInv, HeavyInv, NEW p \in Process, LockStep(p)
    PROVE  /\ UNCHANGED <<taskVars, dirVars>>
           /\ \/ UNCHANGED cycle
              \/ /\ cycle' = [cycle EXCEPT ![p] = "done"]
                 /\ state[HeavyOf[p]] = "missed" /\ state'[HeavyOf[p]] = "idle"
           /\ \A q \in Process :
                \/ SameHold(q)
                \/ q = p /\ cycle[p] = "done" /\ state'[HeavyOf[p]] # "ended"
           /\ HeavyInv'
<1> USE DEF SameHold, HeavyInv
<1>0. /\ TypeOK
      /\ \A q \in Process : HeavyOf[q] \in Handle /\ TargetOf[q] \in Handle
      /\ \A q, r \in Process : TargetOf[q] # HeavyOf[r]
      /\ \A q, r \in Process : HeavyOf[q] = HeavyOf[r] => q = r
  BY HandleFacts DEF SocketInv
<1>1. CASE Build(p)
  <2>1. /\ slot' = [slot EXCEPT ![TargetOf[p]] = <<TargetLock[VersionOf[p]], 1>>]
        /\ state' = [state EXCEPT ![TargetOf[p]] = "bind"]
        /\ UNCHANGED <<taskVars, dirVars, cycle>>
    BY <1>1 DEF Build, CallFor, pubVars, dirVars
  <2> QED
    BY <1>0, <2>1 DEF TypeOK
<1>2. CASE AskHeavy(p)
  <2>1. /\ slot' = [slot EXCEPT ![HeavyOf[p]] = <<HeavyLock, 1>>]
        /\ state[HeavyOf[p]] = "idle"
        /\ state' = [state EXCEPT ![HeavyOf[p]] = "bind"]
        /\ UNCHANGED <<taskVars, dirVars, cycle>>
    BY <1>2 DEF AskHeavy, CallFor, pubVars, dirVars
  <2> QED
    BY <1>0, <2>1 DEF TypeOK
<1>3. CASE Reject(p)
  <2>0. UNCHANGED <<taskVars, dirVars>>
    BY <1>3 DEF Reject, dirVars
  <2>1. CASE GiveUp(TargetOf[p]) /\ UNCHANGED cycle
    BY <1>0, <2>0, <2>1 DEF GiveUp, TypeOK
  <2>2. CASE GiveUp(HeavyOf[p]) /\ Pub!Goes(p, "done")
    BY <1>0, <2>0, <2>2 DEF GiveUp, Pub!Goes, TypeOK
  <2> QED
    BY <1>3, <2>1, <2>2 DEF Reject
<1>4. CASE Wait(p)
  <2>1. UNCHANGED <<taskVars, dirVars, cycle>>
    BY <1>4 DEF Wait, pubVars, dirVars
  <2>2. PICK h \in {TargetOf[p], HeavyOf[p]} : Acquire(h) \/ Retry(h)
    BY <1>4 DEF Wait
  <2>3. /\ \A k \in Handle \ {h} : state'[k] = state[k] /\ slot'[k] = slot[k]
        /\ state[h] \notin {"holding", "ended"} /\ state'[h] # "ended"
        /\ slot[h] = <<HeavyLock, 1>> => slot'[h] = <<HeavyLock, 1>>
        /\ slot[h] \in Slot
    BY <1>0, <2>2, WaitFacts
  <2>4. HeavyInv'
    BY <1>0, <2>2, <2>3, HeavySlot
  <2>5. \A q \in Process : SameHold(q)
    BY <1>0, <2>2, <2>3
  <2> QED
    BY <2>1, <2>4, <2>5
<1>5. CASE TellLock(p)
  BY <1>5 DEF TellLock, Attach, pubVars, dirVars
<1>6. CASE ReleaseLock(p)
  <2>1. PICK h \in {TargetOf[p], HeavyOf[p]} : Release(h)
    BY <1>6 DEF ReleaseLock
  <2>2. cycle[p] = "done" /\ UNCHANGED <<taskVars, dirVars, cycle>>
    BY <1>6 DEF ReleaseLock, pubVars, dirVars
  <2>3. /\ \A k \in Handle \ {h} : state'[k] = state[k] /\ slot'[k] = slot[k]
        /\ state'[h] # "ended" /\ slot'[h] \in {slot[h], NoSlot}
    <3>1. h \in Handle
      BY <1>0
    <3>2. CASE RemoveOwnRecord(h)
      BY <1>0, <3>1, <3>2 DEF RemoveOwnRecord, TypeOK
    <3>3. CASE CloseSocket(h)
      BY <1>0, <3>1, <3>3 DEF CloseSocket, TypeOK
    <3> QED
      BY <2>1, <3>2, <3>3 DEF Release
  <2>4. HeavyInv'
    BY <1>0, <2>1, <2>3
  <2>5. \A q \in Process : SameHold(q) \/ (q = p /\ state'[HeavyOf[p]] # "ended")
    <3>1. CASE h = HeavyOf[p]
      BY <1>0, <2>3, <3>1
    <3>2. CASE h = TargetOf[p]
      BY <1>0, <2>3, <3>2
    <3> QED
      BY <2>1, <3>1, <3>2
  <2> QED
    BY <2>2, <2>4, <2>5
<1> QED
  BY <1>1, <1>2, <1>3, <1>4, <1>5, <1>6 DEF LockStep

\* When a builder ends, the holds of the others stay.
LEMMA BuilderEndsFacts ==
    ASSUME TypeOK, NEW p \in Process, BuilderEnds(p)
    PROVE  /\ \A q \in Process :
                state'[HeavyOf[q]] = IF q = p THEN "ended" ELSE state[HeavyOf[q]]
           /\ slot' = slot
BY HandleFacts DEF BuilderEnds, Crash, TypeOK

\* Steps on the directories: the lock and the task stay as they are.
DirectoryStep(p) ==
    Repair(p) \/ EndRepair(p) \/ NotAdmitted(p) \/ Judge(p) \/ Publish(p) \/ DropVersions(p)

LEMMA DirectoryStepFacts ==
    ASSUME NEW p \in Process, DirectoryStep(p)
    PROVE  state[HeavyOf[p]] = "holding" /\ UNCHANGED <<vars, taskVars>>
BY DEF DirectoryStep, Repair, EndRepair, NotAdmitted, Judge, Publish, DropVersions

\* Steps of the task of p: the directories and the holders stay as they are.
TaskStep(p) == Launch(p) \/ Supervise(p) \/ TypedocEnds(p)

LEMMA TaskStepFacts ==
    ASSUME NEW p \in Process, TaskStep(p)
    PROVE  UNCHANGED <<state, slot, pubVars>>
BY DEF TaskStep, Launch, Supervise, TypedocEnds, Spawn, LocksSee, WorkloadEnds, vars

\* Every step is of one of the parts.
LEMMA DocCases ==
    ASSUME [DocNext]_docVars
    PROVE  \/ UNCHANGED docVars
           \/ \E p \in Process : \/ LockStep(p) \/ DirectoryStep(p) \/ TaskStep(p)
                              \/ TypedocWrites(p) \/ BuilderEnds(p)
BY DEF DocNext, BuilderStep, LockStep, DirectoryStep, TaskStep

-----------------------------------------------------------------------------
(* Types *)

\* The directories, and where the builders are.
DirectoryTypes ==
    /\ cycle \in [Process -> Pub!Cycles]
    /\ site \in [Version -> Pub!Content]
    /\ staging \in [Process -> Pub!Content]
    /\ backup \in [Process -> Pub!Content]
    /\ latest \in {Pub!Nothing} \cup Pub!Publications

LEMMA DocTypeParts == DocTypeOK <=> TypeOK /\ Task!TaskTypeOK /\ DirectoryTypes
BY DEF DocTypeOK, DirectoryTypes

LEMMA TaskTypesStep ==
    ASSUME Task!TaskTypeOK, [DocNext]_docVars
    PROVE  Task!TaskTypeOK'
<1>1. CASE UNCHANGED docVars
  BY <1>1 DEF docVars, Task!TaskTypeOK
<1>2. ASSUME NEW p \in Process, LockStep(p) \/ DirectoryStep(p) \/ TypedocWrites(p)
      PROVE  Task!TaskTypeOK'
  <2>1. UNCHANGED taskVars
    BY <1>2 DEF LockStep, Build, AskHeavy, Reject, Wait, TellLock, ReleaseLock, DirectoryStep, Repair,
       EndRepair, NotAdmitted, Judge, Publish, DropVersions, TypedocWrites
  <2> QED
    BY <2>1 DEF taskVars, Task!TaskTypeOK
<1>3. ASSUME NEW p \in Process, Launch(p) PROVE Task!TaskTypeOK'
  BY <1>3 DEF Launch, Task!StartTask, Task!StartFails, Task!TaskTypeOK
<1>4. ASSUME NEW p \in Process, Supervise(p) PROVE Task!TaskTypeOK'
  <2>1. CASE Task!Stop(p)
    BY <2>1 DEF Task!Stop, Task!StopGroup, Task!KillGroup, Task!TaskTypeOK, Task!Causes
  <2>2. CASE Task!TimeLimit(p)
    BY <2>2 DEF Task!TimeLimit, Task!StopGroup, Task!KillGroup, Task!TaskTypeOK, Task!Causes
  <2>3. CASE Task!Escalate(p)
    BY <2>3 DEF Task!Escalate, Task!KillGroup, Task!TaskTypeOK
  <2>4. CASE Task!OverLimit(p)
    BY <2>4 DEF Task!OverLimit, Task!KillGroup, Task!TaskTypeOK, Task!Causes
  <2>5. CASE Task!OomKill(p)
    BY <2>5 DEF Task!OomKill, Task!TaskTypeOK, Task!Causes
  <2>6. CASE Task!Finish(p)
    BY <2>6 DEF Task!Finish, Task!KillGroup, Task!TaskTypeOK
  <2>7. CASE Task!Flush(p)
    BY <2>7 DEF Task!Flush, Task!TaskTypeOK
  <2> QED
    BY <1>4, <2>1, <2>2, <2>3, <2>4, <2>5, <2>6, <2>7 DEF Supervise
<1>5. ASSUME NEW p \in Process, TypedocEnds(p) PROVE Task!TaskTypeOK'
  BY <1>5 DEF TypedocEnds, Task!LeaderExits, Task!OrphansEnd, Task!TaskTypeOK
<1>6. ASSUME NEW p \in Process, BuilderEnds(p) PROVE Task!TaskTypeOK'
  BY <1>6 DEF BuilderEnds, Task!RunnerEnds, Task!TaskTypeOK
<1> QED
  BY <1>1, <1>2, <1>3, <1>4, <1>5, <1>6, DocCases DEF TaskStep

LEMMA DirectoryTypesStep ==
    ASSUME DirectoryTypes, SocketInv, HeavyInv, [DocNext]_docVars
    PROVE  DirectoryTypes'
<1> USE DEF Pub!Goes
<1>0. /\ VersionOf \in [Process -> Version]
      /\ \A c \in {"off", "recover", "build", "backup", "place", "undo", "drop",
                   "published", "clean", "done"} : c \in Pub!Cycles
      /\ \A c \in {"none", "part"} : c \in Pub!Content
      /\ \A p \in Process : p \in Pub!Content
  BY TypedocAssumption DEF TypedocAssumption, Pub!Cycles, Pub!Content
<1>1. CASE UNCHANGED docVars
  BY <1>1 DEF docVars, DirectoryTypes
<1>2. ASSUME NEW p \in Process, LockStep(p) \/ TaskStep(p) PROVE DirectoryTypes'
  <2>1. CASE LockStep(p)
    BY <1>0, <2>1, LockStepFacts DEF dirVars, DirectoryTypes
  <2>2. CASE TaskStep(p)
    BY <2>2, TaskStepFacts DEF pubVars, DirectoryTypes
  <2> QED
    BY <1>2, <2>1, <2>2
<1>3. ASSUME NEW p \in Process, Repair(p) PROVE DirectoryTypes'
  <2>1. CASE Pub!BeginRecovery(p)
    BY <1>0, <2>1 DEF Pub!BeginRecovery, DirectoryTypes
  <2>2. ASSUME NEW q \in Process, Pub!Restore(p, q) PROVE DirectoryTypes'
    BY <1>0, <2>2 DEF Pub!Restore, DirectoryTypes
  <2>3. ASSUME NEW q \in Process, Pub!DropLeftover(p, q) PROVE DirectoryTypes'
    BY <1>0, <2>3 DEF Pub!DropLeftover, DirectoryTypes
  <2> QED
    BY <1>3, <2>1, <2>2, <2>3 DEF Repair
<1>4. ASSUME NEW p \in Process, EndRepair(p) \/ NotAdmitted(p) \/ Judge(p) PROVE DirectoryTypes'
  BY <1>0, <1>4 DEF EndRepair, NotAdmitted, Judge, Pub!Recovered, Pub!Built, DirectoryTypes
<1>5. ASSUME NEW p \in Process, Publish(p) PROVE DirectoryTypes'
  <2>1. CASE Pub!Backup(p) \/ Pub!Undo(p)
    BY <1>0, <2>1 DEF Pub!Backup, Pub!Undo, DirectoryTypes
  <2>2. CASE Pub!Place(p) \/ Pub!PlaceFails(p) \/ Pub!Throw(p)
    BY <1>0, <2>2 DEF Pub!Place, Pub!PlaceFails, Pub!Throw, Pub!Publications, DirectoryTypes
  <2>3. CASE Pub!DropBackup(p) \/ Pub!Clean(p)
    BY <1>0, <2>3 DEF Pub!DropBackup, Pub!Clean, DirectoryTypes
  <2> QED
    BY <1>5, <2>1, <2>2, <2>3 DEF Publish
<1>6. ASSUME NEW p \in Process, DropVersions(p) PROVE DirectoryTypes'
  BY <1>0, <1>6 DEF DropVersions, DirectoryTypes
<1>7. ASSUME NEW p \in Process, TypedocWrites(p) PROVE DirectoryTypes'
  BY <1>0, <1>7 DEF TypedocWrites, Pub!Write, DirectoryTypes
<1>8. ASSUME NEW p \in Process, BuilderEnds(p) PROVE DirectoryTypes'
  BY <1>0, <1>8 DEF BuilderEnds, DirectoryTypes
<1> QED
  BY <1>1, <1>2, <1>3, <1>4, <1>5, <1>6, <1>7, <1>8, DocCases DEF DirectoryStep

-----------------------------------------------------------------------------
(* Where a builder is, and its task *)

\* A task that has not settled is that of a builder that waits for it.
LEMMA TaskMovesInBuild ==
    ASSUME CycleInv, DirectoryTypes, NEW p \in Process, promise[p] \in {"running", "flushing"}
    PROVE  cycle[p] = "build"
BY DEF CycleInv, DirectoryTypes, Pub!Cycles

LEMMA CycleStep ==
    ASSUME CycleInv, DocTypeOK, SocketInv, HeavyInv, [DocNext]_docVars
    PROVE  CycleInv'
<1>0. DirectoryTypes /\ Task!TaskTypeOK /\ TypeOK
  BY DocTypeParts
<1> USE DEF Active
<1>1. CASE UNCHANGED docVars
  BY <1>1 DEF docVars, CycleInv
<1>2. ASSUME NEW p \in Process, LockStep(p) PROVE CycleInv'
  <2>1. UNCHANGED promise
    BY <1>2, LockStepFacts DEF taskVars
  <2>2. \A q \in Process : SameHold(q) \/ (q = p /\ cycle[p] = "done" /\ state'[HeavyOf[p]] # "ended")
    BY <1>2, LockStepFacts
  <2>3. CASE UNCHANGED cycle
    BY <2>1, <2>2, <2>3 DEF CycleInv, SameHold
  <2>4. CASE /\ cycle' = [cycle EXCEPT ![p] = "done"]
             /\ state[HeavyOf[p]] = "missed" /\ state'[HeavyOf[p]] = "idle"
    <3>1. cycle[p] \in {"off", "done"} /\ promise[p] \in {"off", "settled"}
      BY <1>0, <2>4 DEF CycleInv
    <3>2. cycle'[p] = "done" /\ \A q \in Process \ {p} : cycle'[q] = cycle[q]
      BY <1>0, <2>4 DEF DirectoryTypes
    <3> QED
      BY <2>1, <2>2, <2>4, <3>1, <3>2 DEF CycleInv, SameHold
  <2> QED
    BY <1>2, <2>3, <2>4, LockStepFacts
<1>3. ASSUME NEW p \in Process, DirectoryStep(p) PROVE CycleInv'
  <2>1. state[HeavyOf[p]] = "holding" /\ UNCHANGED <<state, promise>>
    BY <1>3, DirectoryStepFacts DEF vars, taskVars
  <2>2. ASSUME \A q \in Process \ {p} : cycle'[q] = cycle[q],
               \/ cycle'[p] = cycle[p]
               \/ cycle'[p] \in {"recover", "clean"} /\ promise[p] = "off"
               \/ cycle'[p] \in {"backup", "place", "undo", "drop", "published", "clean"}
                  /\ promise[p] = "settled"
               \/ cycle'[p] = "build"
               \/ cycle'[p] = "done" /\ cycle[p] = "clean"
        PROVE  CycleInv'
    BY <2>1, <2>2 DEF CycleInv
  <2>3. CASE Repair(p) \/ EndRepair(p)
    BY <1>0, <2>2, <2>3 DEF Repair, EndRepair, Pub!BeginRecovery, Pub!Restore,
       Pub!DropLeftover, Pub!Recovered, Pub!Goes, CycleInv, DirectoryTypes
  <2>4. CASE NotAdmitted(p) \/ Judge(p)
    BY <1>0, <2>2, <2>4 DEF NotAdmitted, Judge, Pub!Built, Pub!Goes, DirectoryTypes
  <2>5. CASE Publish(p) \/ DropVersions(p)
    BY <1>0, <2>2, <2>5 DEF Publish, Pub!Backup, Pub!Place, Pub!PlaceFails, Pub!Undo,
       Pub!DropBackup, Pub!Throw, Pub!Clean, DropVersions, Pub!Goes, CycleInv, DirectoryTypes
  <2> QED
    BY <1>3, <2>3, <2>4, <2>5 DEF DirectoryStep
<1>4. ASSUME NEW p \in Process, TaskStep(p) PROVE CycleInv'
  <2>1. UNCHANGED <<state, cycle>>
    BY <1>4, TaskStepFacts DEF pubVars
  <2>2. \A q \in Process : promise'[q] = promise[q] \/ (q = p /\ cycle[p] = "build")
    <3>1. CASE Launch(p)
      BY <1>0, <3>1 DEF Launch, Task!StartTask, Task!StartFails, Task!TaskTypeOK
    <3>2. CASE Supervise(p)
      <4>1. UNCHANGED promise \/ Task!Finish(p) \/ Task!Flush(p)
        BY <3>2 DEF Supervise, Task!Stop, Task!TimeLimit, Task!Escalate, Task!OverLimit, Task!OomKill
      <4>2. CASE Task!Finish(p) \/ Task!Flush(p)
        BY <1>0, <4>2, TaskMovesInBuild DEF Task!Finish, Task!Flush, Task!TaskTypeOK
      <4> QED
        BY <4>1, <4>2
    <3>3. CASE TypedocEnds(p)
      BY <3>3 DEF TypedocEnds, Task!LeaderExits, Task!OrphansEnd
    <3> QED
      BY <1>4, <3>1, <3>2, <3>3 DEF TaskStep
  <2> QED
    BY <2>1, <2>2 DEF CycleInv
<1>5. ASSUME NEW p \in Process, TypedocWrites(p) PROVE CycleInv'
  BY <1>5 DEF TypedocWrites, Pub!Write, CycleInv, vars, taskVars
<1>6. ASSUME NEW p \in Process, BuilderEnds(p) PROVE CycleInv'
  <2>1. /\ \A q \in Process :
              state'[HeavyOf[q]] = IF q = p THEN "ended" ELSE state[HeavyOf[q]]
        /\ promise' = [promise EXCEPT ![p] = "off"]
        /\ cycle' = [cycle EXCEPT ![p] = "off"]
    BY <1>0, <1>6, BuilderEndsFacts DEF BuilderEnds, Task!RunnerEnds, Pub!Goes
  <2> QED
    BY <1>0, <2>1 DEF CycleInv, TypeOK, Task!TaskTypeOK, DirectoryTypes
<1> QED
  BY <1>1, <1>2, <1>3, <1>4, <1>5, <1>6, DocCases

LEMMA TaskStepKeeps ==
    ASSUME CycleInv, TaskInv, DocTypeOK, SocketInv, HeavyInv, [DocNext]_docVars
    PROVE  TaskInv'
<1>0. DirectoryTypes /\ Task!TaskTypeOK /\ TypeOK
  BY DocTypeParts
<1> USE DEF Task!Lives
<1>1. CASE UNCHANGED docVars
  BY <1>1 DEF docVars, TaskInv
<1>2. ASSUME NEW p \in Process, LockStep(p) PROVE TaskInv'
  <2>1. UNCHANGED <<promise, group, exit>>
    BY <1>2, LockStepFacts DEF taskVars
  <2>2. \A q \in Process : state'[HeavyOf[q]] # "ended" => state[HeavyOf[q]] # "ended"
    BY <1>2, LockStepFacts DEF SameHold, CycleInv
  <2> QED
    BY <2>1, <2>2 DEF TaskInv
<1>3. ASSUME NEW p \in Process, DirectoryStep(p) \/ TypedocWrites(p) PROVE TaskInv'
  <2>1. UNCHANGED <<state, promise, group, exit>>
    BY <1>3, DirectoryStepFacts DEF vars, taskVars, TypedocWrites
  <2> QED
    BY <2>1 DEF TaskInv
<1>4. ASSUME NEW p \in Process, TaskStep(p) PROVE TaskInv'
  <2>1. UNCHANGED state
    BY <1>4, TaskStepFacts
  <2>2. CASE Launch(p)
    BY <1>0, <2>1, <2>2 DEF Launch, Task!StartTask, Task!StartFails, TaskInv, Task!TaskTypeOK
  <2>3. CASE Supervise(p)
    <3>1. ASSUME Task!KillGroup(p), promise'[p] = "off" => promise[p] = "off",
                 promise' \in [Process -> {"off", "running", "flushing", "settled"}],
                 \A q \in Process \ {p} : promise'[q] = promise[q]
          PROVE  TaskInv'
      BY <1>0, <2>1, <3>1 DEF Task!KillGroup, TaskInv, Task!TaskTypeOK
    <3>2. ASSUME UNCHANGED <<promise, group, exit>> PROVE TaskInv'
      BY <2>1, <3>2 DEF TaskInv
    <3>3. CASE Task!Stop(p) \/ Task!TimeLimit(p) \/ Task!OomKill(p)
      BY <1>0, <3>1, <3>2, <3>3 DEF Task!Stop, Task!TimeLimit, Task!StopGroup, Task!OomKill, Task!TaskTypeOK
    <3>4. CASE Task!Escalate(p) \/ Task!OverLimit(p) \/ Task!Finish(p)
      BY <1>0, <3>1, <3>4 DEF Task!Escalate, Task!OverLimit, Task!Finish, Task!TaskTypeOK
    <3>5. CASE Task!Flush(p)
      BY <1>0, <2>1, <3>5 DEF Task!Flush, TaskInv, Task!TaskTypeOK
    <3> QED
      BY <2>3, <3>3, <3>4, <3>5 DEF Supervise
  <2>4. CASE TypedocEnds(p)
    BY <1>0, <2>1, <2>4 DEF TypedocEnds, Task!LeaderExits, Task!OrphansEnd, TaskInv, Task!TaskTypeOK
  <2> QED
    BY <1>4, <2>2, <2>3, <2>4 DEF TaskStep
<1>5. ASSUME NEW p \in Process, BuilderEnds(p) PROVE TaskInv'
  <2>1. /\ \A q \in Process :
              state'[HeavyOf[q]] = IF q = p THEN "ended" ELSE state[HeavyOf[q]]
        /\ promise' = [promise EXCEPT ![p] = "off"]
        /\ UNCHANGED <<group, exit>>
    BY <1>0, <1>5, BuilderEndsFacts DEF BuilderEnds, Task!RunnerEnds
  <2> QED
    BY <1>0, <2>1 DEF TaskInv, TypeOK, Task!TaskTypeOK
<1> QED
  BY <1>1, <1>2, <1>3, <1>4, <1>5, DocCases

-----------------------------------------------------------------------------
(* What is on the site, and how its TypeDoc ended *)

\* A TypeDoc that completed is not started again, stopped or killed.
LEMMA SealedForGood ==
    ASSUME CycleInv, TaskInv, DocTypeOK, SocketInv, HeavyInv, [DocNext]_docVars,
           NEW q \in Process, Sealed(q)
    PROVE  Sealed(q)'
<1>0. DirectoryTypes /\ Task!TaskTypeOK /\ TypeOK
  BY DocTypeParts
<1> USE DEF Sealed
<1>1. CASE UNCHANGED docVars
  BY <1>1 DEF docVars
<1>2. ASSUME NEW p \in Process, LockStep(p) \/ DirectoryStep(p) \/ TypedocWrites(p)
      PROVE  Sealed(q)'
  BY <1>2, LockStepFacts, DirectoryStepFacts DEF taskVars, TypedocWrites
<1>3. ASSUME NEW p \in Process, Launch(p) PROVE Sealed(q)'
  <2>1. promise[p] = "off" /\ state[HeavyOf[p]] = "holding"
    BY <1>3 DEF Launch, Task!StartTask, Task!StartFails
  <2>2. p # q
    BY <2>1 DEF TaskInv
  <2> QED
    BY <1>0, <1>3, <2>2 DEF Launch, Task!StartTask, Task!StartFails, Task!TaskTypeOK
<1>4. ASSUME NEW p \in Process, Supervise(p) PROVE Sealed(q)'
  <2>1. promise[p] \in {"running", "flushing"}
    BY <1>4 DEF Supervise, Task!Stop, Task!TimeLimit, Task!Escalate, Task!OverLimit,
       Task!OomKill, Task!Finish, Task!Flush
  <2>2. p # q
    BY <2>1
  <2>3. /\ promise'[q] = promise[q]
        /\ exit'[q] = exit[q]
        /\ marks'[q] = marks[q]
    BY <1>0, <1>4, <2>2 DEF Supervise, Task!Stop, Task!TimeLimit, Task!StopGroup, Task!KillGroup,
       Task!Escalate, Task!OverLimit, Task!OomKill, Task!Finish, Task!Flush, Task!TaskTypeOK
  <2> QED
    BY <2>3
<1>5. ASSUME NEW p \in Process, TypedocEnds(p) PROVE Sealed(q)'
  <2>1. UNCHANGED <<promise, marks>>
    BY <1>5 DEF TypedocEnds, Task!LeaderExits, Task!OrphansEnd
  <2>2. exit'[q] = exit[q]
    BY <1>0, <1>5 DEF TypedocEnds, Task!LeaderExits, Task!OrphansEnd, TaskInv, Task!TaskTypeOK
  <2> QED
    BY <2>1, <2>2
<1>6. ASSUME NEW p \in Process, BuilderEnds(p) PROVE Sealed(q)'
  BY <1>0, <1>6 DEF BuilderEnds, Task!RunnerEnds, Task!TaskTypeOK
<1> QED
  BY <1>1, <1>2, <1>3, <1>4, <1>5, <1>6, DocCases DEF TaskStep

\* An outcome that reads as completed is that of an exit with code 0 and no mark.
LEMMA ReasonCompleted ==
    ASSUME Task!TaskTypeOK, NEW p \in Process, promise[p] = "settled", Task!Reason(p) = "completed"
    PROVE  Sealed(p)
<1>1. marks[p] \subseteq {"limit", "timeout", "cancelled"}
  BY DEF Task!TaskTypeOK, Task!Causes
<1>2. "limit" \notin marks[p]
  BY DEF Task!Reason
<1>3. "timeout" \notin marks[p]
  BY <1>2 DEF Task!Reason
<1>4. marks[p] # {"cancelled"}
  BY <1>2, <1>3 DEF Task!Reason
<1>5. exit[p] = "zero"
  BY <1>2, <1>3, <1>4 DEF Task!Reason
<1>6. marks[p] = {}
  BY <1>1, <1>2, <1>3, <1>4
<1> QED
  BY <1>5, <1>6 DEF Sealed

LEMMA SealedStep ==
    ASSUME CycleInv, TaskInv, SealedInv, DocTypeOK, SocketInv, HeavyInv, [DocNext]_docVars
    PROVE  SealedInv'
<1>0. DirectoryTypes /\ Task!TaskTypeOK /\ TypeOK
  BY DocTypeParts
<1>c. /\ VersionOf \in [Process -> Version]
      /\ "none" \notin Process /\ "part" \notin Process /\ "first" \notin Process
  BY TypedocAssumption, HostLockAssumption DEF TypedocAssumption, HostLockAssumption
<1>s. \A q \in Process : Sealed(q) => Sealed(q)'
  BY SealedForGood
<1>k. ASSUME \A q \in Process : staging'[q] \in {staging[q], "none", "part", q},
             \A q \in Process : cycle'[q] \in {"backup", "place"} =>
                 cycle[q] \in {"backup", "place"} \/ Sealed(q),
             \A v \in Version, q \in Process : site'[v] = q => Sealed(q),
             \A r, q \in Process : backup'[r] = q => Sealed(q)
      PROVE  SealedInv'
  BY <1>k, <1>s DEF SealedInv
<1>1. ASSUME UNCHANGED pubVars PROVE SealedInv'
  BY <1>1, <1>k DEF pubVars, SealedInv
<1>2. ASSUME NEW p \in Process, LockStep(p) PROVE SealedInv'
  BY <1>0, <1>k, <1>2, LockStepFacts DEF dirVars, SealedInv, DirectoryTypes
<1>t. ASSUME NEW p \in Process, TaskStep(p) PROVE SealedInv'
  BY <1>1, <1>t, TaskStepFacts
<1>3. ASSUME NEW p \in Process, Repair(p) PROVE SealedInv'
  <2>1. CASE Pub!BeginRecovery(p)
    BY <1>0, <1>k, <2>1 DEF Pub!BeginRecovery, Pub!Goes, SealedInv, DirectoryTypes
  <2>2. ASSUME NEW q \in Process, Pub!Restore(p, q) PROVE SealedInv'
    BY <1>0, <1>c, <1>k, <2>2 DEF Pub!Restore, SealedInv, DirectoryTypes
  <2>3. ASSUME NEW q \in Process, Pub!DropLeftover(p, q) PROVE SealedInv'
    BY <1>0, <1>c, <1>k, <2>3 DEF Pub!DropLeftover, SealedInv, DirectoryTypes
  <2> QED
    BY <1>3, <2>1, <2>2, <2>3 DEF Repair
<1>4. ASSUME NEW p \in Process, EndRepair(p) \/ NotAdmitted(p) PROVE SealedInv'
  BY <1>0, <1>k, <1>4 DEF EndRepair, NotAdmitted, Pub!Recovered, Pub!Built, Pub!Goes,
     SealedInv, DirectoryTypes
<1>5. ASSUME NEW p \in Process, Judge(p) PROVE SealedInv'
  <2>1. Task!Reason(p) = "completed" => Sealed(p)
    BY <1>0, <1>5, ReasonCompleted DEF Judge
  <2> QED
    BY <1>0, <1>k, <1>5, <2>1 DEF Judge, Pub!Built, Pub!Goes, SealedInv, DirectoryTypes
<1>6. ASSUME NEW p \in Process, Publish(p) PROVE SealedInv'
  <2>1. CASE Pub!Backup(p)
    BY <1>0, <1>c, <1>k, <2>1 DEF Pub!Backup, Pub!Goes, SealedInv, DirectoryTypes
  <2>2. CASE Pub!Place(p)
    BY <1>0, <1>c, <1>k, <2>2 DEF Pub!Place, Pub!Goes, SealedInv, DirectoryTypes
  <2>3. CASE Pub!PlaceFails(p) \/ Pub!Throw(p)
    BY <1>0, <1>k, <2>3 DEF Pub!PlaceFails, Pub!Throw, Pub!Goes, SealedInv, DirectoryTypes
  <2>4. CASE Pub!Undo(p)
    BY <1>0, <1>c, <1>k, <2>4 DEF Pub!Undo, Pub!Goes, SealedInv, DirectoryTypes
  <2>5. CASE Pub!DropBackup(p)
    BY <1>0, <1>c, <1>k, <2>5 DEF Pub!DropBackup, Pub!Goes, SealedInv, DirectoryTypes
  <2>6. CASE Pub!Clean(p)
    BY <1>0, <1>k, <2>6 DEF Pub!Clean, Pub!Goes, SealedInv, DirectoryTypes
  <2> QED
    BY <1>6, <2>1, <2>2, <2>3, <2>4, <2>5, <2>6 DEF Publish
<1>7. ASSUME NEW p \in Process, DropVersions(p) PROVE SealedInv'
  BY <1>0, <1>c, <1>k, <1>7 DEF DropVersions, Pub!Goes, SealedInv, DirectoryTypes
<1>8. ASSUME NEW p \in Process, TypedocWrites(p) PROVE SealedInv'
  BY <1>0, <1>k, <1>8 DEF TypedocWrites, Pub!Write, SealedInv, DirectoryTypes
<1>9. ASSUME NEW p \in Process, BuilderEnds(p) PROVE SealedInv'
  BY <1>0, <1>k, <1>9 DEF BuilderEnds, Pub!Goes, SealedInv, DirectoryTypes
<1>10. CASE UNCHANGED docVars
  BY <1>1, <1>10 DEF docVars, pubVars
<1> QED
  BY <1>2, <1>t, <1>3, <1>4, <1>5, <1>6, <1>7, <1>8, <1>9, <1>10, DocCases DEF DirectoryStep

-----------------------------------------------------------------------------
(* The site, while builders exclude each other *)

OneNamespace == \A h, k \in Handle : NetOf[h] = NetOf[k]

\* In one namespace, whoever holds the profile's lock is the only one whose cycle is
\* under way.
LEMMA AloneInRoot ==
    ASSUME OneNamespace, SocketInv, HeavyInv, CycleInv,
           NEW p \in Process, NEW q \in Process, state[HeavyOf[p]] = "holding", Active(q)
    PROVE  q = p
<1>1. state[HeavyOf[q]] = "holding" /\ HeavyOf[p] \in Handle /\ HeavyOf[q] \in Handle
  BY HandleFacts DEF CycleInv
<1>2. slot[HeavyOf[p]] \in Slot /\ slot[HeavyOf[q]] \in Slot
  BY <1>1 DEF SocketInv
<1>3. slot[HeavyOf[p]] = slot[HeavyOf[q]] /\ NetOf[HeavyOf[p]] = NetOf[HeavyOf[q]]
  BY <1>1, <1>2, HeavySlot DEF HeavyInv, OneNamespace
<1>4. HeavyOf[p] = HeavyOf[q]
  BY <1>1, <1>3 DEF SocketInv, Bound
<1> QED
  BY <1>4, HandleFacts

\* What KeptInv says of p in its cycle.
Kept(p) ==
    /\ cycle[p] \in {"build", "backup"} =>
          /\ \A q \in Process : backup[q] = "none"
          /\ SiteIntact
    /\ cycle[p] \in {"backup", "place"} => staging[p] = p
    /\ cycle[p] \in {"place", "undo"} => site[VersionOf[p]] = "none"
    /\ cycle[p] = "undo" => backup[p] # "none"
    /\ cycle[p] \in {"drop", "published"} => latest.version = VersionOf[p] /\ SiteIntact

LEMMA RepairKeeps ==
    ASSUME DirectoryTypes, KeptInv, NEW p \in Process, Repair(p) \/ EndRepair(p)
    PROVE  SiteKept' /\ Kept(p)'
<1> USE DEF Pub!Goes, Pub!Whole, SiteIntact
<1>c. VersionOf \in [Process -> Version] /\ "none" \notin Version
  BY TypedocAssumption DEF TypedocAssumption
<1>1. CASE Pub!BeginRecovery(p)
  BY <1>1 DEF Pub!BeginRecovery, KeptInv, SiteKept, Kept, DirectoryTypes
<1>2. ASSUME NEW q \in Process, Pub!Restore(p, q) PROVE SiteKept' /\ Kept(p)'
  <2>1. /\ cycle'[p] = "recover"
        /\ backup[q] # "none" /\ site[VersionOf[q]] = "none"
        /\ site' = [site EXCEPT ![VersionOf[q]] = backup[q]]
        /\ backup' = [backup EXCEPT ![q] = "none"]
        /\ latest' = latest
    BY <1>2 DEF Pub!Restore
  <2>2. CASE latest.version = VersionOf[q]
    <3>1. latest # Pub!Nothing /\ site'[latest.version] = backup[q]
      <4>1. VersionOf[q] \in Version
        BY <1>c
      <4>2. latest # Pub!Nothing
        BY <1>c, <2>2, <4>1 DEF Pub!Nothing
      <4> QED
        BY <2>1, <2>2, <4>1, <4>2 DEF DirectoryTypes
    <3>2. Pub!Whole(latest.by) /\ backup[q] = latest.by
      BY <2>1, <2>2, <3>1 DEF KeptInv, SiteKept
    <3> QED
      BY <2>1, <3>1, <3>2 DEF SiteKept, Kept
  <2>3. CASE latest.version # VersionOf[q]
    <3>1. latest # Pub!Nothing => site'[latest.version] = site[latest.version]
      BY <2>1, <2>3 DEF DirectoryTypes
    <3>2. \A r \in Process : VersionOf[r] = latest.version => backup'[r] = backup[r]
      BY <2>1, <2>3 DEF DirectoryTypes
    <3> QED
      BY <2>1, <3>1, <3>2 DEF KeptInv, SiteKept, Kept
  <2> QED
    BY <2>2, <2>3
<1>3. ASSUME NEW q \in Process, Pub!DropLeftover(p, q) PROVE SiteKept' /\ Kept(p)'
  <2>1. cycle'[p] = "recover" /\ site' = site /\ latest' = latest
    BY <1>3 DEF Pub!DropLeftover
  <2>2. \/ UNCHANGED backup
        \/ site[VersionOf[q]] # "none" /\ \A r \in Process \ {q} : backup'[r] = backup[r]
    BY <1>3 DEF Pub!DropLeftover, Pub!Obsolete, DirectoryTypes
  <2> QED
    BY <2>1, <2>2 DEF KeptInv, SiteKept, Kept
<1>4. CASE EndRepair(p)
  BY <1>4 DEF EndRepair, Pub!Recovered, KeptInv, SiteKept, Kept, DirectoryTypes
<1> QED
  BY <1>1, <1>2, <1>3, <1>4 DEF Repair

LEMMA PublishKeeps ==
    ASSUME DirectoryTypes, KeptInv, NEW p \in Process, Publish(p)
    PROVE  SiteKept' /\ Kept(p)'
<1> USE DEF Pub!Goes, SiteIntact
<1>c. /\ VersionOf \in [Process -> Version] /\ "none" \notin Version
      /\ "none" \notin Process /\ "part" \notin Process
  BY TypedocAssumption, HostLockAssumption DEF TypedocAssumption, HostLockAssumption
<1>1. CASE Pub!Backup(p)
  <2>1. /\ cycle[p] = "backup" /\ cycle'[p] = "place"
        /\ backup' = [backup EXCEPT ![p] = site[VersionOf[p]]]
        /\ site' = [site EXCEPT ![VersionOf[p]] = "none"]
        /\ UNCHANGED <<staging, latest>>
    BY <1>1 DEF Pub!Backup, DirectoryTypes
  <2>2. /\ \A q \in Process : backup[q] = "none"
        /\ SiteIntact
        /\ staging[p] = p
    BY <2>1 DEF KeptInv
  <2>3. Kept(p)'
    BY <1>c, <2>1, <2>2 DEF Kept, DirectoryTypes
  <2>4. ASSUME latest # Pub!Nothing, latest.version = VersionOf[p] PROVE SiteKept'
    <3>1. site'[latest.version] = "none" /\ backup'[p] = latest.by
      BY <1>c, <2>1, <2>2, <2>4 DEF DirectoryTypes
    <3>2. \A q \in Process : backup'[q] # "none" => q = p
      BY <2>1, <2>2 DEF DirectoryTypes
    <3>3. Pub!Whole(latest.by)
      BY <2>4 DEF KeptInv, SiteKept
    <3> QED
      BY <2>1, <2>4, <3>1, <3>2, <3>3 DEF SiteKept, Pub!Whole
  <2>5. ASSUME latest # Pub!Nothing, latest.version # VersionOf[p] PROVE SiteKept'
    <3>1. site'[latest.version] = latest.by
      BY <2>1, <2>2, <2>5 DEF DirectoryTypes
    <3>2. Pub!Whole(latest.by)
      BY <2>5 DEF KeptInv, SiteKept
    <3> QED
      BY <2>1, <3>1, <3>2 DEF SiteKept
  <2> QED
    BY <2>1, <2>3, <2>4, <2>5 DEF SiteKept
<1>2. CASE Pub!Place(p)
  <2>1. /\ cycle[p] = "place" /\ cycle'[p] = "drop"
        /\ site'[VersionOf[p]] = staging[p]
        /\ latest' = [version |-> VersionOf[p], by |-> staging[p]]
    BY <1>c, <1>2 DEF Pub!Place, DirectoryTypes
  <2>2. staging[p] = p
    BY <2>1 DEF KeptInv
  <2> QED
    BY <1>c, <2>1, <2>2 DEF SiteKept, Kept, Pub!Whole
<1>3. CASE Pub!PlaceFails(p)
  BY <1>3 DEF Pub!PlaceFails, KeptInv, SiteKept, Kept, DirectoryTypes
<1>4. CASE Pub!Undo(p)
  <2>1. /\ cycle[p] = "undo" /\ cycle'[p] = "clean"
        /\ site' = [site EXCEPT ![VersionOf[p]] = backup[p]]
        /\ backup' = [backup EXCEPT ![p] = "none"]
        /\ latest' = latest
    BY <1>4 DEF Pub!Undo, DirectoryTypes
  <2>2. site[VersionOf[p]] = "none" /\ backup[p] # "none"
    BY <2>1 DEF KeptInv
  <2>3. ASSUME latest # Pub!Nothing, latest.version = VersionOf[p] PROVE SiteKept'
    <3>1. Pub!Whole(latest.by) /\ backup[p] = latest.by
      BY <2>2, <2>3 DEF KeptInv, SiteKept, Pub!Whole
    <3>2. site'[latest.version] = latest.by
      BY <1>c, <2>1, <2>3, <3>1 DEF DirectoryTypes
    <3> QED
      BY <2>1, <3>1, <3>2 DEF SiteKept
  <2>4. ASSUME latest # Pub!Nothing, latest.version # VersionOf[p] PROVE SiteKept'
    <3>1. site'[latest.version] = site[latest.version]
      BY <2>1, <2>4 DEF DirectoryTypes
    <3>2. \A q \in Process : VersionOf[q] = latest.version => backup'[q] = backup[q]
      BY <2>1, <2>4 DEF DirectoryTypes
    <3> QED
      BY <2>1, <3>1, <3>2 DEF KeptInv, SiteKept
  <2> QED
    BY <2>1, <2>3, <2>4 DEF SiteKept, Kept
<1>5. CASE Pub!DropBackup(p)
  <2>1. /\ cycle[p] = "drop" /\ cycle'[p] \in {"drop", "published"}
        /\ UNCHANGED <<site, latest>>
    BY <1>5 DEF Pub!DropBackup, DirectoryTypes
  <2> QED
    BY <2>1 DEF KeptInv, SiteKept, Kept
<1>6. CASE Pub!Throw(p)
  BY <1>6 DEF Pub!Throw, KeptInv, SiteKept, Kept, DirectoryTypes
<1>7. CASE Pub!Clean(p)
  BY <1>7 DEF Pub!Clean, KeptInv, SiteKept, Kept, DirectoryTypes
<1> QED
  BY <1>1, <1>2, <1>3, <1>4, <1>5, <1>6, <1>7 DEF Publish

LEMMA DirectoryStepKeeps ==
    ASSUME DirectoryTypes, KeptInv, NEW p \in Process, DirectoryStep(p)
    PROVE  SiteKept' /\ Kept(p)'
<1> USE DEF SiteIntact
<1>1. CASE NotAdmitted(p) \/ Judge(p)
  BY <1>1 DEF NotAdmitted, Judge, Pub!Built, Pub!Goes, KeptInv, SiteKept, Kept, DirectoryTypes
<1>2. CASE DropVersions(p)
  <2>1. /\ cycle[p] = "published" /\ cycle'[p] \in {"published", "clean"}
        /\ site'[VersionOf[p]] = site[VersionOf[p]]
        /\ latest' = latest
    BY <1>2, TypedocAssumption DEF DropVersions, Pub!Goes, DirectoryTypes, TypedocAssumption
  <2>2. /\ latest.version = VersionOf[p] /\ SiteIntact
        /\ latest # Pub!Nothing => Pub!Whole(latest.by)
    BY <2>1 DEF KeptInv, SiteKept
  <2> QED
    BY <2>1, <2>2 DEF SiteKept, Kept
<1> QED
  BY <1>1, <1>2, RepairKeeps, PublishKeeps DEF DirectoryStep

LEMMA KeptStep ==
    ASSUME OneNamespace, CycleInv, TaskInv, KeptInv, DocTypeOK, SocketInv, HeavyInv,
           [DocNext]_docVars
    PROVE  KeptInv'
<1>0. DirectoryTypes
  BY DocTypeParts
<1>1. ASSUME UNCHANGED pubVars PROVE KeptInv'
  BY <1>1 DEF pubVars, KeptInv, SiteKept, SiteIntact
<1>2. ASSUME NEW p \in Process, LockStep(p) PROVE KeptInv'
  <2>1. \A q \in Process : cycle'[q] = cycle[q] \/ cycle'[q] = "done"
    BY <1>0, <1>2, LockStepFacts DEF DirectoryTypes
  <2>2. UNCHANGED <<site, staging, backup, latest>>
    BY <1>2, LockStepFacts DEF dirVars
  <2> QED
    BY <2>1, <2>2 DEF KeptInv, SiteKept, SiteIntact
<1>t. ASSUME NEW p \in Process, TaskStep(p) PROVE KeptInv'
  BY <1>1, <1>t, TaskStepFacts
<1>3. ASSUME NEW p \in Process, DirectoryStep(p) PROVE KeptInv'
  <2>1. state[HeavyOf[p]] = "holding"
    BY <1>3, DirectoryStepFacts
  <2>2. \A q \in Process \ {p} : cycle'[q] = cycle[q]
    BY <1>0, <1>3 DEF DirectoryStep, Repair, EndRepair, NotAdmitted, Judge, Publish, DropVersions,
       Pub!BeginRecovery, Pub!Restore, Pub!DropLeftover, Pub!Recovered, Pub!Built, Pub!Backup,
       Pub!Place, Pub!PlaceFails, Pub!Undo, Pub!DropBackup, Pub!Throw, Pub!Clean, Pub!Goes,
       DirectoryTypes
  <2>3. \A q \in Process \ {p} : cycle[q] \in {"off", "done"}
    BY <2>1, AloneInRoot DEF Active
  <2>4. \A q \in Process \ {p} : Kept(q)'
    BY <2>2, <2>3 DEF Kept
  <2>5. SiteKept' /\ Kept(p)'
    BY <1>0, <1>3, DirectoryStepKeeps
  <2> QED
    BY <2>4, <2>5 DEF KeptInv, Kept
<1>4. ASSUME NEW p \in Process, TypedocWrites(p) PROVE KeptInv'
  <2>1. Task!Lives(p) /\ UNCHANGED <<cycle, site, backup, latest>>
    BY <1>4 DEF TypedocWrites, Pub!Write
  <2>2. \A q \in Process : q # p => staging'[q] = staging[q]
    BY <1>0, <1>4 DEF TypedocWrites, Pub!Write, DirectoryTypes
  <2>3. cycle[p] \notin {"backup", "place"}
    BY <2>1 DEF CycleInv, TaskInv
  <2> QED
    BY <2>1, <2>2, <2>3 DEF KeptInv, SiteKept, SiteIntact
<1>5. ASSUME NEW p \in Process, BuilderEnds(p) PROVE KeptInv'
  <2>1. /\ cycle' = [cycle EXCEPT ![p] = "off"]
        /\ UNCHANGED <<site, staging, backup, latest>>
    BY <1>5 DEF BuilderEnds, Pub!Goes
  <2>2. \A q \in Process : cycle'[q] = cycle[q] \/ cycle'[q] = "off"
    BY <1>0, <2>1 DEF DirectoryTypes
  <2> QED
    BY <2>1, <2>2 DEF KeptInv, SiteKept, SiteIntact
<1>6. CASE UNCHANGED docVars
  BY <1>1, <1>6 DEF docVars, pubVars
<1> QED
  BY <1>2, <1>t, <1>3, <1>4, <1>5, <1>6, DocCases

-----------------------------------------------------------------------------
(* The theorems *)

DocInv == SocketInv /\ HeavyInv /\ DocTypeOK /\ CycleInv /\ TaskInv /\ SealedInv

LEMMA DocInitInv == DocInit => DocInv /\ SiteKept /\ KeptInv
<1> SUFFICES ASSUME DocInit PROVE DocInv /\ KeptInv
  BY DEF KeptInv
<1> USE DEF DocInit, Task!TaskInit, Pub!PubInit
<1>c. /\ "none" \notin Version /\ "none" \notin Process
      /\ "first" \notin Process /\ "part" \notin Process
  BY TypedocAssumption, HostLockAssumption DEF TypedocAssumption, HostLockAssumption
<1>1. SocketInv /\ HeavyInv
  BY SocketInit, HandleFacts DEF Init, HeavyInv
<1>2. Task!TaskTypeOK
  BY DEF Task!TaskTypeOK
<1>3. DirectoryTypes
  BY DEF DirectoryTypes, Pub!Cycles, Pub!Content, Pub!Publications
<1>4. DocTypeOK
  BY <1>1, <1>2, <1>3, DocTypeParts DEF SocketInv
<1>5. CycleInv /\ TaskInv
  BY HandleFacts DEF Init, CycleInv, TaskInv, Active, Task!Lives
<1>6. SealedInv
  BY <1>c DEF SealedInv
<1>7. KeptInv
  BY <1>c DEF KeptInv, SiteKept, Pub!Whole, Pub!Nothing
<1> QED
  BY <1>1, <1>4, <1>5, <1>6, <1>7 DEF DocInv

LEMMA DocInvStep == DocInv /\ [DocNext]_docVars => DocInv'
<1> SUFFICES ASSUME DocInv, [DocNext]_docVars PROVE DocInv'
  OBVIOUS
<1>1. SocketInv'
  BY DocStepIsHostStep, SocketStep DEF DocInv
<1>h. HeavyInv'
  <2>1. ASSUME NEW p \in Process, LockStep(p) PROVE HeavyInv'
    BY <2>1, LockStepFacts DEF DocInv
  <2>2. ASSUME UNCHANGED slot PROVE HeavyInv'
    BY <2>2 DEF DocInv, HeavyInv
  <2>3. ASSUME NEW p \in Process,
               DirectoryStep(p) \/ TaskStep(p) \/ TypedocWrites(p) \/ BuilderEnds(p)
        PROVE  UNCHANGED slot
    BY <2>3, DirectoryStepFacts, TaskStepFacts
    DEF vars, TypedocWrites, BuilderEnds, Crash
  <2> QED
    BY <2>1, <2>2, <2>3, DocCases DEF docVars
<1>2. DocTypeOK'
  <2>1. TypeOK'
    BY <1>1 DEF SocketInv
  <2>2. Task!TaskTypeOK'
    BY TaskTypesStep, DocTypeParts DEF DocInv
  <2>3. DirectoryTypes'
    BY DirectoryTypesStep, DocTypeParts DEF DocInv
  <2> QED
    BY <2>1, <2>2, <2>3 DEF DocTypeOK, DirectoryTypes
<1> QED
  BY <1>1, <1>h, <1>2, CycleStep, TaskStepKeeps, SealedStep DEF DocInv

\* DocInv holds in every reachable state.
THEOREM DocInvariant == DocSpec => []DocInv
<1>1. DocInit => DocInv
  BY DocInitInv
<1> QED
  BY <1>1, DocInvStep, PTL DEF DocSpec

\* Every variable of the composed build keeps its type.
THEOREM DocTypes == DocSpec => []DocTypeOK
<1>1. DocInv => DocTypeOK
  BY DEF DocInv
<1> QED
  BY <1>1, DocInvariant, PTL

\* No builder comes to release its lock while a process of its TypeDoc runs:
\* runManagedProcess settles only once the group is gone.
THEOREM ReleasesAfterWorkload == DocSpec => []ReleasedAfterWorkload
<1>1. DocInv => ReleasedAfterWorkload
  <2> SUFFICES ASSUME DocInv, NEW p \in Process, cycle[p] = "done"
               PROVE  ~Task!Lives(p)
    BY DEF ReleasedAfterWorkload
  <2>1. promise[p] \in {"off", "settled"} /\ state[HeavyOf[p]] # "ended"
    BY DEF DocInv, CycleInv
  <2> QED
    BY <2>1 DEF DocInv, TaskInv, Task!Lives
<1> QED
  BY <1>1, DocInvariant, PTL

\* Whatever the locks, a builder publishes only what a TypeDoc wrote that exited
\* with code 0 and that no stop, limit or time-out reached before its exit was
\* known; and none can reach it later.
THEOREM PublishesCompleted == DocSpec => []OnlyCompletedPublished
<1>1. DocInv => OnlyCompletedPublished
  BY DEF DocInv, SealedInv, Sealed, OnlyCompletedPublished
<1> QED
  BY <1>1, DocInvariant, PTL

\* The site survives every builder: what was published last is in its place, or in
\* each backup of it, at whatever step a builder fails or ends; so no recovery and
\* no rollback ever brings an earlier site back.
THEOREM SiteSurvives ==
    ASSUME OneNamespace
    PROVE  DocSpec => []SiteKept
<1>1. DocInit => KeptInv
  BY DocInitInv
<1>2. DocInv /\ KeptInv /\ [DocNext]_docVars => KeptInv'
  BY KeptStep DEF DocInv
<1>3. KeptInv => SiteKept
  BY DEF KeptInv
<1> QED
  BY <1>1, <1>2, <1>3, DocInvariant, PTL DEF DocSpec

\* A builder that starts TypeDoc has repaired the site: what was published last is
\* in its place, and no other builder is between two renames.
THEOREM BuildsOnARepairedSite ==
    ASSUME OneNamespace
    PROVE  DocSpec => []BuildsBesideSite
<1>1. DocInit => KeptInv
  BY DocInitInv
<1>2. DocInv /\ KeptInv /\ [DocNext]_docVars => KeptInv'
  BY KeptStep DEF DocInv
<1>3. KeptInv => BuildsBesideSite
  BY DEF KeptInv, SiteIntact, BuildsBesideSite
<1> QED
  BY <1>1, <1>2, <1>3, DocInvariant, PTL DEF DocSpec

-----------------------------------------------------------------------------
(* The staging directory of a TypeDoc that outlives its builder *)

LEMMA StagingStep ==
    ASSUME OneNamespace, DocInv, WorkloadInv, [DocNext]_docVars,
           NEW q \in Process, Task!Lives(q), staging[q] # "none",
           promise[q] # "off" \/ Recorded(HeavyOf[q])
    PROVE  staging'[q] # "none"
<1>0. DirectoryTypes /\ "none" \notin Process
  BY DocTypeParts, TypedocAssumption DEF DocInv, TypedocAssumption
\* No cycle of q itself can be at a step that removes the directory.
<1>1. cycle[q] \notin {"recover", "place", "clean"}
  <2>1. promise[q] \notin {"flushing", "settled"}
    BY DEF DocInv, TaskInv
  <2>2. promise[q] = "off" => state[HeavyOf[q]] = "ended"
    BY DEF DocInv, TaskInv, Task!Lives
  <2> QED
    BY <2>1, <2>2 DEF DocInv, CycleInv
\* Nobody else repairs: the builder of q holds the lock, or its record does.
<1>2. ASSUME NEW p \in Process, cycle[p] = "recover" PROVE p = q
  <2>1. state[HeavyOf[p]] = "holding" /\ HeavyOf[p] \in Handle /\ HeavyOf[q] \in Handle
    BY <1>2, HandleFacts DEF DocInv, CycleInv, Active
  <2>2. CASE promise[q] # "off"
    <3>1. promise[q] \in {"running", "flushing"}
      BY <2>2 DEF DocInv, DocTypeOK, Task!TaskTypeOK, TaskInv
    <3>2. Active(q)
      BY <1>0, <3>1, TaskMovesInBuild DEF DocInv, Active
    <3> QED
      BY <2>1, <3>2, AloneInRoot DEF DocInv
  <2>3. CASE Recorded(HeavyOf[q])
    <3>1. slot[HeavyOf[q]] \in Slot
      BY <2>3 DEF Recorded, OwnRecord, Record, DocInv, SocketInv, TypeOK
    <3>2. slot[HeavyOf[p]] \in Slot
      BY <2>1 DEF DocInv, SocketInv
    <3>3. SameSlot(HeavyOf[q], HeavyOf[p])
      BY <2>1, <3>1, <3>2, HeavySlot DEF DocInv, HeavyInv, OneNamespace, SameSlot
    <3>4. HeavyOf[q] = HeavyOf[p]
      BY <2>1, <2>3, <3>3 DEF WorkloadInv, Past
    <3> QED
      BY <3>4, HandleFacts
  <2> QED
    BY <2>2, <2>3
<1>3. CASE UNCHANGED docVars
  BY <1>3 DEF docVars
<1>4. ASSUME NEW p \in Process, LockStep(p) \/ TaskStep(p) PROVE staging'[q] # "none"
  BY <1>4, LockStepFacts, TaskStepFacts DEF pubVars, dirVars, DocInv
<1>5. ASSUME NEW p \in Process, Repair(p) \/ EndRepair(p) PROVE staging'[q] # "none"
  BY <1>1, <1>2, <1>5 DEF Repair, EndRepair, Pub!BeginRecovery, Pub!Restore, Pub!DropLeftover,
     Pub!Recovered
<1>6. ASSUME NEW p \in Process, NotAdmitted(p) \/ Judge(p) \/ DropVersions(p) \/ BuilderEnds(p)
      PROVE  staging'[q] # "none"
  BY <1>6 DEF NotAdmitted, Judge, DropVersions, BuilderEnds, Pub!Built
<1>7. ASSUME NEW p \in Process, Publish(p) PROVE staging'[q] # "none"
  BY <1>0, <1>1, <1>7 DEF Publish, Pub!Backup, Pub!Place, Pub!PlaceFails, Pub!Undo,
     Pub!DropBackup, Pub!Throw, Pub!Clean, DirectoryTypes
<1>8. ASSUME NEW p \in Process, TypedocWrites(p) PROVE staging'[q] # "none"
  BY <1>0, <1>8 DEF TypedocWrites, Pub!Write, DirectoryTypes
<1> QED
  BY <1>3, <1>4, <1>5, <1>6, <1>7, <1>8, DocCases DEF DirectoryStep

\* Nobody takes the staging directory from under a TypeDoc whose builder lives, or
\* that the record of the profile's lock names, whatever other locks share the
\* directory of the records: no other builder gets past that lock.
THEOREM StagingKeptForWorkload ==
    ASSUME OneNamespace
    PROVE  DocSpec => LiveStagingKept
<1>1. DocInit => WorkloadInv
  BY DEF DocInit, Init, WorkloadInv, Recorded
<1>2. DocInv /\ WorkloadInv /\ [DocNext]_docVars => WorkloadInv'
  BY WorkloadStep, DocStepIsHostStep DEF DocInv
<1>3. DocInv /\ WorkloadInv /\ [DocNext]_docVars
          => [\A q \in Process :
                  Task!Lives(q) /\ staging[q] # "none" /\ (promise[q] # "off" \/ Recorded(HeavyOf[q]))
                      => staging'[q] # "none"]_docVars
  BY StagingStep
<1> QED
  BY <1>1, <1>2, <1>3, DocInvariant, PTL DEF DocSpec, LiveStagingKept

\* In the composed build as in the locks alone, nobody holds a slot whose builder
\* lives in its namespace, or whose record names a TypeDoc that runs.
THEOREM BuildKeepsSlot == DocSpec => []SlotHeldWhileRecorded
BY BuildsUseTheLock, RecordKeepsSlot, PTL
=============================================================================
