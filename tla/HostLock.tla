------------------------------ MODULE HostLock ------------------------------
(***************************************************************************)
(* Host-wide locks (src/server/runtime/host-lock.js): at most `slots`      *)
(* holders of one name across every process on the host.                   *)
(*                                                                         *)
(* A slot is an abstract Unix socket: bind is atomic within one network    *)
(* namespace, and the kernel frees it when its holder ends.  Each holder   *)
(* also writes a record file; `attach` rewrites it with the process group  *)
(* of a workload, and the slot stays held while that group lives.  An      *)
(* acquirer that binds a slot reads the slot's records, gives the slot up  *)
(* when one is alive, and otherwise removes the record of every ended      *)
(* holder, whatever its lock, before it writes its own.                    *)
(*                                                                         *)
(* A Handle is one holder: the calls a process makes of acquireHostLock,   *)
(* one after the other.  A process, identified by pid and start time,      *)
(* never comes back once it ended.  It may have several handles, of one    *)
(* lock or of several, and starts at most one workload group, which it     *)
(* attaches to each lock it holds.                                         *)
(***************************************************************************)
EXTENDS Naturals

CONSTANTS
    Process,     \* processes of the host
    Handle,      \* their holders
    ProcessOf,   \* ProcessOf[p]: the process of handle p
    Name,        \* lock names in use
    SlotCount,   \* SlotCount[n]: the `slots` every caller of lock n passes
    Net,         \* network namespaces
    NetOf,       \* NetOf[p]: the namespace the process of p runs in
    MaxRecords   \* bound: acquisitions one handle may complete

ASSUME HostLockAssumption ==
    /\ SlotCount \in [Name -> Nat \ {0}]
    /\ ProcessOf \in [Handle -> Process]
    /\ NetOf \in [Handle -> Net]
    /\ \A p, q \in Handle : ProcessOf[p] = ProcessOf[q] => NetOf[p] = NetOf[q]
    /\ MaxRecords \in Nat
    /\ "none" \notin Handle

Slot == UNION {{<<n, i>> : i \in 1..SlotCount[n]} : n \in Name}

\* A record file: its path (slot and a fresh id, here owner and number) and its content.
Record == [slot : Slot, owner : Handle, number : Nat, attached : BOOLEAN]

NoSlot == <<"none", 0>>
States == {"idle", "bind", "bound", "judge", "scan", "sweep",
           "missed", "holding", "unrecorded", "ended"}

VARIABLES
    state,     \* state[p]: where p is in acquireHostLock or release
    slot,      \* slot[p]: the slot p tries or holds
    socket,    \* socket[net][s]: the handle bound to slot s there, or none
    records,   \* the record files in the lock directory
    seen,      \* seen[p]: copies of records p read, or those it will remove
    written,   \* written[p]: number of records p has written so far
    workload   \* workload[p]: the group its process started, "attached" once the record of p names it

vars == <<state, slot, socket, records, seen, written, workload>>

None == "none"

Running(p) == workload[p] \in {"spawned", "attached"}

\* Mutant of RecordAlive: the workload a holder left behind is forgotten.
RecordAliveByHolder(r) == state[r.owner] # "ended"

\* What recordAlive answers for the copy r of a record.
RecordAlive(r) ==
    \/ state[r.owner] # "ended"
    \/ r.attached /\ Running(r.owner)

Siblings(p) == {q \in Handle : ProcessOf[q] = ProcessOf[p]}

OwnRecord(p, attached) ==
    [slot |-> slot[p], owner |-> p, number |-> written[p], attached |-> attached]

SamePath(r, q) == r.slot = q.slot /\ r.owner = q.owner /\ r.number = q.number

Without(file) == {r \in records : ~SamePath(r, file)}

-----------------------------------------------------------------------------
Init ==
    /\ state = [p \in Handle |-> "idle"]
    /\ slot = [p \in Handle |-> NoSlot]
    /\ socket = [n \in Net |-> [s \in Slot |-> None]]
    /\ records = {}
    /\ seen = [p \in Handle |-> {}]
    /\ written = [p \in Handle |-> 0]
    /\ workload = [p \in Handle |-> "none"]

\* acquireHostLock: the first attempt starts at slot 0 of the name.
CallFor(p, n) ==
    /\ state[p] = "idle"
    /\ written[p] < MaxRecords
    /\ slot' = [slot EXCEPT ![p] = <<n, 1>>]
    /\ state' = [state EXCEPT ![p] = "bind"]
    /\ UNCHANGED <<socket, records, seen, written, workload>>

Call(p) == \E n \in Name : CallFor(p, n)

\* Mutant of NextSlot: the loop runs one slot too far.
NextSlotPastEnd(p) ==
    LET name == slot[p][1]
        index == slot[p][2]
    IN IF index <= SlotCount[name]
       THEN /\ slot' = [slot EXCEPT ![p] = <<name, index + 1>>]
            /\ state' = [state EXCEPT ![p] = "bind"]
       ELSE /\ slot' = [slot EXCEPT ![p] = <<name, 1>>]
            /\ state' = [state EXCEPT ![p] = "missed"]

\* The loop of tryAcquire goes on to the next slot, or ends with null.
NextSlot(p) ==
    LET name == slot[p][1]
        index == slot[p][2]
    IN IF index < SlotCount[name]
       THEN /\ slot' = [slot EXCEPT ![p] = <<name, index + 1>>]
            /\ state' = [state EXCEPT ![p] = "bind"]
       ELSE /\ slot' = [slot EXCEPT ![p] = <<name, 1>>]
            /\ state' = [state EXCEPT ![p] = "missed"]

\* Mutant of BindFree: a socket file is removed and bound again, held or not.
BindAnyway(p) ==
    /\ state[p] = "bind"
    /\ socket' = [socket EXCEPT ![NetOf[p]][slot[p]] = p]
    /\ state' = [state EXCEPT ![p] = "bound"]
    /\ UNCHANGED <<slot, records, seen, written, workload>>

BindFree(p) ==
    /\ state[p] = "bind"
    /\ socket[NetOf[p]][slot[p]] = None
    /\ socket' = [socket EXCEPT ![NetOf[p]][slot[p]] = p]
    /\ state' = [state EXCEPT ![p] = "bound"]
    /\ UNCHANGED <<slot, records, seen, written, workload>>

BindBusy(p) ==
    /\ state[p] = "bind"
    /\ socket[NetOf[p]][slot[p]] # None
    /\ NextSlot(p)
    /\ UNCHANGED <<socket, records, seen, written, workload>>

\* Mutant of ReadSlot: the records of the next slot are read.
ReadSlotOfNext(p) ==
    /\ state[p] = "bound"
    /\ seen' = [seen EXCEPT ![p] = {r \in records : r.slot = <<slot[p][1], slot[p][2] + 1>>}]
    /\ state' = [state EXCEPT ![p] = "judge"]
    /\ UNCHANGED <<slot, socket, records, written, workload>>

\* slotRecords: copies of the records of the bound slot.
ReadSlot(p) ==
    /\ state[p] = "bound"
    /\ seen' = [seen EXCEPT ![p] = {r \in records : r.slot = slot[p]}]
    /\ state' = [state EXCEPT ![p] = "judge"]
    /\ UNCHANGED <<slot, socket, records, written, workload>>

\* Mutant of SlotTaken: the server of the slot given up stays open.
SlotTakenKeepsServer(p) ==
    /\ state[p] = "judge"
    /\ \E r \in seen[p] : RecordAlive(r)
    /\ seen' = [seen EXCEPT ![p] = {}]
    /\ NextSlot(p)
    /\ UNCHANGED <<socket, records, written, workload>>

SlotTaken(p) ==
    /\ state[p] = "judge"
    /\ \E r \in seen[p] : RecordAlive(r)
    /\ socket' = [socket EXCEPT ![NetOf[p]][slot[p]] = None]
    /\ seen' = [seen EXCEPT ![p] = {}]
    /\ NextSlot(p)
    /\ UNCHANGED <<records, written, workload>>

\* No record of the slot is alive: recordsOf(directory, '') copies every record.
ReadAll(p) ==
    /\ state[p] = "judge"
    /\ \A r \in seen[p] : ~RecordAlive(r)
    /\ seen' = [seen EXCEPT ![p] = records]
    /\ state' = [state EXCEPT ![p] = "scan"]
    /\ UNCHANGED <<slot, socket, records, written, workload>>

\* Mutant of Filter: the records of every other lock are taken for dead.
FilterOwnSlot(p) ==
    /\ state[p] = "scan"
    /\ seen' = [seen EXCEPT ![p] = {r \in @ : r.slot # slot[p] \/ ~RecordAlive(r)}]
    /\ state' = [state EXCEPT ![p] = "sweep"]
    /\ UNCHANGED <<slot, socket, records, written, workload>>

\* The filter: the copies that are dead by now will be removed.
Filter(p) ==
    /\ state[p] = "scan"
    /\ seen' = [seen EXCEPT ![p] = {r \in @ : ~RecordAlive(r)}]
    /\ state' = [state EXCEPT ![p] = "sweep"]
    /\ UNCHANGED <<slot, socket, records, written, workload>>

\* One removal of the sweep; it fails silently on the record of another user.
SweepOne(p) ==
    /\ state[p] = "sweep"
    /\ \E r \in seen[p] :
        /\ seen' = [seen EXCEPT ![p] = @ \ {r}]
        /\ records' \in {records, Without(r)}
    /\ UNCHANGED <<state, slot, socket, written, workload>>

\* writeRecord: the rename puts the whole record in place at once.
WriteRecord(p) ==
    /\ state[p] = "sweep"
    /\ seen[p] = {}
    /\ written' = [written EXCEPT ![p] = @ + 1]
    /\ records' = records \cup {[slot |-> slot[p], owner |-> p,
                                 number |-> written[p] + 1, attached |-> FALSE]}
    /\ state' = [state EXCEPT ![p] = "holding"]
    /\ UNCHANGED <<slot, socket, seen, workload>>

\* Every slot was held: after pollMs another attempt starts.
Retry(p) ==
    /\ state[p] = "missed"
    /\ state' = [state EXCEPT ![p] = "bind"]
    /\ UNCHANGED <<slot, socket, records, seen, written, workload>>

\* The deadline passed or the signal aborted: null.
GiveUp(p) ==
    /\ state[p] = "missed"
    /\ state' = [state EXCEPT ![p] = "idle"]
    /\ slot' = [slot EXCEPT ![p] = NoSlot]
    /\ UNCHANGED <<socket, records, seen, written, workload>>

-----------------------------------------------------------------------------
\* The process of p starts a workload in a process group of its own; it is to be
\* attached to every lock that process holds.
Spawn(p) ==
    /\ state[p] = "holding"
    /\ \A q \in Siblings(p) : workload[q] = "none"
    /\ workload' = [q \in Handle |->
            IF q \in Siblings(p) /\ state[q] = "holding" THEN "spawned" ELSE workload[q]]
    /\ UNCHANGED <<state, slot, socket, records, seen, written>>

\* attach: the record is written again with the group, by rename.  (One that is
\* written after the group ended tells its readers nothing, and is left out.)
Attach(p) ==
    /\ state[p] = "holding"
    /\ workload[p] = "spawned"
    /\ records' = Without(OwnRecord(p, TRUE)) \cup {OwnRecord(p, TRUE)}
    /\ workload' = [workload EXCEPT ![p] = "attached"]
    /\ UNCHANGED <<state, slot, socket, seen, written>>

WorkloadEnds(p) ==
    /\ Running(p)
    /\ workload' = [q \in Handle |->
            IF q \in Siblings(p) /\ Running(q) THEN "ended" ELSE workload[q]]
    /\ UNCHANGED <<state, slot, socket, records, seen, written>>

\* release: the record goes first, then the socket.  Its callers release once
\* their workload ended (runManagedProcess settles after its process group).
RemoveOwnRecord(p) ==
    /\ state[p] = "holding"
    /\ ~Running(p)
    /\ records' = Without(OwnRecord(p, TRUE))
    /\ state' = [state EXCEPT ![p] = "unrecorded"]
    /\ UNCHANGED <<slot, socket, seen, written, workload>>

CloseSocket(p) ==
    /\ state[p] = "unrecorded"
    /\ socket' = [socket EXCEPT ![NetOf[p]][slot[p]] = None]
    /\ slot' = [slot EXCEPT ![p] = NoSlot]
    /\ state' = [state EXCEPT ![p] = "idle"]
    /\ UNCHANGED <<records, seen, written, workload>>

\* The process of p ends in any way, at any step: the kernel frees its sockets.
Crash(p) ==
    /\ state[p] # "ended"
    /\ state' = [q \in Handle |-> IF q \in Siblings(p) THEN "ended" ELSE state[q]]
    /\ socket' = [n \in Net |-> [s \in Slot |->
                    IF socket[n][s] \in Siblings(p) THEN None ELSE socket[n][s]]]
    /\ seen' = [q \in Handle |-> IF q \in Siblings(p) THEN {} ELSE seen[q]]
    /\ UNCHANGED <<slot, records, written, workload>>

-----------------------------------------------------------------------------
Acquire(p) ==
    \/ BindFree(p) \/ BindBusy(p) \/ ReadSlot(p) \/ SlotTaken(p) \/ ReadAll(p)
    \/ Filter(p) \/ SweepOne(p) \/ WriteRecord(p)

Release(p) == RemoveOwnRecord(p) \/ CloseSocket(p)

Next ==
    \E p \in Handle :
        \/ Call(p) \/ Acquire(p) \/ Retry(p) \/ GiveUp(p)
        \/ Spawn(p) \/ Attach(p) \/ WorkloadEnds(p)
        \/ Release(p) \/ Crash(p)

Spec == Init /\ [][Next]_vars

(***************************************************************************)
(* An attempt runs to its end once started and a waiting call polls again  *)
(* (setTimeout); the callers release in a `finally`, and every workload    *)
(* they run has a time limit (profile.maxRuntimeMs).                       *)
(***************************************************************************)
Fairness ==
    \A p \in Handle :
        /\ WF_vars(Acquire(p))
        /\ WF_vars(Retry(p))
        /\ WF_vars(Release(p))
        /\ WF_vars(WorkloadEnds(p))

FairSpec == Spec /\ Fairness

-----------------------------------------------------------------------------
(* Properties *)

\* Every variable has its type.
TypeOK ==
    /\ state \in [Handle -> States]
    /\ slot \in [Handle -> Slot \cup {NoSlot}]
    /\ socket \in [Net -> [Slot -> Handle \cup {None}]]
    /\ records \in SUBSET Record
    /\ seen \in [Handle -> SUBSET Record]
    /\ written \in [Handle -> Nat]
    /\ workload \in [Handle -> {"none", "spawned", "attached", "ended"}]

Holds(p) == state[p] \in {"holding", "unrecorded"}

\* Two handles of one network namespace never hold one slot at once: binding
\* is atomic and only the end of its holder, or its release, frees a socket.
SlotExclusion ==
    \A p, q \in Handle :
        Holds(p) /\ Holds(q) /\ slot[p] = slot[q] /\ NetOf[p] = NetOf[q] => p = q

\* No process ever removes the hold of another: while a process holds a slot,
\* its record is in the directory, whoever sweeps it and from whatever lock.
HolderRecordKept ==
    \A p \in Handle : state[p] = "holding" =>
        \E r \in records : SamePath(r, OwnRecord(p, FALSE))

\* The record of p in the directory names a workload that runs.
Recorded(p) == workload[p] = "attached" /\ OwnRecord(p, TRUE) \in records

\* A slot stays held while its holder lives, or its record names a workload that
\* runs: whoever binds the slot later reads that record (tryAcquire).
SlotHeldWhileRecorded ==
    \A p, q \in Handle :
        Holds(q) /\ slot[q] = slot[p] /\ NetOf[q] = NetOf[p] /\ (Holds(p) \/ Recorded(p)) => p = q

\* What can make a slot forget a workload that runs is one thing only: a sweep
\* that copied the record before the workload was attached, and whose process found
\* the holder ended since.  No sweep that starts later does it, from whatever lock.
OnlyOldCopiesLost ==
    [][\A p \in Handle :
        Recorded(p) /\ Running(p)' /\ OwnRecord(p, TRUE) \notin records' =>
            /\ state[p] = "ended"
            /\ \E q \in Handle : state[q] = "sweep" /\ OwnRecord(p, FALSE) \in seen[q]]_vars

\* A slot stays held while its holder or the attached workload lives: nobody
\* holds a slot whose previous holder ended and left its workload running.
SlotStaysHeld ==
    \A p, q \in Handle :
        Holds(q) /\ slot[q] = slot[p] /\ (Holds(p) \/ workload[p] = "attached") => p = q

Waits(p) == state[p] \in {"bind", "missed"}

\* While some call waits, the lock does not stay empty for ever: some process
\* comes to hold a slot, or nobody waits any more (each gave up or ended).
WaitersServed ==
    (\E p \in Handle : Waits(p))
        ~> (\E p \in Handle : Holds(p)) \/ (\A p \in Handle : ~Waits(p))
=============================================================================
