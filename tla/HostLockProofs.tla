--------------------------- MODULE HostLockProofs ---------------------------
(***************************************************************************)
(* Proofs about HostLock, for every set of processes, handles, locks, slot *)
(* counts and network namespaces.  Three inductive invariants build on one *)
(* another: SocketInv (who has which socket) gives the exclusion of        *)
(* holders, SweepInv (a sweeper's list names only ended owners, and only   *)
(* ended workloads) gives that nobody removes the record of a live holder  *)
(* and what alone can remove that of a workload, and WorkloadInv that the  *)
(* slot of a recorded workload is taken for whoever binds it.              *)
(***************************************************************************)
EXTENDS HostLock, TLAPS

\* The states in which a process has the socket of its slot bound.
Bound == {"bound", "judge", "scan", "sweep", "holding", "unrecorded"}

SocketInv ==
    /\ TypeOK
    /\ \A p \in Handle : state[p] \notin {"idle", "ended"} => slot[p] \in Slot
    /\ \A p \in Handle : state[p] \in Bound => socket[NetOf[p]][slot[p]] = p

-----------------------------------------------------------------------------
\* What the pair <<n, i>> of a slot is made of.
LEMMA SlotFacts ==
    /\ \A n \in Name : \A i \in 1..SlotCount[n] : <<n, i>> \in Slot
    /\ \A s \in Slot : s[1] \in Name /\ s[2] \in 1..SlotCount[s[1]] /\ s = <<s[1], s[2]>>
    /\ \A n \in Name : SlotCount[n] \in Nat /\ SlotCount[n] >= 1
BY HostLockAssumption DEF HostLockAssumption, Slot

\* The slot tried next is a slot of the same lock, and the process is not
\* left with a socket.
LEMMA NextSlotFacts ==
    ASSUME TypeOK, NEW p \in Handle, slot[p] \in Slot, NextSlot(p)
    PROVE  /\ slot' \in [Handle -> Slot \cup {NoSlot}]
           /\ state' \in [Handle -> States]
           /\ slot'[p] \in Slot
           /\ state'[p] \in {"bind", "missed"}
           /\ \A q \in Handle \ {p} : slot'[q] = slot[q] /\ state'[q] = state[q]
<1> DEFINE name == slot[p][1]
           index == slot[p][2]
<1>1. /\ name \in Name /\ index \in 1..SlotCount[name]
      /\ SlotCount[name] \in Nat /\ SlotCount[name] >= 1
  BY SlotFacts
<1>2. <<name, 1>> \in Slot
  BY <1>1, SlotFacts
<1>3. CASE index < SlotCount[name]
  <2>1. <<name, index + 1>> \in Slot
    BY <1>1, <1>3, SlotFacts
  <2>2. /\ slot' = [slot EXCEPT ![p] = <<name, index + 1>>]
        /\ state' = [state EXCEPT ![p] = "bind"]
    BY <1>3 DEF NextSlot
  <2> QED
    BY <2>1, <2>2 DEF TypeOK, States
<1>4. CASE ~(index < SlotCount[name])
  <2>1. /\ slot' = [slot EXCEPT ![p] = <<name, 1>>]
        /\ state' = [state EXCEPT ![p] = "missed"]
    BY <1>4 DEF NextSlot
  <2> QED
    BY <1>2, <2>1 DEF TypeOK, States
<1> QED
  BY <1>3, <1>4

LEMMA SocketInit == Init => SocketInv
BY HostLockAssumption DEF HostLockAssumption, Init, SocketInv, TypeOK, States, Bound, None

LEMMA SocketStep == SocketInv /\ [Next]_vars => SocketInv'
<1> SUFFICES ASSUME SocketInv, [Next]_vars PROVE SocketInv'
  OBVIOUS
<1> USE DEF SocketInv
<1>0. /\ NetOf \in [Handle -> Net] /\ None \notin Handle
  BY HostLockAssumption DEF HostLockAssumption, None
<1>1. ASSUME NEW p \in Handle, Call(p) PROVE SocketInv'
  <2>1. PICK n \in Name : CallFor(p, n)
    BY <1>1 DEF Call
  <2>2. <<n, 1>> \in Slot
    BY SlotFacts
  <2> QED
    BY <1>1, <2>1, <2>2 DEF CallFor, TypeOK, States, Bound
<1>2. ASSUME NEW p \in Handle, BindFree(p) PROVE SocketInv'
  BY <1>0, <1>2 DEF BindFree, TypeOK, States, Bound
<1>3. ASSUME NEW p \in Handle, BindBusy(p) PROVE SocketInv'
  <2>1. slot[p] \in Slot /\ NextSlot(p) /\ UNCHANGED <<socket, records, seen, written, workload>>
    BY <1>3 DEF BindBusy
  <2>2. TypeOK'
    BY <2>1, NextSlotFacts DEF TypeOK
  <2> QED
    BY <2>1, <2>2, NextSlotFacts DEF Bound
<1>4. ASSUME NEW p \in Handle, ReadSlot(p) PROVE SocketInv'
  BY <1>4 DEF ReadSlot, TypeOK, States, Bound
<1>5. ASSUME NEW p \in Handle, SlotTaken(p) PROVE SocketInv'
  <2>1. slot[p] \in Slot /\ NextSlot(p) /\ state[p] = "judge"
    BY <1>5 DEF SlotTaken
  <2>2. socket' = [socket EXCEPT ![NetOf[p]][slot[p]] = None]
    BY <1>5 DEF SlotTaken
  <2>3. ASSUME NEW q \in Handle, state'[q] \in Bound
        PROVE  socket'[NetOf[q]][slot'[q]] = q
    <3>1. q # p /\ slot'[q] = slot[q] /\ state'[q] = state[q]
      BY <2>1, <2>3, NextSlotFacts DEF Bound
    <3>2. socket[NetOf[q]][slot[q]] = q /\ socket[NetOf[p]][slot[p]] = p
      BY <2>1, <2>3, <3>1 DEF Bound
    <3> QED
      BY <1>0, <2>2, <3>1, <3>2 DEF TypeOK
  <2>4. TypeOK'
    <3>1. socket' \in [Net -> [Slot -> Handle \cup {None}]]
      BY <1>0, <2>2 DEF TypeOK
    <3>2. seen' \in [Handle -> SUBSET Record] /\ UNCHANGED <<records, written, workload>>
      BY <1>5 DEF SlotTaken, TypeOK
    <3> QED
      BY <2>1, <3>1, <3>2, NextSlotFacts DEF TypeOK
  <2> QED
    BY <2>1, <2>3, <2>4, NextSlotFacts
<1>6. ASSUME NEW p \in Handle, ReadAll(p) PROVE SocketInv'
  BY <1>6 DEF ReadAll, TypeOK, States, Bound
<1>7. ASSUME NEW p \in Handle, Filter(p) PROVE SocketInv'
  BY <1>7 DEF Filter, TypeOK, States, Bound
<1>8. ASSUME NEW p \in Handle, SweepOne(p) PROVE SocketInv'
  BY <1>8 DEF SweepOne, Without, TypeOK, Bound
<1>9. ASSUME NEW p \in Handle, WriteRecord(p) PROVE SocketInv'
  <2>1. [slot |-> slot[p], owner |-> p, number |-> written[p] + 1, attached |-> FALSE] \in Record
    BY <1>9 DEF WriteRecord, TypeOK, Record
  <2>2. records' \in SUBSET Record
    BY <1>9, <2>1 DEF WriteRecord, TypeOK
  <2>3. /\ state[p] = "sweep"
        /\ state' = [state EXCEPT ![p] = "holding"]
        /\ written' = [written EXCEPT ![p] = @ + 1]
        /\ UNCHANGED <<slot, socket, seen, workload>>
    BY <1>9 DEF WriteRecord
  <2> QED
    BY <2>2, <2>3 DEF TypeOK, States, Bound
<1>10. ASSUME NEW p \in Handle, Retry(p) PROVE SocketInv'
  BY <1>10 DEF Retry, TypeOK, States, Bound
<1>11. ASSUME NEW p \in Handle, GiveUp(p) PROVE SocketInv'
  BY <1>11 DEF GiveUp, TypeOK, States, Bound
<1>12. ASSUME NEW p \in Handle, Spawn(p) PROVE SocketInv'
  BY <1>12 DEF Spawn, TypeOK, Bound
<1>13. ASSUME NEW p \in Handle, Attach(p) PROVE SocketInv'
  <2>1. OwnRecord(p, TRUE) \in Record
    BY <1>13 DEF Attach, TypeOK, Record, OwnRecord
  <2> QED
    BY <1>13, <2>1 DEF Attach, Without, TypeOK, Bound
<1>14. ASSUME NEW p \in Handle, WorkloadEnds(p) PROVE SocketInv'
  BY <1>14 DEF WorkloadEnds, TypeOK, Bound
<1>15. ASSUME NEW p \in Handle, RemoveOwnRecord(p) PROVE SocketInv'
  BY <1>15 DEF RemoveOwnRecord, Without, TypeOK, States, Bound
<1>16. ASSUME NEW p \in Handle, CloseSocket(p) PROVE SocketInv'
  <2>1. ASSUME NEW q \in Handle, state'[q] \in Bound
        PROVE  socket'[NetOf[q]][slot'[q]] = q
    <3>1. q # p /\ slot'[q] = slot[q] /\ state'[q] = state[q]
      BY <1>16, <2>1 DEF CloseSocket, TypeOK, Bound
    <3>2. socket[NetOf[q]][slot[q]] = q /\ socket[NetOf[p]][slot[p]] = p
      BY <1>16, <2>1, <3>1 DEF CloseSocket, Bound
    <3> QED
      BY <1>0, <1>16, <3>1, <3>2 DEF CloseSocket, TypeOK
  <2> QED
    BY <1>0, <1>16, <2>1 DEF CloseSocket, TypeOK, States
<1>17. ASSUME NEW p \in Handle, Crash(p) PROVE SocketInv'
  <2>1. TypeOK'
    BY <1>0, <1>17 DEF Crash, TypeOK, States
  <2>2. ASSUME NEW q \in Handle, state'[q] # "ended"
        PROVE  /\ q \notin Siblings(p) /\ state[q] = state'[q] /\ slot[q] = slot'[q]
               /\ socket[NetOf[q]][slot[q]] = q /\ slot[q] \in Slot
                    => socket'[NetOf[q]][slot'[q]] = q
    BY <1>0, <1>17, <2>2 DEF Crash, TypeOK
  <2> QED
    BY <2>1, <2>2 DEF Bound
<1>18. CASE UNCHANGED vars
  BY <1>18 DEF vars, TypeOK, Bound
<1> QED
  BY <1>1, <1>2, <1>3, <1>4, <1>5, <1>6, <1>7, <1>8, <1>9, <1>10, <1>11, <1>12,
     <1>13, <1>14, <1>15, <1>16, <1>17, <1>18 DEF Next, Acquire, Release

\* SocketInv holds in every reachable state.
THEOREM SocketInvariant == Spec => []SocketInv
BY SocketInit, SocketStep, PTL DEF Spec

\* Every variable keeps its type, whatever the constants.
THEOREM TypeCorrect == Spec => []TypeOK
<1>1. SocketInv => TypeOK
  BY DEF SocketInv
<1> QED
  BY <1>1, SocketInvariant, PTL

\* Two processes of one network namespace never hold one slot: both would be
\* the process its socket is bound to (tryAcquire, release).
THEOREM HoldersExclude == Spec => []SlotExclusion
<1>1. SocketInv => SlotExclusion
  BY DEF SocketInv, SlotExclusion, Holds, Bound
<1> QED
  BY <1>1, SocketInvariant, PTL

-----------------------------------------------------------------------------
(***************************************************************************)
(* HolderRecordKept is not inductive: a sweep removes what it listed       *)
(* earlier.  What it listed belongs to processes that had ended by then,   *)
(* and names no workload that ran; neither comes back.                     *)
(***************************************************************************)
SweepInv ==
    /\ \A p \in Handle : state[p] = "sweep" =>
            \A r \in seen[p] :
                state[r.owner] = "ended" /\ (r.attached => ~Running(r.owner))
    /\ \A p \in Handle : state[p] = "holding" =>
            \/ OwnRecord(p, TRUE) \in records
            \/ OwnRecord(p, FALSE) \in records

\* A step of p that neither touches the state nor the sweep list of another
\* process, and removes from the directory only the path of record f.
LEMMA WithoutKeeps ==
    ASSUME NEW f, NEW r \in records, ~SamePath(r, f)
    PROVE  r \in Without(f)
BY DEF Without

LEMMA SweepStep == SocketInv /\ SweepInv /\ [Next]_vars => SweepInv'
<1> SUFFICES ASSUME SocketInv, TypeOK, SweepInv, [Next]_vars PROVE SweepInv'
  BY DEF SocketInv
<1> USE DEF SweepInv, OwnRecord, Running
<1>1. ASSUME NEW p \in Handle, Call(p) PROVE SweepInv'
  BY <1>1 DEF Call, CallFor, TypeOK
<1>2. ASSUME NEW p \in Handle, BindFree(p) PROVE SweepInv'
  BY <1>2 DEF BindFree, TypeOK
<1>3. ASSUME NEW p \in Handle, BindBusy(p) PROVE SweepInv'
  <2>1. /\ slot[p] \in Slot /\ NextSlot(p) /\ state[p] = "bind"
        /\ UNCHANGED <<records, seen, written, workload>>
    BY <1>3 DEF BindBusy, SocketInv
  <2>2. \A q \in Handle : state'[q] = "ended" <=> state[q] = "ended"
    BY <2>1, NextSlotFacts
  <2>3. ASSUME NEW q \in Handle, state'[q] = "sweep", NEW r \in seen'[q]
        PROVE  state'[r.owner] = "ended" /\ (r.attached => ~Running(r.owner)')
    BY <2>1, <2>2, <2>3, NextSlotFacts DEF TypeOK, Record
  <2>4. ASSUME NEW q \in Handle, state'[q] = "holding"
        PROVE  OwnRecord(q, TRUE)' \in records' \/ OwnRecord(q, FALSE)' \in records'
    BY <2>1, <2>4, NextSlotFacts
  <2> QED
    BY <2>3, <2>4
<1>4. ASSUME NEW p \in Handle, ReadSlot(p) PROVE SweepInv'
  BY <1>4 DEF ReadSlot, TypeOK
<1>5. ASSUME NEW p \in Handle, SlotTaken(p) PROVE SweepInv'
  <2>1. slot[p] \in Slot /\ NextSlot(p) /\ UNCHANGED <<records, written, workload>>
    BY <1>5 DEF SlotTaken, SocketInv
  <2>2. seen' = [seen EXCEPT ![p] = {}] /\ state[p] = "judge"
    BY <1>5 DEF SlotTaken
  <2>3. \A q \in Handle : state'[q] = "ended" <=> state[q] = "ended"
    BY <2>1, <2>2, NextSlotFacts
  <2> QED
    BY <2>1, <2>2, <2>3, NextSlotFacts DEF TypeOK, Record
<1>6. ASSUME NEW p \in Handle, ReadAll(p) PROVE SweepInv'
  BY <1>6 DEF ReadAll, TypeOK
<1>7. ASSUME NEW p \in Handle, Filter(p) PROVE SweepInv'
  BY <1>7 DEF Filter, RecordAlive, TypeOK
<1>8. ASSUME NEW p \in Handle, SweepOne(p) PROVE SweepInv'
  <2>1. PICK f \in seen[p] : /\ seen' = [seen EXCEPT ![p] = @ \ {f}]
                             /\ records' \in {records, Without(f)}
    BY <1>8 DEF SweepOne
  <2>2. state[p] = "sweep" /\ UNCHANGED <<state, slot, written, workload>>
    BY <1>8 DEF SweepOne
  <2>3. state[f.owner] = "ended"
    BY <2>1, <2>2
  <2>4. ASSUME NEW q \in Handle, state[q] = "holding", NEW b \in BOOLEAN
        PROVE  ~SamePath(OwnRecord(q, b), f)
    BY <2>3, <2>4 DEF SamePath
  <2>5. ASSUME NEW q \in Handle, state'[q] = "holding"
        PROVE  OwnRecord(q, TRUE)' \in records' \/ OwnRecord(q, FALSE)' \in records'
    BY <2>1, <2>2, <2>4, <2>5, WithoutKeeps
  <2> QED
    BY <2>1, <2>2, <2>5 DEF TypeOK
<1>9. ASSUME NEW p \in Handle, WriteRecord(p) PROVE SweepInv'
  <2>1. /\ state[p] = "sweep"
        /\ state' = [state EXCEPT ![p] = "holding"]
        /\ written' = [written EXCEPT ![p] = @ + 1]
        /\ records' = records \cup {[slot |-> slot[p], owner |-> p,
                                     number |-> written[p] + 1, attached |-> FALSE]}
        /\ UNCHANGED <<slot, seen, workload>>
    BY <1>9 DEF WriteRecord
  <2>2. OwnRecord(p, FALSE)' \in records'
    BY <2>1 DEF TypeOK
  <2>3. ASSUME NEW q \in Handle, state'[q] = "holding", q # p
        PROVE  OwnRecord(q, TRUE)' \in records' \/ OwnRecord(q, FALSE)' \in records'
    BY <2>1, <2>3 DEF TypeOK
  <2>4. ASSUME NEW q \in Handle, state'[q] = "sweep", NEW r \in seen'[q]
        PROVE  state'[r.owner] = "ended" /\ (r.attached => ~Running(r.owner)')
    BY <2>1, <2>4 DEF TypeOK, Record
  <2> QED
    BY <2>2, <2>3, <2>4
<1>10. ASSUME NEW p \in Handle, Retry(p) PROVE SweepInv'
  BY <1>10 DEF Retry, TypeOK
<1>11. ASSUME NEW p \in Handle, GiveUp(p) PROVE SweepInv'
  BY <1>11 DEF GiveUp, TypeOK
<1>12. ASSUME NEW p \in Handle, Spawn(p) PROVE SweepInv'
  BY <1>12 DEF Spawn, TypeOK, Record
<1>13. ASSUME NEW p \in Handle, Attach(p) PROVE SweepInv'
  <2>1. /\ state[p] = "holding"
        /\ records' = Without(OwnRecord(p, TRUE)) \cup {OwnRecord(p, TRUE)}
        /\ workload' = [workload EXCEPT ![p] = "attached"]
        /\ UNCHANGED <<state, slot, seen, written>>
    BY <1>13 DEF Attach
  <2>2. ASSUME NEW q \in Handle, state'[q] = "holding", q # p
        PROVE  OwnRecord(q, TRUE)' \in records' \/ OwnRecord(q, FALSE)' \in records'
    <3>1. ASSUME NEW b \in BOOLEAN PROVE ~SamePath(OwnRecord(q, b), OwnRecord(p, TRUE))
      BY <2>2 DEF SamePath
    <3> QED
      BY <2>1, <2>2, <3>1, WithoutKeeps
  <2>3. ASSUME NEW q \in Handle, state'[q] = "sweep", NEW r \in seen'[q]
        PROVE  state'[r.owner] = "ended" /\ (r.attached => ~Running(r.owner)')
    BY <2>1, <2>3 DEF TypeOK, Record
  <2>4. OwnRecord(p, TRUE)' \in records'
    BY <2>1
  <2> QED
    BY <2>2, <2>3, <2>4
<1>14. ASSUME NEW p \in Handle, WorkloadEnds(p) PROVE SweepInv'
  BY <1>14 DEF WorkloadEnds, TypeOK, Record
<1>15. ASSUME NEW p \in Handle, RemoveOwnRecord(p) PROVE SweepInv'
  <2>1. /\ records' = Without(OwnRecord(p, TRUE))
        /\ state[p] = "holding"
        /\ state' = [state EXCEPT ![p] = "unrecorded"]
        /\ UNCHANGED <<slot, seen, written, workload>>
    BY <1>15 DEF RemoveOwnRecord
  <2>2. ASSUME NEW q \in Handle, state'[q] = "holding"
        PROVE  OwnRecord(q, TRUE)' \in records' \/ OwnRecord(q, FALSE)' \in records'
    <3>1. q # p /\ state[q] = "holding"
      BY <2>1, <2>2 DEF TypeOK
    <3>2. ASSUME NEW b \in BOOLEAN PROVE ~SamePath(OwnRecord(q, b), OwnRecord(p, TRUE))
      BY <3>1 DEF SamePath
    <3> QED
      BY <2>1, <3>1, <3>2, WithoutKeeps
  <2>3. ASSUME NEW q \in Handle, state'[q] = "sweep", NEW r \in seen'[q]
        PROVE  state'[r.owner] = "ended" /\ (r.attached => ~Running(r.owner)')
    BY <2>1, <2>3 DEF TypeOK, Record
  <2> QED
    BY <2>2, <2>3
<1>16. ASSUME NEW p \in Handle, CloseSocket(p) PROVE SweepInv'
  BY <1>16 DEF CloseSocket, TypeOK
<1>17. ASSUME NEW p \in Handle, Crash(p) PROVE SweepInv'
  BY <1>17 DEF Crash, TypeOK, Record
<1>18. CASE UNCHANGED vars
  BY <1>18 DEF vars
<1> QED
  BY <1>1, <1>2, <1>3, <1>4, <1>5, <1>6, <1>7, <1>8, <1>9, <1>10, <1>11, <1>12,
     <1>13, <1>14, <1>15, <1>16, <1>17, <1>18 DEF Next, Acquire, Release

\* No process ever removes the record of another that holds a slot, from
\* whatever lock it sweeps (the sweep of tryAcquire).
THEOREM NobodyRemovesAHold == Spec => []HolderRecordKept
<1>1. Init => SweepInv
  BY DEF Init, SweepInv
<1>2. SweepInv => HolderRecordKept
  BY DEF SweepInv, HolderRecordKept, SamePath, OwnRecord
<1> QED
  BY <1>1, <1>2, SocketInvariant, SweepStep, PTL DEF Spec

-----------------------------------------------------------------------------
\* A record of a workload that runs goes only in a sweep that copied it before the
\* workload was attached, and judged its holder after it had ended (tryAcquire).
THEOREM RecordsLostToOldCopies == Spec => OnlyOldCopiesLost
<1> DEFINE OldCopy(p) ==
        /\ state[p] = "ended"
        /\ \E q \in Handle : state[q] = "sweep" /\ OwnRecord(p, FALSE) \in seen[q]
<1>1. ASSUME SocketInv, SweepInv, [Next]_vars, NEW p \in Handle,
             Recorded(p), Running(p)', OwnRecord(p, TRUE) \notin records'
      PROVE  OldCopy(p)
  <2> USE DEF OwnRecord
  <2>1. TypeOK /\ OwnRecord(p, TRUE) \in records /\ workload[p] = "attached"
    BY <1>1 DEF SocketInv, Recorded
  <2>2. ASSUME NEW q \in Handle, SweepOne(q) PROVE OldCopy(p)
    <3>1. PICK f \in seen[q] : records' \in {records, Without(f)}
      BY <2>2 DEF SweepOne
    <3>2. SamePath(OwnRecord(p, TRUE), f)
      BY <1>1, <2>1, <3>1, WithoutKeeps
    <3>3. f \in Record /\ f.owner = p /\ f.slot = slot[p] /\ f.number = written[p]
      BY <2>1, <3>2 DEF TypeOK, SamePath
    <3>4. state[q] = "sweep" /\ state[p] = "ended" /\ (f.attached => ~Running(p))
      BY <1>1, <2>2, <3>3 DEF SweepOne, SweepInv
    <3>5. ~f.attached
      BY <2>1, <3>4 DEF Running
    <3>6. f = OwnRecord(p, FALSE)
      BY <3>3, <3>5 DEF Record
    <3> QED
      BY <3>4, <3>6
  <2>3. ASSUME NEW q \in Handle, Attach(q) PROVE FALSE
    <3>1. records' = Without(OwnRecord(q, TRUE)) \cup {OwnRecord(q, TRUE)}
      BY <2>3 DEF Attach
    <3>2. CASE p = q
      BY <1>1, <3>1, <3>2
    <3>3. CASE p # q
      <4>1. ~SamePath(OwnRecord(p, TRUE), OwnRecord(q, TRUE))
        BY <3>3 DEF SamePath
      <4> QED
        BY <1>1, <2>1, <3>1, <4>1, WithoutKeeps
    <3> QED
      BY <3>2, <3>3
  <2>4. ASSUME NEW q \in Handle, RemoveOwnRecord(q) PROVE FALSE
    <3>1. records' = Without(OwnRecord(q, TRUE)) /\ ~Running(q)
      BY <2>4 DEF RemoveOwnRecord
    <3>2. p # q
      BY <2>1, <3>1 DEF Running
    <3>3. ~SamePath(OwnRecord(p, TRUE), OwnRecord(q, TRUE))
      BY <3>2 DEF SamePath
    <3> QED
      BY <1>1, <2>1, <3>1, <3>3, WithoutKeeps
  <2>5. ASSUME NEW q \in Handle, WriteRecord(q) PROVE FALSE
    BY <1>1, <2>1, <2>5 DEF WriteRecord
  <2>6. ASSUME NEW q \in Handle,
               \/ Call(q) \/ BindFree(q) \/ BindBusy(q) \/ ReadSlot(q) \/ SlotTaken(q)
               \/ ReadAll(q) \/ Filter(q) \/ Retry(q) \/ GiveUp(q) \/ Spawn(q)
               \/ WorkloadEnds(q) \/ CloseSocket(q) \/ Crash(q)
        PROVE  records' = records
    BY <2>6 DEF Call, CallFor, BindFree, BindBusy, ReadSlot, SlotTaken, ReadAll, Filter,
                Retry, GiveUp, Spawn, WorkloadEnds, CloseSocket, Crash
  <2> QED
    BY <1>1, <2>1, <2>2, <2>3, <2>4, <2>5, <2>6 DEF Next, Acquire, Release, vars
<1>2. SocketInv /\ SweepInv /\ [Next]_vars => [\A p \in Handle :
        Recorded(p) /\ Running(p)' /\ OwnRecord(p, TRUE) \notin records' => OldCopy(p)]_vars
  BY <1>1
<1>3. Init => SweepInv
  BY DEF Init, SweepInv
<1> QED
  BY <1>2, <1>3, SocketInvariant, SweepStep, PTL DEF Spec, OnlyOldCopiesLost

-----------------------------------------------------------------------------
(***************************************************************************)
(* A record that names a workload that runs keeps its slot: whoever binds  *)
(* the slot reads the record before it gets past the check.  That the      *)
(* record is there is what a sweep from another lock may undo.             *)
(***************************************************************************)
Past == {"scan", "sweep", "holding", "unrecorded"}

SameSlot(p, q) == slot[p] = slot[q] /\ NetOf[p] = NetOf[q]

WorkloadInv ==
    /\ \A p \in Handle : workload[p] = "attached" => state[p] \in {"holding", "ended"}
    /\ \A p, q \in Handle :
            Recorded(p) /\ SameSlot(p, q) /\ state[q] = "judge" => OwnRecord(p, TRUE) \in seen[q]
    /\ \A p, q \in Handle :
            Recorded(p) /\ SameSlot(p, q) /\ state[q] \in Past => p = q

LEMMA WorkloadStep == SocketInv /\ WorkloadInv /\ [Next]_vars => WorkloadInv'
<1> SUFFICES ASSUME SocketInv, TypeOK, WorkloadInv, [Next]_vars PROVE WorkloadInv'
  BY DEF SocketInv
<1> USE DEF WorkloadInv, OwnRecord, Recorded, SameSlot
\* One process at a time has the socket of a slot in a namespace.
<1>0. \A p, q \in Handle : state[p] \in Bound /\ state[q] \in Bound /\ SameSlot(p, q) => p = q
  BY DEF SocketInv
<1>1. ASSUME NEW p \in Handle, Call(p) PROVE WorkloadInv'
  BY <1>1 DEF Call, CallFor, TypeOK, Past
<1>2. ASSUME NEW p \in Handle, BindFree(p) PROVE WorkloadInv'
  BY <1>2 DEF BindFree, TypeOK, Past
<1>3. ASSUME NEW p \in Handle, BindBusy(p) PROVE WorkloadInv'
  <2>1. /\ slot[p] \in Slot /\ NextSlot(p) /\ state[p] = "bind"
        /\ UNCHANGED <<records, seen, written, workload>>
    BY <1>3 DEF BindBusy, SocketInv
  <2> QED
    BY <2>1, NextSlotFacts DEF Past
<1>4. ASSUME NEW p \in Handle, ReadSlot(p) PROVE WorkloadInv'
  <2>1. /\ state[p] = "bound"
        /\ seen' = [seen EXCEPT ![p] = {r \in records : r.slot = slot[p]}]
        /\ state' = [state EXCEPT ![p] = "judge"]
        /\ UNCHANGED <<slot, records, written, workload>>
    BY <1>4 DEF ReadSlot
  <2>2. ASSUME NEW q \in Handle, Recorded(q), SameSlot(q, p)
        PROVE  OwnRecord(q, TRUE) \in seen'[p]
    BY <2>1, <2>2 DEF TypeOK
  <2> QED
    BY <2>1, <2>2 DEF TypeOK, Past
<1>5. ASSUME NEW p \in Handle, SlotTaken(p) PROVE WorkloadInv'
  <2>1. /\ slot[p] \in Slot /\ NextSlot(p) /\ state[p] = "judge"
        /\ seen' = [seen EXCEPT ![p] = {}]
        /\ UNCHANGED <<records, written, workload>>
    BY <1>5 DEF SlotTaken, SocketInv
  <2> QED
    BY <2>1, NextSlotFacts DEF Past, TypeOK
<1>6. ASSUME NEW p \in Handle, ReadAll(p) PROVE WorkloadInv'
  <2>1. /\ state[p] = "judge"
        /\ \A r \in seen[p] : ~RecordAlive(r)
        /\ seen' = [seen EXCEPT ![p] = records]
        /\ state' = [state EXCEPT ![p] = "scan"]
        /\ UNCHANGED <<slot, records, written, workload>>
    BY <1>6 DEF ReadAll
  <2>2. ASSUME NEW q \in Handle, Recorded(q), SameSlot(q, p) PROVE FALSE
    <3>1. OwnRecord(q, TRUE) \in seen[p]
      BY <2>1, <2>2
    <3>2. RecordAlive(OwnRecord(q, TRUE))
      BY <2>2 DEF RecordAlive, Running
    <3> QED
      BY <2>1, <3>1, <3>2
  <2> QED
    BY <2>1, <2>2 DEF TypeOK
<1>7. ASSUME NEW p \in Handle, Filter(p) PROVE WorkloadInv'
  BY <1>7 DEF Filter, TypeOK, Past
<1>8. ASSUME NEW p \in Handle, SweepOne(p) PROVE WorkloadInv'
  <2>1. /\ state[p] = "sweep" /\ records' \subseteq records
        /\ \A q \in Handle : q # p => seen'[q] = seen[q]
        /\ UNCHANGED <<state, slot, written, workload>>
    BY <1>8 DEF SweepOne, Without, TypeOK
  <2> QED
    BY <2>1
<1>9. ASSUME NEW p \in Handle, WriteRecord(p) PROVE WorkloadInv'
  <2>1. /\ state[p] = "sweep" /\ seen' = seen /\ slot' = slot /\ workload' = workload
        /\ state' = [state EXCEPT ![p] = "holding"]
        /\ written' = [written EXCEPT ![p] = @ + 1]
        /\ \A r \in records' : r.attached => r \in records
    BY <1>9 DEF WriteRecord
  <2>2. workload[p] # "attached"
    BY <2>1
  <2>3. \A q \in Handle : Recorded(q)' => q # p /\ Recorded(q)
    BY <2>1, <2>2 DEF TypeOK
  <2> QED
    BY <2>1, <2>2, <2>3 DEF TypeOK, Past
<1>10. ASSUME NEW p \in Handle, Retry(p) PROVE WorkloadInv'
  BY <1>10 DEF Retry, TypeOK, Past
<1>11. ASSUME NEW p \in Handle, GiveUp(p) PROVE WorkloadInv'
  BY <1>11 DEF GiveUp, TypeOK, Past
<1>12. ASSUME NEW p \in Handle, Spawn(p) PROVE WorkloadInv'
  BY <1>12 DEF Spawn, TypeOK, Past
<1>13. ASSUME NEW p \in Handle, Attach(p) PROVE WorkloadInv'
  <2>1. /\ state[p] = "holding"
        /\ records' = Without(OwnRecord(p, TRUE)) \cup {OwnRecord(p, TRUE)}
        /\ workload' = [workload EXCEPT ![p] = "attached"]
        /\ UNCHANGED <<state, slot, seen, written>>
    BY <1>13 DEF Attach
  <2>2. \A q \in Handle : SameSlot(p, q) /\ state[q] \in Past \cup {"judge"} => q = p
    BY <1>0, <2>1 DEF Bound, Past
  <2>3. \A q \in Handle : Recorded(q)' /\ q # p => Recorded(q)
    BY <2>1 DEF TypeOK, Without
  <2>4. \A q \in Handle : workload'[q] = "attached" => state'[q] \in {"holding", "ended"}
    BY <2>1 DEF TypeOK
  <2>5. ASSUME NEW q \in Handle, NEW r \in Handle,
               Recorded(q)', SameSlot(q, r)', state'[r] \in Past \cup {"judge"}
        PROVE  \/ q = r
               \/ state'[r] = "judge" /\ OwnRecord(q, TRUE)' \in seen'[r]
    <3>1. SameSlot(q, r) /\ state[r] \in Past \cup {"judge"}
      BY <2>1, <2>5
    <3>2. CASE q = p
      BY <2>2, <3>1, <3>2
    <3>3. CASE q # p
      <4>1. Recorded(q)
        BY <2>3, <2>5, <3>3
      <4> QED
        BY <2>1, <3>1, <4>1 DEF Past
    <3> QED
      BY <3>2, <3>3
  <2> QED
    BY <2>1, <2>4, <2>5 DEF Past
<1>14. ASSUME NEW p \in Handle, WorkloadEnds(p) PROVE WorkloadInv'
  BY <1>14 DEF WorkloadEnds, TypeOK
<1>15. ASSUME NEW p \in Handle, RemoveOwnRecord(p) PROVE WorkloadInv'
  <2>1. /\ state[p] = "holding" /\ records' \subseteq records
        /\ workload[p] # "attached"
        /\ state' = [state EXCEPT ![p] = "unrecorded"]
        /\ UNCHANGED <<slot, seen, written, workload>>
    BY <1>15 DEF RemoveOwnRecord, Running, Without
  <2> QED
    BY <2>1 DEF Past, TypeOK
<1>16. ASSUME NEW p \in Handle, CloseSocket(p) PROVE WorkloadInv'
  BY <1>16 DEF CloseSocket, TypeOK, Past
<1>17. ASSUME NEW p \in Handle, Crash(p) PROVE WorkloadInv'
  BY <1>17 DEF Crash, TypeOK, Past
<1>18. CASE UNCHANGED vars
  BY <1>18 DEF vars
<1> QED
  BY <1>1, <1>2, <1>3, <1>4, <1>5, <1>6, <1>7, <1>8, <1>9, <1>10, <1>11, <1>12,
     <1>13, <1>14, <1>15, <1>16, <1>17, <1>18 DEF Next, Acquire, Release

\* However many locks share the directory, nobody holds a slot whose holder lives in
\* its namespace, or whose record names a workload that runs.
THEOREM RecordKeepsSlot == Spec => []SlotHeldWhileRecorded
<1>1. Init => WorkloadInv
  BY DEF Init, WorkloadInv, Recorded
<1>2. SocketInv /\ WorkloadInv => SlotHeldWhileRecorded
  <2> SUFFICES ASSUME SocketInv, WorkloadInv,
                      NEW p \in Handle, NEW q \in Handle,
                      Holds(q), SameSlot(p, q), Holds(p) \/ Recorded(p)
               PROVE  p = q
    BY DEF SlotHeldWhileRecorded, SameSlot
  <2>1. CASE Holds(p)
    BY <2>1 DEF SocketInv, Holds, Bound, SameSlot
  <2>2. CASE Recorded(p)
    BY <2>2 DEF WorkloadInv, Holds, Past
  <2> QED
    BY <2>1, <2>2
<1> QED
  BY <1>1, <1>2, SocketInvariant, WorkloadStep, PTL DEF Spec
=============================================================================
