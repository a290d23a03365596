------------------------- MODULE BackupStoreProofs -------------------------
(***************************************************************************)
(* Proofs about BackupStore, for any number of backups, parts, uploads in  *)
(* flight and prunes.  WholeInv says what makes a returned backup whole:   *)
(* no prune has anything to remove from a backup whose writer still runs,  *)
(* and one that removes an available backup has its manifest to remove     *)
(* before anything else.                                                   *)
(***************************************************************************)
EXTENDS BackupStore, FiniteSetTheorems, TLAPS

\* A part is none of the named objects of a backup.
LEMMA PartsApart ==
    "manifest" \notin Part /\ "failure" \notin Part /\ "verification" \notin Part
BY BackupStoreAssumption DEF BackupStoreAssumption

\* The sets of uploads are finite, and a change of one upload changes their
\* number by one at most.
LEMMA FlightFacts ==
    ASSUME NEW S \in SUBSET Part, NEW p
    PROVE  /\ Cardinality(S) \in Nat
           /\ Cardinality(S \cup {p}) <= Cardinality(S) + 1
           /\ Cardinality(S \ {p}) \in Nat
           /\ Cardinality(S \ {p}) <= Cardinality(S)
<1>1. IsFiniteSet(S)
  BY BackupStoreAssumption, FS_Subset DEF BackupStoreAssumption
<1>2. Cardinality(S) \in Nat
  BY <1>1, FS_CardinalityType
<1>3. Cardinality(S \cup {p}) = IF p \in S THEN Cardinality(S) ELSE Cardinality(S) + 1
  BY <1>1, FS_AddElement
<1>4. /\ IsFiniteSet(S \ {p})
      /\ Cardinality(S \ {p}) = IF p \in S THEN Cardinality(S) - 1 ELSE Cardinality(S)
  BY <1>1, FS_RemoveElement
<1>5. Cardinality(S \ {p}) \in Nat
  BY <1>4, FS_CardinalityType
<1> QED
  BY <1>2, <1>3, <1>4, <1>5

\* The type invariant without what it says of the uploads in flight.
Typed ==
    /\ pc \in [Backup -> States]
    /\ objects \in [Backup -> SUBSET File]
    /\ sent \in [Backup -> SUBSET Part]
    /\ inFlight \in [Backup -> SUBSET Part]
    /\ uploaded \in [Backup -> SUBSET Part]
    /\ age \in [Backup -> 0..2]
    /\ verifying \in SUBSET Backup
    /\ doomed \in [Pruner -> [Backup -> SUBSET File]]

Bounded == \A b \in Backup : Cardinality(inFlight[b]) <= Concurrency

Landed == \A b \in Backup : inFlight[b] # {} => pc[b] \in {"writing", "settling"}

LEMMA TypeParts == TypeOK <=> Typed /\ Bounded /\ Landed
BY DEF TypeOK, Typed, Bounded, Landed

\* The actions of a writer.
WriterStep(b) == Start(b) \/ Write(b) \/ StopWriter(b)

LEMMA TypedStep == Typed /\ [Next]_vars => Typed'
<1> SUFFICES ASSUME Typed, [Next]_vars PROVE Typed'
  OBVIOUS
<1> USE DEF Typed, States, File
<1>1. ASSUME NEW b \in Backup, WriterStep(b) PROVE Typed'
  <2>1. CASE Start(b) \/ SourceFails(b) \/ Settled(b) \/ ListParts(b)
    BY <2>1 DEF Start, SourceFails, Settled, ListParts, Goto
  <2>2. CASE PutPart(b)
    BY <2>2 DEF PutPart
  <2>3. CASE PartStored(b)
    BY <2>3 DEF PartStored
  <2>4. CASE PartFails(b)
    BY <2>4 DEF PartFails, Goto
  <2>5. CASE PutManifest(b)
    BY <2>5 DEF PutManifest, Goto, Leave
  <2>6. CASE ManifestFails(b)
    BY <2>6 DEF ManifestFails, Goto
  <2>7. CASE RecordFailure(b)
    BY <2>7 DEF RecordFailure, Goto
  <2>8. CASE RemoveUploaded(b) \/ Throw(b)
    BY <2>8 DEF RemoveUploaded, Throw, Goto, Leave
  <2>9. CASE StopWriter(b)
    BY <2>9 DEF StopWriter, Goto, Leave
  <2> QED
    BY <1>1, <2>1, <2>2, <2>3, <2>4, <2>5, <2>6, <2>7, <2>8, <2>9 DEF WriterStep, Write
<1>2. ASSUME NEW b \in Backup, Grow(b) PROVE Typed'
  BY <1>2 DEF Grow, writer
<1>3. ASSUME NEW b \in Backup, ReadManifest(b) \/ RecordVerification(b) PROVE Typed'
  BY <1>3 DEF ReadManifest, RecordVerification, writer
<1>4. ASSUME NEW q \in Pruner, ListBackups(q) PROVE Typed'
  BY <1>4 DEF ListBackups, writer
<1>5. ASSUME NEW q \in Pruner, RemoveKey(q) \/ StopPrune(q) PROVE Typed'
  <2>1. CASE RemoveKey(q)
    BY <2>1 DEF RemoveKey, writer
  <2>2. CASE StopPrune(q)
    <3>1. [b \in Backup |-> {}] \in [Backup -> SUBSET File]
      OBVIOUS
    <3> QED
      BY <2>2, <3>1 DEF StopPrune, writer
  <2> QED
    BY <1>5, <2>1, <2>2
<1>6. CASE UNCHANGED vars
  BY <1>6 DEF vars, writer
<1> QED
  BY <1>1, <1>2, <1>3, <1>4, <1>5, <1>6 DEF Next, WriterStep

LEMMA BoundedStep == Typed /\ Bounded /\ [Next]_vars => Bounded'
<1> SUFFICES ASSUME Typed, Bounded, [Next]_vars, NEW c \in Backup
             PROVE  Cardinality(inFlight'[c]) <= Concurrency
  BY DEF Bounded
<1>0. /\ Concurrency \in Nat
      /\ inFlight \in [Backup -> SUBSET Part]
      /\ Cardinality(inFlight[c]) \in Nat
      /\ Cardinality(inFlight[c]) <= Concurrency
      /\ Cardinality({}) = 0
  BY BackupStoreAssumption, FlightFacts, FS_EmptySet DEF BackupStoreAssumption, Typed, Bounded
<1>1. CASE UNCHANGED inFlight
  BY <1>0, <1>1
<1>2. ASSUME NEW b \in Backup, PutPart(b) PROVE Cardinality(inFlight'[c]) <= Concurrency
  <2>1. PICK p \in Part : inFlight' = [inFlight EXCEPT ![b] = @ \cup {p}]
    BY <1>2 DEF PutPart
  <2>2. CASE b = c
    <3>1. ~(Cardinality(inFlight[c]) >= Concurrency)
      BY <1>2, <2>2 DEF PutPart, Awaits
    <3>2. Cardinality(inFlight[c]) + 1 <= Concurrency
      BY <1>0, <3>1
    <3>3. inFlight'[c] = inFlight[c] \cup {p}
      BY <1>0, <2>1, <2>2
    <3>4. Cardinality(inFlight[c] \cup {p}) <= Cardinality(inFlight[c]) + 1
      BY <1>0, FlightFacts
    <3>5. Cardinality(inFlight[c] \cup {p}) \in Nat
      <4>1. inFlight[c] \cup {p} \in SUBSET Part
        BY <1>0
      <4> QED
        BY <4>1, FlightFacts
    <3> QED
      BY <1>0, <3>2, <3>3, <3>4, <3>5
  <2>3. CASE b # c
    BY <1>0, <2>1, <2>3
  <2> QED
    BY <2>2, <2>3
<1>3. ASSUME NEW b \in Backup, NEW p,
             inFlight' = [inFlight EXCEPT ![b] = @ \ {p}]
      PROVE  Cardinality(inFlight'[c]) <= Concurrency
  <2>1. inFlight'[c] = inFlight[c] \/ inFlight'[c] = inFlight[c] \ {p}
    BY <1>0, <1>3
  <2>2. /\ Cardinality(inFlight[c] \ {p}) \in Nat
        /\ Cardinality(inFlight[c] \ {p}) <= Cardinality(inFlight[c])
    BY <1>0, FlightFacts
  <2> QED
    BY <1>0, <2>1, <2>2
<1>4. ASSUME NEW b \in Backup, inFlight' = [inFlight EXCEPT ![b] = {}]
      PROVE  Cardinality(inFlight'[c]) <= Concurrency
  BY <1>0, <1>4
<1>5. ASSUME NEW b \in Backup, WriterStep(b) PROVE Cardinality(inFlight'[c]) <= Concurrency
  <2>1. CASE PartStored(b) \/ PartFails(b)
    BY <1>3, <2>1 DEF PartStored, PartFails
  <2>2. CASE PutManifest(b) \/ Throw(b) \/ StopWriter(b)
    BY <1>4, <2>2 DEF PutManifest, Throw, StopWriter, Leave
  <2>3. CASE \/ Start(b) \/ SourceFails(b) \/ Settled(b) \/ ListParts(b)
             \/ ManifestFails(b) \/ RecordFailure(b) \/ RemoveUploaded(b)
    BY <1>1, <2>3 DEF Start, SourceFails, Settled, ListParts, ManifestFails, RecordFailure,
                      RemoveUploaded
  <2> QED
    BY <1>2, <1>5, <2>1, <2>2, <2>3 DEF WriterStep, Write
<1>6. ASSUME NEW b \in Backup, Grow(b) \/ ReadManifest(b) \/ RecordVerification(b)
      PROVE  Cardinality(inFlight'[c]) <= Concurrency
  BY <1>1, <1>6 DEF Grow, ReadManifest, RecordVerification, writer
<1>7. ASSUME NEW q \in Pruner, ListBackups(q) \/ RemoveKey(q) \/ StopPrune(q)
      PROVE  Cardinality(inFlight'[c]) <= Concurrency
  BY <1>1, <1>7 DEF ListBackups, RemoveKey, StopPrune, writer
<1>8. CASE UNCHANGED vars
  BY <1>1, <1>8 DEF vars, writer
<1> QED
  BY <1>5, <1>6, <1>7, <1>8 DEF Next, WriterStep

\* The stream ends only when no upload is left: when it lists the parts, or once
\* every one of them has settled.
LEMMA LandedStep == Typed /\ Landed /\ [Next]_vars => Landed'
<1> SUFFICES ASSUME Typed, Landed, [Next]_vars PROVE Landed'
  OBVIOUS
<1> USE DEF Typed, Landed
<1>1. ASSUME NEW b \in Backup, WriterStep(b) PROVE Landed'
  <2>1. CASE Start(b) \/ SourceFails(b) \/ Settled(b) \/ ListParts(b)
    BY <2>1 DEF Start, SourceFails, Settled, ListParts, Goto
  <2>2. CASE PutPart(b) \/ PartStored(b)
    BY <2>2 DEF PutPart, PartStored
  <2>3. CASE PartFails(b)
    BY <2>3 DEF PartFails, Goto
  <2>4. CASE PutManifest(b) \/ Throw(b) \/ StopWriter(b)
    BY <2>4 DEF PutManifest, Throw, StopWriter, Leave, Goto
  <2>5. CASE ManifestFails(b) \/ RecordFailure(b) \/ RemoveUploaded(b)
    BY <2>5 DEF ManifestFails, RecordFailure, RemoveUploaded, Goto
  <2> QED
    BY <1>1, <2>1, <2>2, <2>3, <2>4, <2>5 DEF WriterStep, Write
<1>2. CASE UNCHANGED <<pc, inFlight>>
  BY <1>2
<1> QED
  BY <1>1, <1>2 DEF Next, WriterStep, Grow, ReadManifest, RecordVerification,
                    ListBackups, RemoveKey, StopPrune, vars, writer

LEMMA TypeInit == Init => TypeOK
<1> SUFFICES ASSUME Init PROVE TypeOK
  OBVIOUS
<1>1. Typed
  BY DEF Init, Typed, States, File
<1>2. Bounded
  BY BackupStoreAssumption, FS_EmptySet DEF Init, Bounded, BackupStoreAssumption
<1>3. Landed
  BY DEF Init, Landed
<1> QED
  BY <1>1, <1>2, <1>3, TypeParts

\* Every variable keeps its type, and a stream has at most UPLOAD_CONCURRENCY
\* uploads in flight, and none once it has ended (writeStream).
THEOREM TypeCorrect == Spec => []TypeOK
<1>1. TypeOK /\ [Next]_vars => TypeOK'
  <2> SUFFICES ASSUME TypeOK, [Next]_vars PROVE TypeOK'
    OBVIOUS
  <2>1. Typed /\ Bounded /\ Landed
    BY TypeParts
  <2>2. Typed' /\ Bounded' /\ Landed'
    BY <2>1, TypedStep, BoundedStep, LandedStep
  <2> QED
    BY <2>2 DEF TypeOK, Typed, Bounded, Landed
<1> QED
  BY TypeInit, <1>1, PTL DEF Spec

-----------------------------------------------------------------------------
WholeInv ==
    \A b \in Backup :
        /\ pc[b] \notin Ended => age[b] = 0
        /\ \A q \in Pruner : age[b] = 0 => doomed[q][b] = {}
        /\ pc[b] = "listed" => Part \subseteq objects[b]
        /\ pc[b] = "available" /\ "manifest" \in objects[b] =>
            /\ Part \subseteq objects[b]
            /\ \A q \in Pruner : doomed[q][b] # {} => "manifest" \in doomed[q][b]

LEMMA WholeStep == Typed /\ WholeInv /\ [Next]_vars => WholeInv'
<1> SUFFICES ASSUME Typed, WholeInv, [Next]_vars PROVE WholeInv'
  OBVIOUS
<1> USE DEF Typed, WholeInv, Ended
<1>1. ASSUME NEW b \in Backup, WriterStep(b) PROVE WholeInv'
  <2>1. CASE Start(b) \/ SourceFails(b) \/ Settled(b) \/ ListParts(b)
    BY <2>1 DEF Start, SourceFails, Settled, ListParts, Goto
  <2>2. CASE PutPart(b)
    BY <2>2 DEF PutPart
  <2>3. CASE PartStored(b)
    BY <2>3 DEF PartStored
  <2>4. CASE PartFails(b)
    BY <2>4 DEF PartFails, Goto
  <2>5. CASE PutManifest(b)
    BY <2>5 DEF PutManifest, Goto, Leave
  <2>6. CASE ManifestFails(b) \/ RecordFailure(b)
    BY <2>6 DEF ManifestFails, RecordFailure, Goto
  <2>7. CASE RemoveUploaded(b) \/ Throw(b)
    BY <2>7 DEF RemoveUploaded, Throw, Goto, Leave
  <2>8. CASE StopWriter(b)
    BY <2>8 DEF StopWriter, Active, Goto, Leave
  <2> QED
    BY <1>1, <2>1, <2>2, <2>3, <2>4, <2>5, <2>6, <2>7, <2>8 DEF WriterStep, Write
<1>2. ASSUME NEW b \in Backup, Grow(b) PROVE WholeInv'
  BY <1>2 DEF Grow, writer
<1>3. ASSUME NEW b \in Backup, ReadManifest(b) \/ RecordVerification(b) PROVE WholeInv'
  BY <1>3, PartsApart DEF ReadManifest, RecordVerification, writer
<1>4. ASSUME NEW q \in Pruner, ListBackups(q) PROVE WholeInv'
  <2>1. \A b \in Removed : age[b] # 0
    BY DEF Removed
  <2>2. doomed' = [doomed EXCEPT ![q] = [b \in Backup |-> IF b \in Removed THEN objects[b] ELSE {}]]
    BY <1>4 DEF ListBackups
  <2>3. \A r \in Pruner, b \in Backup :
            doomed'[r][b] = doomed[r][b] \/ doomed'[r][b] = {}
              \/ (age[b] # 0 /\ doomed'[r][b] = objects[b])
    BY <2>1, <2>2
  <2>4. UNCHANGED <<pc, objects, age>>
    BY <1>4 DEF ListBackups, writer
  <2> QED
    BY <2>3, <2>4
<1>5. ASSUME NEW q \in Pruner, RemoveKey(q) PROVE WholeInv'
  <2>1. PICK b \in Backup : \E k \in doomed[q][b] :
            /\ k = "manifest" \/ "manifest" \notin doomed[q][b]
            /\ objects' = [objects EXCEPT ![b] = @ \ {k}]
            /\ doomed' = [doomed EXCEPT ![q][b] = @ \ {k}]
    BY <1>5 DEF RemoveKey
  <2>2. PICK k \in doomed[q][b] :
            /\ k = "manifest" \/ "manifest" \notin doomed[q][b]
            /\ objects' = [objects EXCEPT ![b] = @ \ {k}]
            /\ doomed' = [doomed EXCEPT ![q][b] = @ \ {k}]
    BY <2>1
  <2>3. UNCHANGED <<pc, age>>
    BY <1>5 DEF RemoveKey, writer
  <2>4. age[b] # 0 /\ pc[b] \in Ended
    BY <2>2
  <2>5. \A r \in Pruner, a \in Backup : doomed'[r][a] \subseteq doomed[r][a]
    BY <2>2
  <2>6. \A a \in Backup : a # b =>
            objects'[a] = objects[a] /\ \A r \in Pruner : doomed'[r][a] = doomed[r][a]
    BY <2>2
  <2>7. pc[b] = "available" => "manifest" \notin objects'[b]
    BY <2>2
  <2> QED
    BY <2>3, <2>4, <2>5, <2>6, <2>7
<1>6. ASSUME NEW q \in Pruner, StopPrune(q) PROVE WholeInv'
  BY <1>6 DEF StopPrune, writer
<1>7. CASE UNCHANGED vars
  BY <1>7 DEF vars, writer
<1> QED
  BY <1>1, <1>2, <1>3, <1>4, <1>5, <1>6, <1>7 DEF Next, WriterStep

\* A backup whose writer returned is whole as long as it reads as available,
\* through lost uploads and any number of prunes (writeBackup, pruneBackups).
THEOREM ReturnedStaysWhole == Spec => []ReturnedWhole
<1>1. Init => Typed /\ WholeInv
  BY DEF Init, Typed, WholeInv, States, Ended, File
<1>2. Typed /\ WholeInv /\ [Next]_vars => (Typed /\ WholeInv)'
  BY TypedStep, WholeStep
<1>3. Typed /\ WholeInv => ReturnedWhole
  BY DEF WholeInv, ReturnedWhole, Status
<1> QED
  BY <1>1, <1>2, <1>3, PTL DEF Spec

-----------------------------------------------------------------------------
\* The available backups newer than b.
Newer(b) == {a \in Available : a > b}

\* A backup whose manifest a prune is about to remove has Keep newer ones.
NewestInv ==
    \A q \in Pruner, b \in Backup :
        "manifest" \in doomed[q][b] /\ "manifest" \in objects[b] =>
            Cardinality(Newer(b)) >= Keep

LEMMA AvailableFacts ==
    /\ Available = {b \in Backup : "manifest" \in objects[b]}
    /\ IsFiniteSet(Backup)
    /\ Backup \subseteq Nat
BY BackupStoreAssumption, FS_Interval DEF BackupStoreAssumption, Available, Status, Backup

\* A larger set of backups has no fewer of them.
LEMMA MoreBackups ==
    ASSUME NEW S \in SUBSET Backup, NEW T \in SUBSET S, Cardinality(T) >= Keep
    PROVE  Cardinality(S) >= Keep
<1>1. IsFiniteSet(S)
  BY AvailableFacts, FS_Subset
<1>2. /\ IsFiniteSet(T) /\ Cardinality(T) <= Cardinality(S)
  BY <1>1, FS_Subset
<1>3. Cardinality(S) \in Nat /\ Cardinality(T) \in Nat /\ Keep \in Nat
  BY <1>1, <1>2, FS_CardinalityType, BackupStoreAssumption DEF BackupStoreAssumption
<1> QED
  BY <1>2, <1>3

\* While no manifest goes and no prune lists, what is newer than a backup only grows.
LEMMA NewestGrows ==
    ASSUME NewestInv, UNCHANGED doomed,
           \A b \in Backup : "manifest" \in objects[b] => "manifest" \in objects'[b],
           \A q \in Pruner, b \in Backup :
               "manifest" \in doomed[q][b] /\ "manifest" \in objects'[b] => "manifest" \in objects[b]
    PROVE  NewestInv'
<1>1. SUFFICES ASSUME NEW q \in Pruner, NEW b \in Backup,
                      "manifest" \in doomed[q][b], "manifest" \in objects'[b]
               PROVE  Cardinality(Newer(b)') >= Keep
  BY DEF NewestInv
<1>2. Cardinality(Newer(b)) >= Keep
  BY <1>1 DEF NewestInv
<1>3. Newer(b) = {a \in Backup : "manifest" \in objects[a] /\ a > b}
  BY AvailableFacts DEF Newer
<1>4. Newer(b)' = {a \in Backup : "manifest" \in objects'[a] /\ a > b}
  BY AvailableFacts DEF Newer, Available, Status
<1>5. Newer(b) \in SUBSET Newer(b)' /\ Newer(b)' \in SUBSET Backup
  BY <1>3, <1>4
<1> QED
  BY <1>2, <1>5, MoreBackups

\* Only a prune takes a manifest away.
LEMMA ManifestStays ==
    ASSUME Typed, NEW b \in Backup, WriterStep(b)
    PROVE  /\ UNCHANGED <<age, doomed>>
           /\ \A a \in Backup \ {b} : objects'[a] = objects[a]
           /\ "manifest" \in objects[b] => "manifest" \in objects'[b]
           /\ pc[b] \in Ended => objects'[b] = objects[b]
<1> USE DEF Typed
<1>1. CASE Start(b) \/ SourceFails(b) \/ Settled(b) \/ ListParts(b) \/ PutPart(b) \/ Throw(b)
  BY <1>1 DEF Start, SourceFails, Settled, ListParts, PutPart, Throw
<1>2. CASE PartStored(b) \/ PartFails(b)
  BY <1>2 DEF PartStored, PartFails, Ended
<1>3. CASE PutManifest(b) \/ ManifestFails(b) \/ RecordFailure(b)
  BY <1>3 DEF PutManifest, ManifestFails, RecordFailure, Ended
<1>4. CASE RemoveUploaded(b)
  BY <1>4, PartsApart DEF RemoveUploaded, Ended
<1>5. CASE StopWriter(b)
  BY <1>5 DEF StopWriter, Active
<1> QED
  BY <1>1, <1>2, <1>3, <1>4, <1>5 DEF WriterStep, Write

LEMMA NewestStep == Typed /\ WholeInv /\ NewestInv /\ [Next]_vars => NewestInv'
<1> SUFFICES ASSUME Typed, WholeInv, NewestInv, [Next]_vars PROVE NewestInv'
  OBVIOUS
<1>1. ASSUME NEW b \in Backup, WriterStep(b) PROVE NewestInv'
  <2>1. pc[b] \notin Ended => \A q \in Pruner : doomed[q][b] = {}
    BY DEF WholeInv
  <2>2. /\ UNCHANGED doomed
        /\ \A a \in Backup \ {b} : objects'[a] = objects[a]
        /\ "manifest" \in objects[b] => "manifest" \in objects'[b]
        /\ pc[b] \in Ended => objects'[b] = objects[b]
    BY <1>1, ManifestStays
  <2>3. \A a \in Backup : "manifest" \in objects[a] => "manifest" \in objects'[a]
    BY <2>2
  <2>4. \A q \in Pruner, a \in Backup :
            "manifest" \in doomed[q][a] /\ "manifest" \in objects'[a] => "manifest" \in objects[a]
    BY <2>1, <2>2
  <2> QED
    BY <2>2, <2>3, <2>4, NewestGrows
<1>2. ASSUME NEW b \in Backup, Grow(b) \/ ReadManifest(b) \/ RecordVerification(b) PROVE NewestInv'
  <2>1. UNCHANGED doomed /\ \A a \in Backup : "manifest" \in objects[a] <=> "manifest" \in objects'[a]
    BY <1>2 DEF Grow, ReadManifest, RecordVerification, writer, Typed
  <2> QED
    BY <2>1, NewestGrows
<1>3. ASSUME NEW q \in Pruner, ListBackups(q) PROVE NewestInv'
  <2>1. /\ doomed' = [doomed EXCEPT ![q] = [b \in Backup |-> IF b \in Removed THEN objects[b] ELSE {}]]
        /\ UNCHANGED objects
    BY <1>3 DEF ListBackups, writer
  <2>2. ASSUME NEW r \in Pruner, NEW b \in Backup,
               "manifest" \in doomed'[r][b], "manifest" \in objects[b]
        PROVE  Cardinality(Newer(b)) >= Keep
    <3>1. CASE "manifest" \in doomed[r][b]
      BY <2>2, <3>1 DEF NewestInv
    <3>2. CASE "manifest" \notin doomed[r][b]
      <4>1. b \in Removed
        BY <2>1, <2>2, <3>2 DEF Typed
      <4>2. b \in Available /\ b \notin Kept
        BY <2>2, <4>1, AvailableFacts DEF Removed
      <4>3. ~(Cardinality(Newer(b)) < Keep)
        BY <4>2 DEF Kept, Newer
      <4>4. Newer(b) \in SUBSET Backup
        BY DEF Newer, Available
      <4>5. IsFiniteSet(Newer(b))
        BY <4>4, AvailableFacts, FS_Subset
      <4>6. Cardinality(Newer(b)) \in Nat /\ Keep \in Nat
        BY <4>5, FS_CardinalityType, BackupStoreAssumption DEF BackupStoreAssumption
      <4> QED
        BY <4>3, <4>6
    <3> QED
      BY <3>1, <3>2
  <2>3. \A b \in Backup : Newer(b)' = Newer(b)
    BY <2>1 DEF Newer, Available, Status
  <2> QED
    BY <2>1, <2>2, <2>3 DEF NewestInv
<1>4. ASSUME NEW q \in Pruner, RemoveKey(q) PROVE NewestInv'
  <2>1. PICK c \in Backup : \E k \in doomed[q][c] :
            /\ objects' = [objects EXCEPT ![c] = @ \ {k}]
            /\ doomed' = [doomed EXCEPT ![q][c] = @ \ {k}]
    BY <1>4 DEF RemoveKey
  <2>2. PICK k \in doomed[q][c] :
            /\ objects' = [objects EXCEPT ![c] = @ \ {k}]
            /\ doomed' = [doomed EXCEPT ![q][c] = @ \ {k}]
    BY <2>1
  <2>3. SUFFICES ASSUME NEW r \in Pruner, NEW b \in Backup,
                        "manifest" \in doomed'[r][b], "manifest" \in objects'[b]
                 PROVE  Cardinality(Newer(b)') >= Keep
    BY DEF NewestInv
  <2>4. "manifest" \in doomed[r][b] /\ "manifest" \in objects[b]
    BY <2>2, <2>3 DEF Typed
  <2>5. Cardinality(Newer(b)) >= Keep
    BY <2>4 DEF NewestInv
  <2>6. \A d \in Backup : /\ Newer(d) = {a \in Backup : "manifest" \in objects[a] /\ a > d}
                          /\ Newer(d)' = {a \in Backup : "manifest" \in objects'[a] /\ a > d}
    BY AvailableFacts DEF Newer, Available, Status
  <2>7. \A a \in Backup \ {c} : objects'[a] = objects[a]
    BY <2>2 DEF Typed
  <2>8. CASE c \in Newer(b) /\ k = "manifest"
    <3>1. "manifest" \in doomed[q][c] /\ "manifest" \in objects[c] /\ c > b
      BY <2>6, <2>8
    <3>2. Cardinality(Newer(c)) >= Keep
      BY <3>1 DEF NewestInv
    <3>3. ASSUME NEW a \in Newer(c)
          PROVE  a \in Backup \ {c} /\ a > b /\ "manifest" \in objects'[a]
      <4>1. a \in Backup /\ "manifest" \in objects[a] /\ a > c
        BY <2>6
      <4>2. a # c /\ a > b
        BY <3>1, <4>1, BackupStoreAssumption DEF Backup, BackupStoreAssumption
      <4> QED
        BY <2>7, <4>1, <4>2
    <3>4. Newer(c) \in SUBSET Newer(b)' /\ Newer(b)' \in SUBSET Backup
      BY <2>6, <3>3
    <3> QED
      BY <3>2, <3>4, MoreBackups
  <2>9. CASE ~(c \in Newer(b) /\ k = "manifest")
    <3>1. \A a \in Newer(b) : "manifest" \in objects'[a]
      BY <2>2, <2>6, <2>7, <2>9 DEF Typed
    <3>2. Newer(b) \in SUBSET Newer(b)' /\ Newer(b)' \in SUBSET Backup
      BY <2>6, <3>1
    <3> QED
      BY <2>5, <3>2, MoreBackups
  <2> QED
    BY <2>8, <2>9
<1>5. ASSUME NEW q \in Pruner, StopPrune(q) PROVE NewestInv'
  <2>1. /\ UNCHANGED objects
        /\ \A r \in Pruner, b \in Backup : doomed'[r][b] \subseteq doomed[r][b]
    BY <1>5 DEF StopPrune, writer, Typed
  <2>2. \A b \in Backup : Newer(b)' = Newer(b)
    BY <2>1 DEF Newer, Available, Status
  <2> QED
    BY <2>1, <2>2 DEF NewestInv
<1>6. CASE UNCHANGED vars
  BY <1>6 DEF vars, NewestInv, Newer, Available, Status
<1> QED
  BY <1>1, <1>2, <1>3, <1>4, <1>5, <1>6 DEF Next, WriterStep

\* A prune takes an available backup away only while Keep newer ones read as
\* available, for any number of prunes at once (pruneBackups).
THEOREM PruneKeepsNewest == Spec => NewestKept
<1> DEFINE Keeps == \A b \in Backup : "manifest" \in objects[b] \ objects'[b] =>
                        Cardinality({a \in Available : a > b}) >= Keep
<1>1. Init => Typed /\ WholeInv /\ NewestInv
  BY DEF Init, Typed, WholeInv, NewestInv, States, Ended, File
<1>2. Typed /\ WholeInv /\ NewestInv /\ [Next]_vars => (Typed /\ WholeInv /\ NewestInv)'
  BY TypedStep, WholeStep, NewestStep
<1>3. Typed /\ NewestInv /\ [Next]_vars => [Keeps]_vars
  <2> SUFFICES ASSUME Typed, NewestInv, Next, NEW b \in Backup,
                      "manifest" \in objects[b], "manifest" \notin objects'[b]
               PROVE  Cardinality(Newer(b)) >= Keep
    BY DEF Newer
  <2>1. ASSUME NEW a \in Backup, WriterStep(a) PROVE FALSE
    <3>1. \A d \in Backup : "manifest" \in objects[d] => "manifest" \in objects'[d]
      BY <2>1, ManifestStays
    <3> QED
      BY <3>1
  <2>2. ASSUME NEW a \in Backup, Grow(a) \/ ReadManifest(a) \/ RecordVerification(a) PROVE FALSE
    BY <2>2 DEF Grow, ReadManifest, RecordVerification, Typed, writer
  <2>3. ASSUME NEW q \in Pruner, ListBackups(q) \/ StopPrune(q) PROVE FALSE
    BY <2>3 DEF ListBackups, StopPrune
  <2>4. ASSUME NEW q \in Pruner, RemoveKey(q) PROVE "manifest" \in doomed[q][b]
    BY <2>4 DEF RemoveKey, Typed
  <2> QED
    BY <2>1, <2>2, <2>3, <2>4 DEF Next, WriterStep, NewestInv
<1> QED
  BY <1>1, <1>2, <1>3, PTL DEF Spec, NewestKept
=============================================================================
