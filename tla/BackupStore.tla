---------------------------- MODULE BackupStore ----------------------------
(***************************************************************************)
(* Backups of one profile in the object store                              *)
(* (src/server/storage/backup.js).  A writer stores the parts of its       *)
(* backup with bounded uploads in flight, lists them, and stores the       *)
(* manifest, its commit point; when it fails it stores a failure record    *)
(* and removes the parts it saw stored.  A prune lists the backups and     *)
(* removes the ones retention no longer keeps, the manifest first.         *)
(*                                                                         *)
(* A call to the store may fail whether or not the store did what it was   *)
(* asked (the driver retries, then throws).  A writer or a prune may stop  *)
(* at any step.  The several streams of a backup are one stream here.      *)
(***************************************************************************)
EXTENDS Naturals, FiniteSets

CONSTANTS
    Count,         \* number of backups, whose ids sort by the time they start
    Part,          \* the parts of a backup
    Concurrency,   \* UPLOAD_CONCURRENCY
    Pruner,        \* prunes that may run at once
    Keep           \* the newest available backups a prune keeps

Backup == 1..Count

ASSUME BackupStoreAssumption ==
    /\ Count \in Nat
    /\ Concurrency \in Nat \ {0}
    /\ Keep \in Nat
    /\ IsFiniteSet(Part)
    /\ Part \cap {"manifest", "failure", "verification"} = {}

File == Part \cup {"manifest", "failure", "verification"}

VARIABLES
    pc,          \* pc[b]: where the writer of b is in writeBackup
    objects,     \* objects[b]: the objects the store holds under the prefix of b
    sent,        \* sent[b]: the parts whose upload started
    inFlight,    \* inFlight[b]: uploads that have not settled
    uploaded,    \* uploaded[b]: the parts the store answered for
    age,         \* age[b]: 0 up to graceHours, 1 up to maxAgeDays, 2 beyond
    verifying,   \* backups whose manifest a verification has read
    doomed       \* doomed[q][b]: the listed objects of b that prune q has yet to remove

writer == <<pc, sent, inFlight, uploaded>>
vars == <<writer, objects, age, verifying, doomed>>

States == {"idle", "writing", "settling", "listed", "failing", "sweeping",
           "available", "failed", "stopped"}
Ended == {"available", "failed", "stopped"}

Active(b) == pc[b] \notin Ended \cup {"idle"}

Goto(b, s) == pc' = [pc EXCEPT ![b] = s]

\* The call ends, and its local variables with it.
Leave(b, s) ==
    /\ Goto(b, s)
    /\ sent' = [sent EXCEPT ![b] = {}]
    /\ inFlight' = [inFlight EXCEPT ![b] = {}]
    /\ uploaded' = [uploaded EXCEPT ![b] = {}]

-----------------------------------------------------------------------------
Init ==
    /\ pc = [b \in Backup |-> "idle"]
    /\ objects = [b \in Backup |-> {}]
    /\ sent = [b \in Backup |-> {}]
    /\ inFlight = [b \in Backup |-> {}]
    /\ uploaded = [b \in Backup |-> {}]
    /\ age = [b \in Backup |-> 0]
    /\ verifying = {}
    /\ doomed = [q \in Pruner |-> [b \in Backup |-> {}]]

\* Time passes: an older backup crosses each limit first, and a writer ends
\* within graceHours of its start.
Grow(b) ==
    /\ age[b] < 2
    /\ pc[b] \in Ended
    /\ \A a \in Backup : a < b => age[a] > age[b]
    /\ age' = [age EXCEPT ![b] = @ + 1]
    /\ UNCHANGED <<writer, objects, verifying, doomed>>

-----------------------------------------------------------------------------
(* writeBackup and writeStream *)

Start(b) ==
    /\ pc[b] = "idle"
    /\ \A a \in Backup : a < b => pc[a] # "idle"
    /\ Goto(b, "writing")
    /\ UNCHANGED <<sent, inFlight, uploaded, objects, age, verifying, doomed>>

\* Whether the loop awaits an upload: Promise.race at the limit, Promise.all at the end.
Awaits(b) ==
    \/ Cardinality(inFlight[b]) >= Concurrency
    \/ sent[b] = Part /\ inFlight[b] # {}

PutPart(b) ==
    /\ pc[b] = "writing"
    /\ ~Awaits(b)
    /\ \E p \in Part \ sent[b] :
        /\ sent' = [sent EXCEPT ![b] = @ \cup {p}]
        /\ inFlight' = [inFlight EXCEPT ![b] = @ \cup {p}]
    /\ UNCHANGED <<pc, uploaded, objects, age, verifying, doomed>>

PartStored(b) ==
    /\ pc[b] \in {"writing", "settling"}
    /\ \E p \in inFlight[b] :
        /\ objects' = [objects EXCEPT ![b] = @ \cup {p}]
        /\ inFlight' = [inFlight EXCEPT ![b] = @ \ {p}]
        /\ uploaded' = [uploaded EXCEPT ![b] = @ \cup {p}]
    /\ UNCHANGED <<pc, sent, age, verifying, doomed>>

\* A rejected upload leaves `inFlight` whoever looks at it: only one that is
\* awaited then fails the stream.
PartFails(b) ==
    /\ pc[b] \in {"writing", "settling"}
    /\ \E p \in inFlight[b] :
        /\ \E landed \in SUBSET {p} : objects' = [objects EXCEPT ![b] = @ \cup landed]
        /\ inFlight' = [inFlight EXCEPT ![b] = @ \ {p}]
    /\ Goto(b, IF Awaits(b) THEN "settling" ELSE pc[b])
    /\ UNCHANGED <<sent, uploaded, age, verifying, doomed>>

\* The producer of the stream, or its tap, throws.
SourceFails(b) ==
    /\ pc[b] = "writing"
    /\ Goto(b, "settling")
    /\ UNCHANGED <<sent, inFlight, uploaded, objects, age, verifying, doomed>>

Settled(b) ==
    /\ pc[b] = "settling"
    /\ inFlight[b] = {}
    /\ Goto(b, "failing")
    /\ UNCHANGED <<sent, inFlight, uploaded, objects, age, verifying, doomed>>

\* Mutant of ListParts: the uploads that were awaited are taken for all of them.
ListNothing(b) ==
    /\ pc[b] = "writing"
    /\ sent[b] = Part
    /\ inFlight[b] = {}
    /\ \E s \in {"listed", "failing"} : Goto(b, s)
    /\ UNCHANGED <<sent, inFlight, uploaded, objects, age, verifying, doomed>>

\* The store must list every part.
ListParts(b) ==
    /\ pc[b] = "writing"
    /\ sent[b] = Part
    /\ inFlight[b] = {}
    /\ \/ Part \subseteq objects[b] /\ Goto(b, "listed")
       \/ Goto(b, "failing")
    /\ UNCHANGED <<sent, inFlight, uploaded, objects, age, verifying, doomed>>

PutManifest(b) ==
    /\ pc[b] = "listed"
    /\ objects' = [objects EXCEPT ![b] = @ \cup {"manifest"}]
    /\ Leave(b, "available")
    /\ UNCHANGED <<age, verifying, doomed>>

\* beforeCommit throws, or the put of the manifest does.
ManifestFails(b) ==
    /\ pc[b] = "listed"
    /\ \E landed \in SUBSET {"manifest"} : objects' = [objects EXCEPT ![b] = @ \cup landed]
    /\ Goto(b, "failing")
    /\ UNCHANGED <<sent, inFlight, uploaded, age, verifying, doomed>>

RecordFailure(b) ==
    /\ pc[b] = "failing"
    /\ \E landed \in SUBSET {"failure"} : objects' = [objects EXCEPT ![b] = @ \cup landed]
    /\ Goto(b, "sweeping")
    /\ UNCHANGED <<sent, inFlight, uploaded, age, verifying, doomed>>

RemoveUploaded(b) ==
    /\ pc[b] = "sweeping"
    /\ \E p \in uploaded[b] :
        /\ objects' = [objects EXCEPT ![b] = @ \ {p}]
        /\ uploaded' = [uploaded EXCEPT ![b] = @ \ {p}]
    /\ UNCHANGED <<pc, sent, inFlight, age, verifying, doomed>>

\* The removal is over, or fails and leaves parts: the error is thrown on.
Throw(b) ==
    /\ pc[b] = "sweeping"
    /\ Leave(b, "failed")
    /\ UNCHANGED <<objects, age, verifying, doomed>>

\* The process of the writer ends: what it had sent may still be stored.
StopWriter(b) ==
    /\ Active(b)
    /\ \E landed \in SUBSET (inFlight[b] \cup (IF pc[b] = "listed" THEN {"manifest"} ELSE {})) :
        objects' = [objects EXCEPT ![b] = @ \cup landed]
    /\ Leave(b, "stopped")
    /\ UNCHANGED <<age, verifying, doomed>>

-----------------------------------------------------------------------------
(* verifyBackup and recordVerification *)

ReadManifest(b) ==
    /\ "manifest" \in objects[b]
    /\ b \notin verifying
    /\ verifying' = verifying \cup {b}
    /\ UNCHANGED <<writer, objects, age, doomed>>

\* The report is stored, whatever became of the backup since.
RecordVerification(b) ==
    /\ b \in verifying
    /\ verifying' = verifying \ {b}
    /\ objects' = [objects EXCEPT ![b] = @ \cup {"verification"}]
    /\ UNCHANGED <<writer, age, doomed>>

-----------------------------------------------------------------------------
(* listBackups and pruneBackups *)

Status(b) ==
    CASE objects[b] = {} -> "none"
      [] "manifest" \in objects[b] -> "available"
      [] "failure" \in objects[b] /\ "manifest" \notin objects[b] -> "failed"
      [] OTHER -> "incomplete"

Available == {b \in Backup : Status(b) = "available"}

\* Mutant of Kept: the newest backups are kept, available or not.
KeptOfAll ==
    {b \in Available : Cardinality({a \in Backup : a > b /\ Status(a) # "none"}) < Keep}

Kept == {b \in Available : Cardinality({a \in Available : a > b}) < Keep}

\* Mutant of Removed: an incomplete backup is taken for one that is still written.
RemovedComplete ==
    {b \in Backup \ Kept : Status(b) \notin {"none", "incomplete"}
        /\ age[b] >= (IF b \in Available THEN 2 ELSE 1)}

Removed ==
    {b \in Backup \ Kept : Status(b) # "none" /\ age[b] >= (IF b \in Available THEN 2 ELSE 1)}

ListBackups(q) ==
    /\ \A b \in Backup : doomed[q][b] = {}
    /\ Removed # {}
    /\ doomed' = [doomed EXCEPT ![q] = [b \in Backup |-> IF b \in Removed THEN objects[b] ELSE {}]]
    /\ UNCHANGED <<writer, objects, age, verifying>>

\* One object of a removal; the manifest of a backup goes first.
RemoveKey(q) ==
    /\ \E b \in Backup : \E k \in doomed[q][b] :
        /\ k = "manifest" \/ "manifest" \notin doomed[q][b]
        /\ objects' = [objects EXCEPT ![b] = @ \ {k}]
        /\ doomed' = [doomed EXCEPT ![q][b] = @ \ {k}]
    /\ UNCHANGED <<writer, age, verifying>>

\* A removal fails, or the process of the prune ends.
StopPrune(q) ==
    /\ \E b \in Backup : doomed[q][b] # {}
    /\ doomed' = [doomed EXCEPT ![q] = [b \in Backup |-> {}]]
    /\ UNCHANGED <<writer, objects, age, verifying>>

-----------------------------------------------------------------------------
Write(b) ==
    \/ PutPart(b) \/ PartStored(b) \/ PartFails(b) \/ SourceFails(b) \/ Settled(b)
    \/ ListParts(b) \/ PutManifest(b) \/ ManifestFails(b)
    \/ RecordFailure(b) \/ RemoveUploaded(b) \/ Throw(b)

Next ==
    \/ \E b \in Backup :
        \/ Start(b) \/ Write(b) \/ StopWriter(b) \/ Grow(b)
        \/ ReadManifest(b) \/ RecordVerification(b)
    \/ \E q \in Pruner : ListBackups(q) \/ RemoveKey(q) \/ StopPrune(q)

Spec == Init /\ [][Next]_vars

\* A writer that goes on ends, time passes, the scheduled job prunes every day,
\* and a removal that is asked for again and again succeeds in the end.
Fairness ==
    /\ \A b \in Backup : WF_vars(Write(b)) /\ WF_vars(Grow(b))
    /\ \A q \in Pruner : WF_vars(ListBackups(q)) /\ SF_vars(RemoveKey(q))

FairSpec == Spec /\ Fairness

-----------------------------------------------------------------------------
(* Properties *)

\* Every variable has its type, at most UPLOAD_CONCURRENCY uploads of a stream are
\* in flight, and none is once the stream has ended, so that none lands after the
\* parts of a failed backup are removed (writeStream).
TypeOK ==
    /\ pc \in [Backup -> States]
    /\ objects \in [Backup -> SUBSET File]
    /\ sent \in [Backup -> SUBSET Part]
    /\ inFlight \in [Backup -> SUBSET Part]
    /\ uploaded \in [Backup -> SUBSET Part]
    /\ age \in [Backup -> 0..2]
    /\ verifying \in SUBSET Backup
    /\ doomed \in [Pruner -> [Backup -> SUBSET File]]
    /\ \A b \in Backup : Cardinality(inFlight[b]) <= Concurrency
    /\ \A b \in Backup : inFlight[b] # {} => pc[b] \in {"writing", "settling"}

\* A backup whose writer returned its manifest has every part, as long as it
\* reads as available: through rejected uploads nobody awaited (writeStream), and
\* through prunes that list, remove and stop at any moment (pruneBackups).
ReturnedWhole ==
    \A b \in Backup : pc[b] = "available" /\ Status(b) = "available" => Part \subseteq objects[b]

\* A prune takes an available backup away only while Keep newer ones read as
\* available, whichever backups are being written, have failed or become available
\* since its listing, and whatever another prune removes on a listing of its own.
NewestKept ==
    [][\A b \in Backup : "manifest" \in objects[b] \ objects'[b] =>
        Cardinality({a \in Available : a > b}) >= Keep]_vars

\* What a failed or stopped writer leaves without a manifest is gone in the end,
\* however often a prune is interrupted.
RemainsGo ==
    \A b \in Backup :
        pc[b] \in {"failed", "stopped"} /\ "manifest" \notin objects[b] ~> objects[b] = {}

\* A backup that fails reads as failed, never as available ("so it reads as
\* failed, never as partial").
FailedReadsFailed == \A b \in Backup : pc[b] = "failed" => Status(b) # "available"
=============================================================================
