--------------------------- MODULE MCBackupStore ---------------------------
(***************************************************************************)
(* Small instances of BackupStore for TLC, in one run.  From the start,    *)
(* two backups are written beside one prune.  Later on, two backups are    *)
(* available and the manifest of a third is to be stored, beside two       *)
(* prunes, each of which may act on a listing the other has made old; no   *)
(* verification begins then.                                               *)
(***************************************************************************)
EXTENDS BackupStore, TLC

CONSTANTS part1, part2,    \* parts
          prune1, prune2   \* prunes

\* Which of the two: from the start, the third backup is never written.
Later == pc[3] # "idle"

LaterInit ==
    /\ pc = [b \in Backup |-> IF b = 3 THEN "listed" ELSE "available"]
    /\ objects = [b \in Backup |-> Part \cup (IF b = 3 THEN {} ELSE {"manifest"})]
    /\ sent = [b \in Backup |-> IF b = 3 THEN Part ELSE {}]
    /\ inFlight = [b \in Backup |-> {}]
    /\ uploaded = sent
    /\ age = [b \in Backup |-> 3 - b]
    /\ verifying = {}
    /\ doomed = [q \in Pruner |-> [b \in Backup |-> {}]]

\* The step A of backup b, or of prune q, where it is part of the run.
OfWriter(b, A) == A /\ pc'[3] # "writing"
OfPrune(q, A) == A /\ (q = prune1 \/ Later)

MCNext ==
    \/ \E b \in Backup :
        OfWriter(b, \/ Start(b) \/ Write(b) \/ StopWriter(b) \/ Grow(b)
                    \/ (ReadManifest(b) /\ ~Later) \/ RecordVerification(b))
    \/ \E q \in Pruner : OfPrune(q, ListBackups(q) \/ RemoveKey(q) \/ StopPrune(q))

\* Fairness, of the prunes that are part of the run.
MCFairness ==
    /\ \A b \in Backup : WF_vars(Write(b)) /\ WF_vars(Grow(b))
    /\ \A q \in Pruner :
        WF_vars(OfPrune(q, ListBackups(q))) /\ SF_vars(OfPrune(q, RemoveKey(q)))

MCSpec == (Init \/ LaterInit) /\ [][MCNext]_vars /\ MCFairness
=============================================================================
