------------------------- MODULE FileChangeSetProofs -------------------------
(***************************************************************************)
(* Proofs about FileChangeSet, for every set of runs, targets and contents *)
(* and however many runs stop, where they like: what a run planned lands   *)
(* whole or not at all.  At each step the whole journal, if there is one,  *)
(* says of each target how to come back to the tree that was promised.     *)
(***************************************************************************)
EXTENDS FileChangeSet, TLAPS

\* What rolling t back for run r would change: nothing.
Settled(r, t) == backup[r][t] = Absent /\ (t \in created[r] => disk[t] = Absent)

OneAtATime == \A q, r \in Run : Active(q) /\ Active(r) => q = r
OneJournal == \A q, r \in Run : journal[q] # "none" /\ journal[r] # "none" => q = r

\* What holds of a run wherever it is.
Rest(r) ==
    /\ state[r] \in {"idle"} \cup (Ended \ {"crashed"}) => journal[r] = "none"
    /\ state[r] = "idle" => \A t \in Target : backup[r][t] = Absent
    /\ \A t \in created[r] : backup[r][t] = Absent
    /\ \A t \in pending[r] : wanted[r][t] \in Content
    /\ current[r] # Nothing => state[r] = "swap"

\* What holds of the run that is active: its journal and the others', and where
\* each target, its staged file and its backup are.
Work(r) ==
    /\ state[r] \in {"recover", "restore", "stage", "clean"} => journal[r] = "none"
    /\ state[r] = "journal" => journal[r] = "torn"
    /\ state[r] \in {"swap", "commit"} => journal[r] = "whole"
    /\ state[r] \in {"stage", "journal", "swap", "commit", "clean", "rollback"} =>
          \A q \in Run \ {r} : journal[q] = "none"
    /\ state[r] \in {"recover", "restore", "stage", "journal"} =>
          \A t \in Target : backup[r][t] = Absent
    /\ state[r] \in {"stage", "journal"} \/ (state[r] = "rollback" /\ journal[r] # "whole") =>
          \A t \in pending[r] : Settled(r, t)
    /\ state[r] = "restore" =>
          /\ victim[r] \in Run
          /\ journal[victim[r]] = "whole"
          /\ todo[r] \subseteq pending[victim[r]]
          /\ \A t \in pending[victim[r]] \ todo[r] : Settled(victim[r], t)
    /\ state[r] = "rollback" =>
          /\ todo[r] \subseteq pending[r]
          /\ \A t \in pending[r] \ todo[r] : Settled(r, t)
    /\ state[r] = "swap" =>
          /\ todo[r] \subseteq pending[r]
          /\ \A t \in todo[r] : t # current[r] => backup[r][t] = Absent
          /\ current[r] # Nothing => backup[r][current[r]] # Absent
    /\ state[r] = "commit" => Landed(r)

FileInv ==
    /\ TypeOK
    /\ OneAtATime
    /\ OneJournal
    /\ \A r \in Run : Rest(r)
    /\ \A r \in Run : Work(r)

-----------------------------------------------------------------------------
LEMMA InitInv == Init => FileInv
<1> SUFFICES ASSUME Init PROVE FileInv
  OBVIOUS
<1> USE DEF Init
<1>1. TypeOK
  BY DEF TypeOK, States, FileContent
<1>2. OneAtATime /\ OneJournal
  BY DEF OneAtATime, OneJournal, Active
<1>3. \A r \in Run : Rest(r) /\ Work(r)
  BY DEF Rest, Work, Ended
<1> QED
  BY <1>1, <1>2, <1>3 DEF FileInv

\* The step of r that rolls back a target, which is one of its loop.
LEMMA RestoredType ==
    ASSUME FileInv, NEW v \in Run, NEW t \in Target
    PROVE  Restored(v, t) \in FileContent
BY DEF FileInv, TypeOK, Restored, FileContent

LEMMA TypeStep == FileInv /\ [Next]_vars => TypeOK'
<1> SUFFICES ASSUME FileInv, [Next]_vars PROVE TypeOK'
  OBVIOUS
<1>0. TypeOK /\ \A q \in Run : Rest(q) /\ Work(q)
  BY DEF FileInv
<1> USE DEF TypeOK, Goto, Loop, planVars, States
<1>a. \A q \in Run : state[q] # "swap" => current[q] = Nothing
  BY <1>0 DEF Rest
<1> USE <1>0, <1>a
<1>1. ASSUME NEW r \in Run, Plan(r) PROVE TypeOK'
  <2>1. PICK c \in Changes :
            LET differing == {t \in DOMAIN c : disk[t] # c[t]} IN
            /\ wanted' = [wanted EXCEPT ![r] = c]
            /\ pending' = [pending EXCEPT ![r] = differing]
            /\ Goto(r, IF differing = {} THEN "unchanged" ELSE "recover")
    BY <1>1 DEF Plan
  <2>2. PICK D \in SUBSET Target : c \in [D -> Content]
    BY DEF Changes
  <2>3. {t \in DOMAIN c : disk[t] # c[t]} \in SUBSET Target
    BY <2>2
  <2>4. wanted' \in [Run -> Changes \cup {[t \in {} |-> Absent]}]
    BY <2>1
  <2>5. pending' \in [Run -> SUBSET Target] /\ state' \in [Run -> States]
    BY <2>1, <2>3
  <2> QED
    BY <1>1, <2>4, <2>5 DEF Plan
<1>2. ASSUME NEW r \in Run, TakeJournal(r) \/ TornJournal(r) \/ DropJournal(r) PROVE TypeOK'
  <2>1. CASE TakeJournal(r)
    BY <2>1 DEF TakeJournal
  <2>2. CASE TornJournal(r)
    BY <2>2 DEF TornJournal
  <2>3. CASE DropJournal(r)
    BY <2>3 DEF DropJournal
  <2> QED
    BY <1>2, <2>1, <2>2, <2>3
<1>3. ASSUME NEW r \in Run, NEW v \in Run, state[r] # "swap",
             RollbackStage(r, v) \/ RollbackTarget(r, v)
      PROVE  TypeOK'
  <2>1. CASE RollbackStage(r, v)
    BY <2>1 DEF RollbackStage
  <2>2. ASSUME NEW t \in todo[r] \ stage[v],
               disk' = [disk EXCEPT ![t] = Restored(v, t)],
               backup' = [backup EXCEPT ![v][t] = Absent],
               Loop(r, todo[r] \ {t}),
               UNCHANGED <<state, planVars, current, victim, stage, journal>>
        PROVE  TypeOK'
    <3>1. t \in Target /\ Restored(v, t) \in FileContent
      BY RestoredType
    <3>2. disk' \in [Target -> FileContent]
      BY <2>2, <3>1
    <3>3. backup' \in [Run -> [Target -> FileContent]]
      BY <2>2, <3>1 DEF FileContent
    <3>4. current[r] = Nothing
      BY <1>0, <1>3 DEF Rest
    <3> QED
      BY <2>2, <3>2, <3>3, <3>4
  <2> QED
    BY <1>3, <2>1, <2>2 DEF RollbackTarget
<1>4. ASSUME NEW r \in Run, RestoreEntry(r) \/ RollbackEntry(r) PROVE TypeOK'
  BY <1>0, <1>3, <1>4 DEF RestoreEntry, RollbackEntry, Work
<1>5. ASSUME NEW r \in Run,
             Prepare(r) \/ Stage(r) \/ OpenJournal(r) \/ FillJournal(r) \/ Verify(r) \/ Fail(r)
      PROVE  TypeOK'
  <2>1. CASE Prepare(r)
    BY <2>1 DEF Prepare
  <2>2. CASE Stage(r)
    BY <2>2 DEF Stage
  <2>3. CASE OpenJournal(r) \/ FillJournal(r)
    BY <2>3 DEF OpenJournal, FillJournal
  <2>4. CASE Verify(r) \/ Fail(r)
    BY <2>4 DEF Verify, Fail
  <2> QED
    BY <1>5, <2>1, <2>2, <2>3, <2>4
<1>6. ASSUME NEW r \in Run, MoveAside(r) PROVE TypeOK'
  BY <1>6 DEF MoveAside, FileContent
<1>7. ASSUME NEW r \in Run, Place(r) PROVE TypeOK'
  <2>1. \A t \in todo[r] : wanted[r][t] \in FileContent
    BY <1>0, <1>7 DEF Place, Rest, Work, FileContent
  <2> QED
    BY <1>7, <2>1 DEF Place
<1>8. ASSUME NEW r \in Run, Throw(r) \/ Commit(r) \/ Clean(r) \/ Return(r) PROVE TypeOK'
  <2>1. CASE Throw(r) \/ Return(r)
    BY <2>1 DEF Throw, Return
  <2>2. CASE Commit(r)
    BY <2>2 DEF Commit
  <2>3. CASE Clean(r)
    BY <2>3 DEF Clean, FileContent
  <2> QED
    BY <1>8, <2>1, <2>2, <2>3
<1>9. ASSUME NEW r \in Run, Crash(r) PROVE TypeOK'
  BY <1>9 DEF Crash
<1>10. CASE UNCHANGED vars
  BY <1>10 DEF vars
<1> QED
  BY <1>1, <1>2, <1>4, <1>5, <1>6, <1>7, <1>8, <1>9, <1>10 DEF Next

-----------------------------------------------------------------------------
\* A step of r, which is active or finds nobody active, concerns r and the
\* journals alone.
LEMMA StepOf ==
    ASSUME TypeOK, OneAtATime, NEW r \in Run,
           Active(r) \/ \A q \in Run : ~Active(q),
           NEW s, state' = [state EXCEPT ![r] = s],
           Work(r)'
    PROVE  OneAtATime' /\ \A q \in Run : Work(q)'
<1>1. \A q \in Run \ {r} : ~Active(q) /\ state'[q] = state[q]
  BY DEF OneAtATime, TypeOK
<1>2. \A q \in Run \ {r} : ~Active(q)'
  BY <1>1 DEF Active
\* Only the active run has work.
<1>3. \A q \in Run : ~Active(q)' => Work(q)'
  BY DEF Active, Ended, Work
<1> QED
  BY <1>2, <1>3 DEF OneAtATime

\* What a step of r leaves alone of the files of the others.
LEMMA RestOf ==
    ASSUME TypeOK, NEW r \in Run, \A q \in Run : Rest(q),
           NEW s, state' = [state EXCEPT ![r] = s],
           \A q \in Run \ {r} :
              /\ journal'[q] \in {journal[q], "none"}
              /\ created'[q] = created[q] /\ pending'[q] = pending[q] /\ wanted'[q] = wanted[q]
              /\ current'[q] = current[q]
              /\ \A t \in Target : backup'[q][t] \in {backup[q][t], Absent},
           Rest(r)'
    PROVE  \A q \in Run : Rest(q)'
<1>1. ASSUME NEW q \in Run \ {r} PROVE Rest(q)'
  <2>1. Rest(q) /\ state'[q] = state[q]
    BY DEF TypeOK
  <2>2. created[q] \subseteq Target
    BY DEF TypeOK
  <2> QED
    BY <2>1, <2>2 DEF Rest
<1> QED
  BY <1>1

LEMMA InvStep == FileInv /\ [Next]_vars => FileInv'
<1> SUFFICES ASSUME FileInv, [Next]_vars PROVE FileInv'
  OBVIOUS
<1>0. TypeOK' /\ TypeOK /\ OneAtATime /\ OneJournal /\ \A q \in Run : Rest(q) /\ Work(q)
  BY TypeStep DEF FileInv
<1> USE DEF Goto, Loop, planVars
\* It is enough to look at the run that takes the step.
<1>a. ASSUME NEW r \in Run,
             Active(r) \/ \A q \in Run : ~Active(q),
             NEW s, state' = [state EXCEPT ![r] = s],
             \A q \in Run \ {r} :
                /\ journal'[q] \in {journal[q], "none"}
                /\ created'[q] = created[q] /\ pending'[q] = pending[q] /\ wanted'[q] = wanted[q]
                /\ current'[q] = current[q]
                /\ \A t \in Target : backup'[q][t] \in {backup[q][t], Absent},
             journal'[r] \in {journal[r], "none"} \/ \A q \in Run \ {r} : journal[q] = "none",
             Rest(r)', Work(r)'
      PROVE  FileInv'
  <2>1. OneAtATime' /\ \A q \in Run : Work(q)'
    BY <1>0, <1>a, StepOf
  <2>2. \A q \in Run : Rest(q)'
    BY <1>0, <1>a, RestOf
  <2>3. OneJournal'
    BY <1>0, <1>a DEF OneJournal
  <2> QED
    BY <1>0, <2>1, <2>2, <2>3 DEF FileInv
<1>b. ASSUME NEW r \in Run, Active(r), UNCHANGED <<state, planVars, journal>>,
             \A q \in Run \ {r} :
                current'[q] = current[q] /\ \A t \in Target : backup'[q][t] \in {backup[q][t], Absent},
             Rest(r)', Work(r)'
      PROVE  FileInv'
  <2>1. state' = [state EXCEPT ![r] = state[r]]
    BY <1>0, <1>b DEF TypeOK
  <2> QED
    BY <1>b, <2>1, <1>a
<1>1. ASSUME NEW r \in Run, Plan(r) PROVE FileInv'
  <2>1. PICK c \in Changes :
            LET differing == {t \in DOMAIN c : disk[t] # c[t]} IN
            /\ wanted' = [wanted EXCEPT ![r] = c]
            /\ pending' = [pending EXCEPT ![r] = differing]
            /\ Goto(r, IF differing = {} THEN "unchanged" ELSE "recover")
    BY <1>1 DEF Plan
  <2>2. PICK s \in {"unchanged", "recover"} : state' = [state EXCEPT ![r] = s]
    BY <2>1
  <2>3. \A t \in pending'[r] : wanted'[r][t] \in Content
    <3>1. PICK D \in SUBSET Target : c \in [D -> Content]
      BY DEF Changes
    <3> QED
      BY <1>0, <2>1, <3>1 DEF TypeOK
  <2>4. Rest(r)'
    BY <1>0, <1>1, <2>2, <2>3 DEF Plan, Rest, TypeOK, Ended
  <2>5. Work(r)'
    BY <1>0, <1>1, <2>2 DEF Plan, Rest, Work, TypeOK
  <2> QED
    BY <1>0, <1>1, <1>a, <2>1, <2>2, <2>4, <2>5 DEF Plan, TypeOK
<1>2. ASSUME NEW r \in Run, TakeJournal(r) PROVE FileInv'
  <2>1. Rest(r)'
    BY <1>0, <1>2 DEF TakeJournal, Rest, TypeOK, Ended
  <2>2. Work(r)'
    BY <1>0, <1>2 DEF TakeJournal, Work, TypeOK
  <2> QED
    BY <1>0, <1>2, <1>a, <2>1, <2>2 DEF TakeJournal, TypeOK, Active, Ended
<1>3. ASSUME NEW r \in Run, TornJournal(r) PROVE FileInv'
  <2>1. Rest(r)'
    BY <1>0, <1>3 DEF TornJournal, Rest, Work, TypeOK, Ended
  <2>2. Work(r)'
    BY <1>0, <1>3 DEF TornJournal, Work, TypeOK
  <2> QED
    BY <1>0, <1>3, <1>a, <2>1, <2>2 DEF TornJournal, TypeOK, Active, Ended
<1>4. ASSUME NEW r \in Run, NEW v \in Run, Active(r),
             (state[r] = "restore" /\ v = victim[r]) \/ (state[r] = "rollback" /\ v = r),
             RollbackStage(r, v) \/ RollbackTarget(r, v)
      PROVE  FileInv'
  <2>1. CASE RollbackStage(r, v)
    <3>1. Rest(r)' /\ Work(r)'
      BY <1>0, <2>1 DEF RollbackStage, Rest, Work, Settled, Landed
    <3> QED
      BY <1>0, <1>4, <1>a, <2>1, <3>1 DEF RollbackStage, TypeOK
  <2>2. ASSUME NEW t \in todo[r] \ stage[v],
               disk' = [disk EXCEPT ![t] = Restored(v, t)],
               backup' = [backup EXCEPT ![v][t] = Absent],
               Loop(r, todo[r] \ {t}),
               UNCHANGED <<state, planVars, current, victim, stage, journal>>
        PROVE  FileInv'
    <3>1. t \in Target /\ Rest(v) /\ Rest(r) /\ Work(r)
      BY <1>0 DEF TypeOK
    <3>2. \A q \in Run, x \in Target :
              backup'[q][x] = IF q = v /\ x = t THEN Absent ELSE backup[q][x]
      BY <1>0, <2>2, <3>1 DEF TypeOK
    <3>3. \A x \in Target : disk'[x] = IF x = t THEN Restored(v, t) ELSE disk[x]
      BY <1>0, <2>2 DEF TypeOK
    <3>4. \A x \in pending[v] : x = t \/ Settled(v, x) => Settled(v, x)'
      <4>1. pending[v] \subseteq Target
        BY <1>0 DEF TypeOK
      <4> QED
        BY <2>2, <3>1, <3>2, <3>3, <4>1 DEF Settled, Rest, Restored
    <3>5. Rest(r)'
      <4>1. created[r] \subseteq Target
        BY <1>0 DEF TypeOK
      <4> QED
        BY <2>2, <3>1, <3>2, <4>1 DEF Rest
    <3>6. todo'[r] = todo[r] \ {t}
      BY <1>0, <2>2 DEF TypeOK
    <3>7. Work(r)'
      <4>1. CASE state[r] = "restore" /\ v = victim[r]
        <5>1. v # r
          BY <3>1, <4>1 DEF Work
        <5> QED
          BY <2>2, <3>1, <3>2, <3>4, <3>6, <4>1, <5>1 DEF Work
      <4>2. CASE state[r] = "rollback" /\ v = r
        BY <2>2, <3>1, <3>4, <3>6, <4>2 DEF Work
      <4> QED
        BY <1>4, <4>1, <4>2
    <3> QED
      BY <1>0, <1>4, <1>a, <2>2, <3>2, <3>5, <3>7 DEF TypeOK
  <2> QED
    BY <1>4, <2>1, <2>2 DEF RollbackTarget
<1>5. ASSUME NEW r \in Run, RestoreEntry(r) \/ RollbackEntry(r) PROVE FileInv'
  <2>1. Active(r)
    BY <1>5 DEF RestoreEntry, RollbackEntry, Active, Ended
  <2>2. state[r] = "restore" => victim[r] \in Run
    BY <1>0 DEF Work
  <2>3. CASE RestoreEntry(r)
    <3>1. PICK v \in Run :
              /\ state[r] = "restore" /\ v = victim[r]
              /\ RollbackStage(r, v) \/ RollbackTarget(r, v)
      BY <2>2, <2>3 DEF RestoreEntry
    <3> QED
      BY <1>4, <2>1, <3>1
  <2>4. CASE RollbackEntry(r)
    <3>1. state[r] = "rollback" /\ (RollbackStage(r, r) \/ RollbackTarget(r, r))
      BY <2>4 DEF RollbackEntry
    <3> QED
      BY ONLY <1>4, <2>1, <3>1
  <2> QED
    BY <1>5, <2>3, <2>4
<1>6. ASSUME NEW r \in Run, DropJournal(r) PROVE FileInv'
  <2>1. Rest(r)'
    BY <1>0, <1>6 DEF DropJournal, Rest, Work, TypeOK, Ended
  <2>2. Work(r)'
    BY <1>0, <1>6 DEF DropJournal, Rest, Work, TypeOK
  <2> QED
    BY <1>0, <1>6, <1>a, <2>1, <2>2 DEF DropJournal, TypeOK, Active, Ended
<1>7. ASSUME NEW r \in Run, Prepare(r) PROVE FileInv'
  <2>1. Rest(r)'
    BY <1>0, <1>7 DEF Prepare, Rest, Work, TypeOK, Ended
  <2>2. Work(r)'
    BY <1>0, <1>7 DEF Prepare, Rest, Work, TypeOK, Settled
  <2> QED
    BY <1>0, <1>7, <1>a, <2>1, <2>2 DEF Prepare, TypeOK, Active, Ended
<1>8. ASSUME NEW r \in Run, Stage(r) PROVE FileInv'
  <2>1. Rest(r)'
    BY <1>0, <1>8 DEF Stage, Rest, Work, TypeOK, Ended
  <2>2. Work(r)'
    BY <1>0, <1>8 DEF Stage, Rest, Work, TypeOK, Settled
  <2> QED
    BY <1>0, <1>8, <1>b, <2>1, <2>2 DEF Stage, TypeOK, Active, Ended
<1>9. ASSUME NEW r \in Run, OpenJournal(r) PROVE FileInv'
  <2>1. Rest(r)'
    BY <1>0, <1>9 DEF OpenJournal, Rest, Work, TypeOK, Ended
  <2>2. Work(r)'
    BY <1>0, <1>9 DEF OpenJournal, Rest, Work, TypeOK, Settled
  <2>3. \A q \in Run \ {r} : journal[q] = "none"
    BY <1>0, <1>9 DEF OpenJournal, Work
  <2>4. Active(r)
    BY <1>9 DEF OpenJournal, Active, Ended
  <2>5. \A q \in Run \ {r} : journal'[q] = journal[q]
    BY <1>0, <1>9 DEF OpenJournal, TypeOK
  <2> QED
    BY <1>9, <1>a, <2>1, <2>2, <2>3, <2>4, <2>5 DEF OpenJournal
<1>10. ASSUME NEW r \in Run, FillJournal(r) PROVE FileInv'
  <2>1. Rest(r)'
    BY <1>0, <1>10 DEF FillJournal, Rest, Work, TypeOK, Ended
  <2>2. Work(r)'
    BY <1>0, <1>10 DEF FillJournal, Rest, Work, TypeOK
  <2>3. \A q \in Run \ {r} : journal[q] = "none"
    BY <1>0, <1>10 DEF FillJournal, Work
  <2>4. Active(r)
    BY <1>10 DEF FillJournal, Active, Ended
  <2>5. \A q \in Run \ {r} : journal'[q] = journal[q]
    BY <1>0, <1>10 DEF FillJournal, TypeOK
  <2> QED
    BY <1>10, <1>a, <2>1, <2>2, <2>3, <2>4, <2>5 DEF FillJournal
<1>11. ASSUME NEW r \in Run, MoveAside(r) PROVE FileInv'
  <2>1. PICK t \in todo[r] \ created[r] :
            /\ disk[t] # Absent
            /\ backup' = [backup EXCEPT ![r][t] = disk[t]]
            /\ current' = [current EXCEPT ![r] = t]
    BY <1>11 DEF MoveAside
  <2>2. \A x \in Target : backup'[r][x] = IF x = t THEN disk[t] ELSE backup[r][x]
    BY <1>0, <2>1 DEF TypeOK
  <2>3. Rest(r)'
    BY <1>0, <1>11, <2>1, <2>2 DEF MoveAside, Rest, TypeOK, Ended
  <2>4. Work(r)'
    BY <1>0, <1>11, <2>1, <2>2, FileChangeSetAssumption
       DEF MoveAside, Work, TypeOK, FileChangeSetAssumption, Nothing
  <2> QED
    BY <1>0, <1>11, <1>b, <2>1, <2>3, <2>4 DEF MoveAside, TypeOK, Active, Ended
<1>12. ASSUME NEW r \in Run, Place(r) PROVE FileInv'
  <2>1. PICK t \in todo[r] :
            /\ current[r] = t \/ current[r] = Nothing
            /\ todo' = [todo EXCEPT ![r] = todo[r] \ {t}]
    BY <1>12 DEF Place
  <2>2. Rest(r)'
    BY <1>0, <1>12 DEF Place, Rest, TypeOK, Ended
  <2>3. \A x \in todo'[r] : x \in pending[r] /\ x # t /\ x # Nothing /\ backup[r][x] = Absent
    BY <1>0, <1>12, <2>1, FileChangeSetAssumption DEF Place, Work, TypeOK, FileChangeSetAssumption, Nothing
  <2>4. Work(r)'
    BY <1>0, <1>12, <2>3 DEF Place, Work, TypeOK
  <2> QED
    BY <1>0, <1>12, <1>b, <2>2, <2>4 DEF Place, TypeOK, Active, Ended
<1>13. ASSUME NEW r \in Run, Verify(r) PROVE FileInv'
  <2>1. Rest(r)'
    BY <1>0, <1>13 DEF Verify, Rest, Work, TypeOK, Ended
  <2>2. Work(r)'
    BY <1>0, <1>13 DEF Verify, Rest, Work, TypeOK, Landed
  <2> QED
    BY <1>0, <1>13, <1>a, <2>1, <2>2 DEF Verify, TypeOK, Active, Ended
<1>14. ASSUME NEW r \in Run, Fail(r) PROVE FileInv'
  <2>1. Rest(r)'
    BY <1>0, <1>14 DEF Fail, Rest, Work, TypeOK, Ended
  <2>2. Work(r)'
    BY <1>0, <1>14 DEF Fail, Rest, Work, TypeOK, Settled
  <2> QED
    BY <1>0, <1>14, <1>a, <2>1, <2>2 DEF Fail, TypeOK, Active, Ended
<1>15. ASSUME NEW r \in Run, Throw(r) PROVE FileInv'
  <2>1. Rest(r)'
    BY <1>0, <1>15 DEF Throw, Rest, Work, TypeOK, Ended
  <2>2. Work(r)'
    BY <1>0, <1>15 DEF Throw, Rest, Work, TypeOK
  <2> QED
    BY <1>0, <1>15, <1>a, <2>1, <2>2 DEF Throw, TypeOK, Active, Ended
<1>16. ASSUME NEW r \in Run, Commit(r) PROVE FileInv'
  <2>1. Rest(r)'
    BY <1>0, <1>16 DEF Commit, Rest, Work, TypeOK, Ended
  <2>2. Work(r)'
    BY <1>0, <1>16 DEF Commit, Rest, Work, TypeOK
  <2> QED
    BY <1>0, <1>16, <1>a, <2>1, <2>2 DEF Commit, TypeOK, Active, Ended
<1>17. ASSUME NEW r \in Run, Clean(r) PROVE FileInv'
  <2>1. Rest(r)'
    BY <1>0, <1>17 DEF Clean, Rest, Work, TypeOK, Ended
  <2>2. Work(r)'
    BY <1>0, <1>17 DEF Clean, Rest, Work, TypeOK
  <2> QED
    BY <1>0, <1>17, <1>b, <2>1, <2>2 DEF Clean, TypeOK, Active, Ended
<1>18. ASSUME NEW r \in Run, Return(r) PROVE FileInv'
  <2>1. Rest(r)'
    BY <1>0, <1>18 DEF Return, Rest, Work, TypeOK, Ended
  <2>2. Work(r)'
    BY <1>0, <1>18 DEF Return, Rest, Work, TypeOK
  <2> QED
    BY <1>0, <1>18, <1>a, <2>1, <2>2 DEF Return, TypeOK, Active, Ended
<1>19. ASSUME NEW r \in Run, Crash(r) PROVE FileInv'
  <2>1. Rest(r)'
    BY <1>0, <1>19 DEF Crash, Rest, Work, TypeOK, Ended, Active
  <2>2. Work(r)'
    BY <1>0, <1>19 DEF Crash, Rest, Work, TypeOK
  <2> QED
    BY <1>0, <1>19, <1>a, <2>1, <2>2 DEF Crash, TypeOK, Active, Ended
<1>20. CASE UNCHANGED vars
  BY <1>0, <1>20 DEF vars, FileInv, OneAtATime, OneJournal, Active, Rest, Work, Settled, Landed
<1> QED
  BY <1>1, <1>2, <1>3, <1>5, <1>6, <1>7, <1>8, <1>9, <1>10, <1>11, <1>12, <1>13, <1>14,
     <1>15, <1>16, <1>17, <1>18, <1>19, <1>20 DEF Next

LEMMA FileInvariant == Spec => []FileInv
BY InitInv, InvStep, PTL DEF Spec

\* The type invariant, with the target that is aside in the loop of its run.
THEOREM ChangeSetTypeCorrect == Spec => []TypeOK
<1>1. FileInv => TypeOK
  BY DEF FileInv
<1> QED
  BY <1>1, FileInvariant, PTL

-----------------------------------------------------------------------------
\* The tree that is promised, in terms of the one whole journal.
TreeByJournal ==
    \A t \in Target :
        /\ \A v \in Run : journal[v] = "whole" /\ t \in pending[v] => Tree[t] = Restored(v, t)
        /\ (\A v \in Run : ~(journal[v] = "whole" /\ t \in pending[v])) => Tree[t] = disk[t]

LEMMA TreeOf == OneJournal => TreeByJournal
<1> SUFFICES ASSUME OneJournal, NEW t \in Target
             PROVE  /\ \A v \in Run : journal[v] = "whole" /\ t \in pending[v]
                            => Tree[t] = Restored(v, t)
                    /\ (\A v \in Run : ~(journal[v] = "whole" /\ t \in pending[v]))
                            => Tree[t] = disk[t]
  BY DEF TreeByJournal
<1>1. ASSUME NEW v \in Run, journal[v] = "whole", t \in pending[v]
      PROVE  Tree[t] = Restored(v, t)
  <2> DEFINE w == CHOOSE r \in Run : journal[r] = "whole" /\ t \in pending[r]
  <2>1. w \in Run /\ journal[w] = "whole"
    BY <1>1
  <2>2. w = v
    BY <1>1, <2>1 DEF OneJournal
  <2>3. Tree[t] = Restored(w, t)
    BY <1>1 DEF Tree
  <2> QED
    BY <2>2, <2>3
<1>2. ASSUME \A v \in Run : ~(journal[v] = "whole" /\ t \in pending[v])
      PROVE  Tree[t] = disk[t]
  BY <1>2 DEF Tree
<1> QED
  BY <1>1, <1>2

LEMMA TreeOfNext == OneJournal' => TreeByJournal'
BY TreeOf, PTL

\* Where whole journals have nothing to roll back the tree is the one on disk.
NothingToRollBack ==
    /\ OneJournal
    /\ disk \in [Target -> FileContent]
    /\ \A v \in Run : journal[v] = "whole" => \A t \in pending[v] : Settled(v, t)

TreeIsDisk == Tree = disk

LEMMA TreeOnDisk == NothingToRollBack => TreeIsDisk
<1> SUFFICES ASSUME NothingToRollBack PROVE Tree = disk
  BY DEF TreeIsDisk
<1>1. \A t \in Target : Tree[t] = disk[t]
  BY TreeOf DEF NothingToRollBack, TreeByJournal, Settled, Restored
<1> QED
  BY <1>1 DEF NothingToRollBack, Tree

LEMMA TreeOnDiskNext == NothingToRollBack' => TreeIsDisk'
BY TreeOnDisk, PTL

\* A run that throws leaves every target as it was, and no journal.
THEOREM FailureLeavesTree == Spec => FailureRestores
<1>1. FileInv /\ [Next]_vars =>
        \A r \in Run : state[r] # "failed" /\ state'[r] = "failed" =>
            disk' = Tree /\ \A q \in Run : journal'[q] = "none"
  <2> SUFFICES ASSUME FileInv, [Next]_vars, NEW r \in Run, state[r] # "failed", state'[r] = "failed"
               PROVE  disk' = Tree /\ \A q \in Run : journal'[q] = "none"
    OBVIOUS
  <2>0. TypeOK /\ OneJournal /\ \A q \in Run : Work(q)
    BY DEF FileInv
  <2>1. Throw(r)
    <3> USE DEF Goto
    <3>1. state \in [Run -> States]
      BY <2>0 DEF TypeOK
    <3> QED
      BY <3>1 DEF Next, vars, Plan, TakeJournal, TornJournal, RestoreEntry, RollbackStage, RollbackTarget,
         DropJournal, Prepare, Stage, OpenJournal, FillJournal, MoveAside, Place, Verify, Fail,
         RollbackEntry, Throw, Commit, Clean, Return, Crash
  <2>2. \A q \in Run \ {r} : journal[q] = "none"
    BY <2>0, <2>1 DEF Throw, Work
  <2>3. \A t \in pending[r] : Settled(r, t)
    BY <2>0, <2>1 DEF Throw, Work
  <2>4. Tree = disk
    BY <2>0, <2>2, <2>3, TreeOnDisk DEF TypeOK, NothingToRollBack, TreeIsDisk
  <2> QED
    BY <2>0, <2>1, <2>2, <2>4 DEF Throw, TypeOK
<1> QED
  BY <1>1, FileInvariant, PTL DEF Spec, FailureRestores

-----------------------------------------------------------------------------
(* The refinement *)

LEMMA SameTree ==
    ASSUME \A t \in Target : Tree'[t] = Tree[t] PROVE Tree' = Tree
BY DEF Tree

\* A step that touches no file a whole journal is about leaves the tree.
LEMMA JournalsKept ==
    ASSUME OneJournal, OneJournal', UNCHANGED disk,
           \A v \in Run : (journal'[v] = "whole") <=> (journal[v] = "whole"),
           \A v \in Run : journal[v] = "whole" =>
              pending'[v] = pending[v] /\ created'[v] = created[v] /\ backup'[v] = backup[v]
    PROVE  Tree' = Tree
<1>1. \A t \in Target : Tree'[t] = Tree[t]
  BY TreeOf, TreeOfNext DEF TreeByJournal, Restored
<1> QED
  BY <1>1, SameTree

\* Neither does one that moves a target of the whole journal so that it still comes
\* back to the same content.
LEMMA SameContent ==
    ASSUME OneJournal, OneJournal', UNCHANGED <<journal, pending>>, NEW v \in Run, journal[v] = "whole",
           NEW t \in pending[v], pending[v] \subseteq Target,
           \A x \in pending[v] : Restored(v, x)' = Restored(v, x),
           \A x \in Target \ {t} : disk'[x] = disk[x]
    PROVE  Tree' = Tree
<1>1. \A q \in Run : journal[q] = "whole" => q = v
  BY DEF OneJournal
<1>2. \A x \in Target : Tree'[x] = Tree[x]
  BY <1>1, TreeOf, TreeOfNext DEF TreeByJournal
<1> QED
  BY <1>2, SameTree

LEMMA RollbackKeepsTree ==
    ASSUME FileInv, OneJournal', NEW r \in Run, NEW v \in Run,
           RollbackStage(r, v) \/ RollbackTarget(r, v),
           todo[r] \subseteq pending[v],
           \/ journal[v] = "whole"
           \/ (\A q \in Run : journal[q] # "whole") /\ \A t \in pending[v] : Settled(v, t)
    PROVE  Tree' = Tree
<1>0. TypeOK /\ OneJournal /\ Rest(v)
  BY DEF FileInv
<1>1. CASE RollbackStage(r, v)
  BY <1>0, <1>1, JournalsKept DEF RollbackStage, planVars
<1>2. ASSUME NEW t \in todo[r] \ stage[v],
             disk' = [disk EXCEPT ![t] = Restored(v, t)],
             backup' = [backup EXCEPT ![v][t] = Absent],
             UNCHANGED <<state, planVars, current, victim, stage, journal>>
      PROVE  Tree' = Tree
  <2>1. t \in pending[v] /\ pending[v] \subseteq Target
    BY <1>0, <1>2 DEF TypeOK
  <2>2. \A x \in Target : /\ disk'[x] = IF x = t THEN Restored(v, t) ELSE disk[x]
                          /\ backup'[v][x] = IF x = t THEN Absent ELSE backup[v][x]
    BY <1>0, <1>2 DEF TypeOK
  <2>3. CASE journal[v] = "whole"
    <3>1. \A x \in pending[v] : Restored(v, x)' = Restored(v, x)
      BY <1>0, <1>2, <2>1, <2>2 DEF Restored, Rest, planVars
    <3> QED
      BY <1>0, <1>2, <2>1, <2>2, <2>3, <3>1, SameContent DEF planVars
  <2>4. CASE (\A q \in Run : journal[q] # "whole") /\ \A x \in pending[v] : Settled(v, x)
    <3>1. Restored(v, t) = disk[t]
      BY <2>1, <2>4 DEF Settled, Restored
    <3>2. UNCHANGED disk
      BY <1>0, <1>2, <3>1 DEF TypeOK
    <3> QED
      BY <1>0, <1>2, <2>4, <3>2, JournalsKept DEF planVars
  <2> QED
    BY <2>3, <2>4
<1> QED
  BY <1>1, <1>2 DEF RollbackTarget

Open == {"recover", "restore", "stage", "journal", "swap", "commit", "rollback"}

LEMMA OutcomeKept ==
    ASSUME TypeOK, NEW r \in Run, NEW s, state' = [state EXCEPT ![r] = s],
           \/ state[r] \in Open /\ s \in Open
           \/ state[r] \in {"clean", "applied"} /\ s \in {"clean", "applied"}
    PROVE  Outcome' = Outcome
BY DEF TypeOK, Outcome, Open, Ended

LEMMA OutcomeDropped ==
    ASSUME TypeOK, NEW r \in Run, NEW s \in Ended \ {"applied"}, state' = [state EXCEPT ![r] = s],
           state[r] \in Open
    PROVE  Outcome[r] = "open" /\ Outcome' = [Outcome EXCEPT ![r] = "dropped"]
BY DEF TypeOK, Outcome, Open, Ended

LEMMA StepMaps ==
    FileInv /\ FileInv' /\ [Next]_vars => [PlannedWrite!Next]_<<Tree, Planned, Outcome>>
<1> SUFFICES ASSUME FileInv, FileInv', [Next]_vars
             PROVE  PlannedWrite!Next \/ UNCHANGED <<Tree, Planned, Outcome>>
  OBVIOUS
<1>0. /\ TypeOK /\ OneJournal /\ \A q \in Run : Rest(q) /\ Work(q)
      /\ TypeOK' /\ OneJournal' /\ \A q \in Run : Rest(q)' /\ Work(q)'
  BY DEF FileInv
<1>a. ASSUME NEW r \in Run,
             \/ PlannedWrite!Ask(r)
             \/ PlannedWrite!Land(r)
             \/ PlannedWrite!Drop(r)
      PROVE  PlannedWrite!Next
  BY <1>a DEF PlannedWrite!Next
<1>b. ASSUME UNCHANGED <<wanted, pending>> PROVE Planned' = Planned
  BY <1>b DEF Planned
<1> USE DEF Goto, Loop, planVars
\* A run asks for what it planned.
<1>1. ASSUME NEW r \in Run, Plan(r) PROVE PlannedWrite!Ask(r)
  <2>1. PICK c \in Changes :
            LET differing == {t \in DOMAIN c : disk[t] # c[t]} IN
            /\ wanted' = [wanted EXCEPT ![r] = c]
            /\ pending' = [pending EXCEPT ![r] = differing]
            /\ Goto(r, IF differing = {} THEN "unchanged" ELSE "recover")
    BY <1>1 DEF Plan
  <2>2. PICK D \in SUBSET Target : c \in [D -> Content]
    BY DEF Changes
  <2> DEFINE differing == {t \in DOMAIN c : disk[t] # c[t]}
             g == [t \in differing |-> c[t]]
  <2>3. differing \in SUBSET Target /\ g \in [differing -> Content]
    BY <2>2
  <2>4. g \in PlannedWrite!Groups
    BY <2>3 DEF PlannedWrite!Groups
  <2>5. wanted'[r] = c /\ pending'[r] = differing
    BY <1>0, <2>1 DEF TypeOK
  <2>6. Planned' = [Planned EXCEPT ![r] = g]
    <3> HIDE DEF differing
    <3>1. \A q \in Run \ {r} : wanted'[q] = wanted[q] /\ pending'[q] = pending[q]
      BY <1>0, <2>1 DEF TypeOK
    <3> QED
      BY <2>5, <3>1 DEF Planned
  <2>7. PICK s \in {"unchanged", "recover"} : state' = [state EXCEPT ![r] = s]
    BY <2>1
  <2>8. PICK o \in {"open", "dropped"} : Outcome[r] = "idle" /\ Outcome' = [Outcome EXCEPT ![r] = o]
    <3>1. state[r] = "idle"
      BY <1>1 DEF Plan
    <3>2. CASE s = "unchanged"
      BY <1>0, <2>7, <3>1, <3>2 DEF TypeOK, Outcome, Ended
    <3>3. CASE s = "recover"
      BY <1>0, <2>7, <3>1, <3>3 DEF TypeOK, Outcome, Ended
    <3> QED
      BY <3>2, <3>3
  <2>9. Tree' = Tree
    <3>1. journal[r] = "none"
      BY <1>0, <1>1 DEF Plan, Rest
    <3> QED
      BY <1>0, <1>1, <2>1, <3>1, JournalsKept DEF Plan, TypeOK
  <2> HIDE DEF g
  <2> QED
    BY <2>4, <2>6, <2>8, <2>9 DEF PlannedWrite!Ask
\* Every step before the end leaves tree, groups and outcomes.
<1>2. ASSUME NEW r \in Run, TakeJournal(r) \/ Stage(r) \/ Verify(r) \/ Fail(r)
      PROVE  UNCHANGED <<Tree, Planned, Outcome>>
  <2>1. Tree' = Tree
    BY <1>0, <1>2, JournalsKept DEF TakeJournal, Stage, Verify, Fail
  <2>2. Planned' = Planned
    BY <1>2, <1>b DEF TakeJournal, Stage, Verify, Fail
  <2>3. Outcome' = Outcome
    <3>1. CASE Stage(r)
      BY <3>1 DEF Stage, Outcome
    <3>2. CASE TakeJournal(r) \/ Verify(r) \/ Fail(r)
      BY <1>0, <3>2, OutcomeKept DEF TakeJournal, Verify, Fail, Open
    <3> QED
      BY <1>2, <3>1, <3>2
  <2> QED
    BY <2>1, <2>2, <2>3
<1>3. ASSUME NEW r \in Run, Prepare(r) \/ OpenJournal(r) PROVE UNCHANGED <<Tree, Planned, Outcome>>
  <2>1. journal[r] = "none" /\ journal'[r] # "whole" /\ (\A q \in Run \ {r} : journal'[q] = journal[q])
    BY <1>0, <1>3 DEF Prepare, OpenJournal, Work, TypeOK
  <2>2. Tree' = Tree
    BY <1>0, <1>3, <2>1, JournalsKept DEF Prepare, OpenJournal, TypeOK
  <2>3. Planned' = Planned
    BY <1>3, <1>b DEF Prepare, OpenJournal
  <2>4. Outcome' = Outcome
    BY <1>0, <1>3, OutcomeKept DEF Prepare, OpenJournal, Open
  <2> QED
    BY <2>2, <2>3, <2>4
<1>4. ASSUME NEW r \in Run, RestoreEntry(r) \/ RollbackEntry(r)
      PROVE  UNCHANGED <<Tree, Planned, Outcome>>
  <2>1. ASSUME RestoreEntry(r) PROVE Tree' = Tree
    <3>1. PICK v \in Run : v = victim[r] /\ journal[v] = "whole" /\ todo[r] \subseteq pending[v]
      BY <1>0, <2>1 DEF RestoreEntry, Work
    <3>2. RollbackStage(r, v) \/ RollbackTarget(r, v)
      BY <2>1, <3>1 DEF RestoreEntry
    <3>3. FileInv /\ OneJournal'
      BY <1>0
    <3> QED
      BY ONLY <3>1, <3>2, <3>3, RollbackKeepsTree
  <2>2. ASSUME RollbackEntry(r) PROVE Tree' = Tree
    <3>1. /\ todo[r] \subseteq pending[r]
          /\ \/ journal[r] = "whole"
             \/ (\A q \in Run : journal[q] # "whole") /\ \A t \in pending[r] : Settled(r, t)
      BY <1>0, <2>2 DEF RollbackEntry, Work
    <3>2. RollbackStage(r, r) \/ RollbackTarget(r, r)
      BY <2>2 DEF RollbackEntry
    <3>3. FileInv /\ OneJournal'
      BY <1>0
    <3> QED
      BY ONLY <3>1, <3>2, <3>3, RollbackKeepsTree
  <2>3. UNCHANGED <<state, wanted, pending>>
    BY <1>4 DEF RestoreEntry, RollbackEntry, RollbackStage, RollbackTarget
  <2>4. Outcome' = Outcome
    BY <2>3 DEF Outcome
  <2>5. Tree' = Tree
    BY <1>4, <2>1, <2>2
  <2> QED
    BY <1>b, <2>3, <2>4, <2>5
\* Journals come and go where there is nothing to roll back.
<1>5. ASSUME NEW r \in Run, DropJournal(r) \/ FillJournal(r)
      PROVE  UNCHANGED <<Tree, Planned, Outcome>>
  <2>1. NothingToRollBack /\ NothingToRollBack'
    <3>1. CASE DropJournal(r)
      <4>1. PICK v \in Run : v = victim[r] /\ journal[v] = "whole" /\ \A t \in pending[v] : Settled(v, t)
        BY <1>0, <3>1 DEF DropJournal, Work
      <4>2. \A q \in Run : journal[q] = "whole" => q = v
        BY <1>0, <4>1 DEF OneJournal
      <4>3. \A q \in Run : journal'[q] # "whole"
        BY <1>0, <3>1, <4>1, <4>2 DEF DropJournal, TypeOK
      <4> QED
        BY <1>0, <4>1, <4>2, <4>3 DEF NothingToRollBack, TypeOK
    <3>2. CASE FillJournal(r)
      <4>1. /\ \A q \in Run : journal[q] # "whole"
            /\ \A t \in pending[r] : Settled(r, t)
        BY <1>0, <3>2 DEF FillJournal, Work
      <4>2. \A q \in Run : journal'[q] = "whole" => q = r
        BY <1>0, <3>2, <4>1 DEF FillJournal, TypeOK
      <4>3. \A t \in pending'[r] : Settled(r, t)'
        BY <3>2, <4>1 DEF FillJournal, Settled
      <4> QED
        BY <1>0, <4>1, <4>2, <4>3 DEF NothingToRollBack, TypeOK
    <3> QED
      BY <1>5, <3>1, <3>2
  <2>2. Tree' = Tree
    BY <1>5, <2>1, TreeOnDisk, TreeOnDiskNext DEF TreeIsDisk, DropJournal, FillJournal
  <2>3. Planned' = Planned
    BY <1>5, <1>b DEF DropJournal, FillJournal
  <2>4. Outcome' = Outcome
    BY <1>0, <1>5, OutcomeKept DEF DropJournal, FillJournal, Open
  <2> QED
    BY <2>2, <2>3, <2>4
<1>6. ASSUME NEW r \in Run, MoveAside(r) PROVE UNCHANGED <<Tree, Planned, Outcome>>
  <2>1. PICK t \in todo[r] \ created[r] :
            /\ disk[t] # Absent
            /\ backup' = [backup EXCEPT ![r][t] = disk[t]]
            /\ disk' = [disk EXCEPT ![t] = Absent]
    BY <1>6 DEF MoveAside
  <2>2. /\ journal[r] = "whole" /\ t \in pending[r] /\ pending[r] \subseteq Target
        /\ backup[r][t] = Absent
    BY <1>0, <1>6, <2>1, FileChangeSetAssumption
       DEF MoveAside, Work, TypeOK, FileChangeSetAssumption, Nothing
  <2>3. \A x \in Target : /\ disk'[x] = IF x = t THEN Absent ELSE disk[x]
                          /\ backup'[r][x] = IF x = t THEN disk[t] ELSE backup[r][x]
    BY <1>0, <2>1 DEF TypeOK
  <2>4. \A x \in pending[r] : Restored(r, x)' = Restored(r, x)
    BY <1>6, <2>1, <2>2, <2>3 DEF MoveAside, Restored
  <2>5. Tree' = Tree
    BY <1>0, <1>6, <2>2, <2>3, <2>4, SameContent DEF MoveAside
  <2> QED
    BY <1>6, <1>b, <2>5 DEF MoveAside, Outcome
<1>7. ASSUME NEW r \in Run, Place(r) PROVE UNCHANGED <<Tree, Planned, Outcome>>
  <2>1. PICK t \in todo[r] :
            /\ current[r] = t \/ t \in created[r]
            /\ disk' = [disk EXCEPT ![t] = wanted[r][t]]
    BY <1>7 DEF Place
  <2>2. /\ journal[r] = "whole" /\ t \in pending[r] /\ pending[r] \subseteq Target
        /\ backup[r][t] # Absent \/ t \in created[r]
    BY <1>0, <1>7, <2>1, FileChangeSetAssumption
       DEF Place, Work, TypeOK, FileChangeSetAssumption, Nothing
  <2>3. \A x \in Target \ {t} : disk'[x] = disk[x]
    BY <1>0, <2>1 DEF TypeOK
  <2>4. \A x \in pending[r] : Restored(r, x)' = Restored(r, x)
    BY <1>7, <2>2, <2>3 DEF Place, Restored
  <2>5. Tree' = Tree
    BY <1>0, <1>7, <2>2, <2>3, <2>4, SameContent DEF Place
  <2> QED
    BY <1>7, <1>b, <2>5 DEF Place, Outcome
\* The removal of the journal lands the group.
<1>8. ASSUME NEW r \in Run, Commit(r) PROVE PlannedWrite!Land(r)
  <2>1. journal[r] = "whole" /\ Landed(r) /\ \A q \in Run \ {r} : journal[q] = "none"
    BY <1>0, <1>8 DEF Commit, Work
  <2>2. NothingToRollBack'
    <3>1. \A q \in Run : journal'[q] # "whole"
      BY <1>0, <1>8, <2>1 DEF Commit, TypeOK
    <3> QED
      BY <1>0, <3>1 DEF NothingToRollBack, TypeOK
  <2>3. Tree' = disk
    BY <1>8, <2>2, TreeOnDiskNext DEF TreeIsDisk, Commit
  <2>4. \A t \in Target : disk[t] = PlannedWrite!Apply(Planned[r])[t]
    <3> SUFFICES ASSUME NEW t \in Target PROVE disk[t] = PlannedWrite!Apply(Planned[r])[t]
      OBVIOUS
    <3>1. CASE t \in pending[r]
      BY <2>1, <3>1 DEF PlannedWrite!Apply, Planned, Landed
    <3>2. CASE t \notin pending[r]
      <4>1. Tree[t] = disk[t]
        BY <1>0, <2>1, <3>2, TreeOf DEF TreeByJournal
      <4> QED
        BY <3>2, <4>1 DEF PlannedWrite!Apply, Planned
    <3> QED
      BY <3>1, <3>2
  <2>5. Tree' = PlannedWrite!Apply(Planned[r])
    BY <1>0, <2>3, <2>4 DEF PlannedWrite!Apply, TypeOK
  <2>6. Outcome[r] = "open" /\ Outcome' = [Outcome EXCEPT ![r] = "landed"]
    BY <1>0, <1>8 DEF Commit, TypeOK, Outcome, Ended
  <2>7. Planned' = Planned
    BY <1>8, <1>b DEF Commit
  <2> QED
    BY <2>5, <2>6, <2>7 DEF PlannedWrite!Land
<1>9. ASSUME NEW r \in Run, Clean(r) \/ Return(r) PROVE UNCHANGED <<Tree, Planned, Outcome>>
  <2>1. journal[r] = "none" /\ \A q \in Run \ {r} : backup'[q] = backup[q]
    BY <1>0, <1>9 DEF Clean, Return, Work, TypeOK
  <2>2. Tree' = Tree
    BY <1>0, <1>9, <2>1, JournalsKept DEF Clean, Return
  <2>3. Outcome' = Outcome
    <3>1. CASE Clean(r)
      BY <3>1 DEF Clean, Outcome
    <3>2. CASE Return(r)
      BY <1>0, <3>2, OutcomeKept DEF Return
    <3> QED
      BY <1>9, <3>1, <3>2
  <2> QED
    BY <1>9, <1>b, <2>2, <2>3 DEF Clean, Return
\* A run that throws or stops is dropped, unless its group landed.
<1>10. ASSUME NEW r \in Run, TornJournal(r) \/ Throw(r) PROVE PlannedWrite!Drop(r)
  <2>1. Tree' = Tree
    <3>1. CASE TornJournal(r)
      BY <1>0, <3>1, JournalsKept DEF TornJournal
    <3>2. CASE Throw(r)
      <4>1. \A q \in Run \ {r} : journal[q] = "none"
        BY <1>0, <3>2 DEF Throw, Work
      <4>2. \A t \in pending[r] : Settled(r, t)
        BY <1>0, <3>2 DEF Throw, Work
      <4>3. NothingToRollBack
        BY <1>0, <4>1, <4>2 DEF NothingToRollBack, TypeOK
      <4>4. \A q \in Run : journal'[q] = "none"
        BY <1>0, <3>2, <4>1 DEF Throw, TypeOK
      <4>5. NothingToRollBack'
        BY <1>0, <4>4 DEF NothingToRollBack, TypeOK
      <4> QED
        BY <3>2, <4>3, <4>5, TreeOnDisk, TreeOnDiskNext DEF TreeIsDisk, Throw
    <3> QED
      BY <1>10, <3>1, <3>2
  <2>2. Outcome[r] = "open" /\ Outcome' = [Outcome EXCEPT ![r] = "dropped"]
    BY <1>0, <1>10, OutcomeDropped DEF TornJournal, Throw, Open, Ended
  <2>3. Planned' = Planned
    BY <1>10, <1>b DEF TornJournal, Throw
  <2> QED
    BY <2>1, <2>2, <2>3 DEF PlannedWrite!Drop
<1>11. ASSUME NEW r \in Run, Crash(r)
       PROVE  PlannedWrite!Drop(r) \/ UNCHANGED <<Tree, Planned, Outcome>>
  <2>1. Tree' = Tree
    BY <1>0, <1>11, JournalsKept DEF Crash
  <2>2. Planned' = Planned
    BY <1>11, <1>b DEF Crash
  <2>3. CASE state[r] = "clean"
    <3>1. Outcome' = Outcome
      BY <1>0, <1>11, <2>3, OutcomeKept DEF Crash
    <3> QED
      BY <2>1, <2>2, <3>1
  <2>4. CASE state[r] # "clean"
    <3>1. state[r] \in Open
      BY <1>0, <1>11, <2>4 DEF Crash, Active, Ended, TypeOK, States, Open
    <3>2. Outcome[r] = "open" /\ Outcome' = [Outcome EXCEPT ![r] = "dropped"]
      BY <1>0, <1>11, <2>4, <3>1, OutcomeDropped DEF Crash, Ended
    <3> QED
      BY <2>1, <2>2, <3>2 DEF PlannedWrite!Drop
  <2> QED
    BY <2>3, <2>4
<1>12. CASE UNCHANGED vars
  BY <1>12 DEF vars, Tree, Restored, Planned, Outcome
<1> QED
  BY <1>a, <1>1, <1>2, <1>3, <1>4, <1>5, <1>6, <1>7, <1>8, <1>9, <1>10, <1>11, <1>12 DEF Next

\* What a run planned to write lands whole or not at all, wherever runs stop: every
\* behaviour of the change sets is one of AtomicWrite, with the removal of the
\* journal as the step that lands a group.
THEOREM ImplementsAtomicWrite == Spec => PlannedLandsWhole
<1>1. Init => PlannedWrite!Init
  <2> SUFFICES ASSUME Init PROVE PlannedWrite!Init
    OBVIOUS
  <2>1. NothingToRollBack
    BY InitInv DEF Init, NothingToRollBack, FileInv, TypeOK
  <2>2. Tree = disk
    BY <2>1, TreeOnDisk DEF TreeIsDisk
  <2>3. Planned = [r \in Run |-> [t \in {} |-> Absent]]
    BY DEF Init, Planned
  <2>4. Outcome = [r \in Run |-> "idle"]
    <3>1. \A r \in Run : state[r] = "idle"
      BY DEF Init
    <3> QED
      BY <3>1 DEF Outcome, Ended
  <2> QED
    BY <2>2, <2>3, <2>4 DEF Init, PlannedWrite!Init, FileContent
<1>2. FileInv /\ FileInv' /\ [Next]_vars => [PlannedWrite!Next]_<<Tree, Planned, Outcome>>
  BY StepMaps
<1> QED
  BY <1>1, <1>2, FileInvariant, PTL DEF Spec, PlannedLandsWhole, PlannedWrite!Spec
=============================================================================
