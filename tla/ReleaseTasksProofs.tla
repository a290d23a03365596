-------------------------- MODULE ReleaseTasksProofs --------------------------
(***************************************************************************)
(* Proofs about ReleaseTasks, for every set of tasks and workers and every *)
(* limit.  The ledger fences by itself: EntryMoves says what one step may  *)
(* do to the entry of a task, and whatever a worker read, claimed or runs  *)
(* relates to the entry by its generation alone.                           *)
(***************************************************************************)
EXTENDS ReleaseTasks, TLAPS

LEMMA TypeInit == ReleaseInit => ReleaseTypeOK
BY DEF ReleaseInit, WorkersInit, ReleaseTypeOK, Unread, Absent, Entry, Status, NotRun, TaskRun

LEMMA AbsentTypes == Absent \in Entry /\ Unread \in [Task -> Entry] /\ NotRun \in TaskRun
BY DEF Absent, Unread, Entry, Status, NotRun, TaskRun

Leases == {"none", "live", "lapsed"}

\* The entries and runs that the actions write have their types.
LEMMA EntryTyped ==
    ASSUME NEW e \in Entry, NEW s \in Status, NEW l \in Leases, NEW d \in BOOLEAN
    PROVE  /\ [e EXCEPT !.status = s, !.lease = l] \in Entry
           /\ [e EXCEPT !.status = s, !.lease = l, !.due = d] \in Entry
           /\ [e EXCEPT !.status = s, !.generation = e.generation + 1,
                        !.attempts = e.attempts + 1, !.lease = l] \in Entry
<1>1. Entry = [status : Status, generation : Nat, attempts : Nat, lease : Leases, due : BOOLEAN]
  BY DEF Entry, Leases
<1>2. [e EXCEPT !.status = s, !.lease = l] \in Entry
  BY <1>1
<1>3. [e EXCEPT !.status = s, !.lease = l, !.due = d] \in Entry
  BY <1>1
<1>4. [e EXCEPT !.status = s, !.generation = e.generation + 1,
                !.attempts = e.attempts + 1, !.lease = l] \in Entry
  <2> DEFINE n == e.generation + 1
             m == e.attempts + 1
  <2>1. n \in Nat /\ m \in Nat
    BY <1>1
  <2> HIDE DEF n, m
  <2>2. [e EXCEPT !.status = s, !.generation = n, !.attempts = m, !.lease = l] \in Entry
    BY <1>1, <2>1
  <2> QED
    BY <2>2 DEF n, m
<1> QED
  BY <1>2, <1>3, <1>4

LEMMA TimedTyped ==
    ASSUME NEW e \in Entry
    PROVE  /\ [e EXCEPT !.lease = "none", !.due = FALSE] \in Entry
           /\ [e EXCEPT !.lease = "live"] \in Entry
           /\ [e EXCEPT !.lease = "lapsed"] \in Entry
           /\ [e EXCEPT !.due = TRUE] \in Entry
           /\ [e EXCEPT !.status = "pending", !.attempts = 0, !.due = FALSE] \in Entry
BY DEF Entry, Status

LEMMA RunTyped ==
    ASSUME NEW r \in TaskRun, NEW p \in Phases
    PROVE  [r EXCEPT !.phase = p] \in TaskRun
BY DEF TaskRun

LEMMA TypeStep == ReleaseTypeOK /\ [ReleaseNext]_releaseVars => ReleaseTypeOK'
<1> SUFFICES ASSUME ReleaseTypeOK, [ReleaseNext]_releaseVars PROVE ReleaseTypeOK'
  OBVIOUS
<1> USE DEF ReleaseTypeOK
<1>a. ASSUME NEW t \in Task, NEW e \in Entry, SetEntry(t, e) PROVE ledger' \in [Task -> Entry]
  BY <1>a DEF SetEntry
<1>b. ASSUME NEW w \in Worker, NEW t \in Task, NEW r \in TaskRun, SetRun(w, t, r)
      PROVE  run' \in [Worker -> [Task -> TaskRun]]
  BY <1>b DEF SetRun
<1>d. \A w \in Worker, t \in Task : ledger[t] \in Entry /\ seen[w][t] \in Entry /\ run[w][t] \in TaskRun
  OBVIOUS
<1>e. ASSUME NEW t \in Task PROVE Claimed(t) \in Entry
  BY <1>d, EntryTyped DEF Claimed, Status, Leases
<1>f. ASSUME NEW w \in Worker, NEW t \in Task, Record(w, t)
      PROVE  ledger' \in [Task -> Entry] /\ result' \in [Task -> Nat]
  <2>1. [ledger[t] EXCEPT !.status = "completed", !.lease = "none"] \in Entry
    BY <1>d, EntryTyped DEF Status, Leases
  <2>2. run[w][t].generation \in Nat
    BY <1>d DEF TaskRun
  <2> QED
    BY <1>a, <1>f, <2>1, <2>2 DEF Record
<1>g. ASSUME NEW w \in Worker, NEW t \in Task, RecordFailure(w, t) PROVE ledger' \in [Task -> Entry]
  <2> DEFINE outcome == Outcome(w, t)
  <2>1. outcome \in Status
    BY DEF Outcome, Status
  <2>2. [ledger[t] EXCEPT !.status = outcome, !.lease = "none", !.due = FALSE] \in Entry
    <3> HIDE DEF outcome
    <3> QED
      BY <1>d, <2>1, EntryTyped DEF Leases
  <2> QED
    BY <1>a, <1>g, <2>2 DEF RecordFailure
<1>h. ASSUME NEW w \in Worker, NEW t \in Task, NEW p \in Phases, Phase(w, t, p)
      PROVE  run' \in [Worker -> [Task -> TaskRun]]
  BY <1>b, <1>d, <1>h, RunTyped DEF Phase
<1>1. ASSUME NEW w \in Worker, Start(w) \/ Ensure(w) PROVE ReleaseTypeOK'
  <2>1. [Absent EXCEPT !.status = "pending"] \in Entry
    BY DEF Absent, Entry, Status
  <2>2. CASE Start(w)
    BY <2>2 DEF Start, Goes
  <2>3. CASE Ensure(w)
    BY <1>a, <2>1, <2>3 DEF Ensure, Goes
  <2> QED
    BY <1>1, <2>2, <2>3
<1>2. ASSUME NEW w \in Worker, Read(w) \/ EndStage(w) \/ Deadline(w) PROVE ReleaseTypeOK'
  BY <1>2, AbsentTypes DEF Read, EndStage, Deadline, Goes
<1>3. ASSUME NEW w \in Worker, Decide(w) PROVE ReleaseTypeOK'
  <2> DEFINE due == IF open[w] THEN {} ELSE DueTasks(w)
  <2> DEFINE kept == [t \in Task |-> IF t \in due
                                    THEN [seen[w][t] EXCEPT !.lease = "none", !.due = FALSE]
                                    ELSE Absent]
  <2>1. due \in SUBSET Task
    BY DEF DueTasks
  <2>2. kept \in [Task -> Entry]
    <3> SUFFICES ASSUME NEW t \in Task PROVE kept[t] \in Entry
      OBVIOUS
    <3>1. [seen[w][t] EXCEPT !.lease = "none", !.due = FALSE] \in Entry
      BY <1>d, TimedTyped
    <3> QED
      BY <3>1, AbsentTypes
  <2>3. todo' = [todo EXCEPT ![w] = due] /\ seen' = [seen EXCEPT ![w] = kept]
    BY <1>3 DEF Decide
  <2> HIDE DEF due, kept
  <2>4. todo' \in [Worker -> SUBSET Task] /\ seen' \in [Worker -> [Task -> Entry]]
    BY <2>1, <2>2, <2>3
  <2>5. UNCHANGED <<ledger, result, run, failures, open>> /\ Goes(w, "claim")
    BY <1>3 DEF Decide
  <2> QED
    BY <2>4, <2>5 DEF Goes
<1>4. ASSUME NEW w \in Worker, Claim(w) PROVE ReleaseTypeOK'
  <2>1. PICK t \in todo[w] :
          /\ todo' = [todo EXCEPT ![w] = todo[w] \ {t}]
          /\ seen' = [seen EXCEPT ![w] = [seen[w] EXCEPT ![t] = Absent]]
          /\ \/ /\ SetEntry(t, Claimed(t))
                /\ SetRun(w, t, [phase |-> "run", generation |-> seen[w][t].generation + 1,
                                 attempts |-> seen[w][t].attempts + 1])
             \/ UNCHANGED <<ledger, run>>
    BY <1>4 DEF Claim
  <2>2. t \in Task
    BY <2>1
  <2>3. [phase |-> "run", generation |-> seen[w][t].generation + 1,
         attempts |-> seen[w][t].attempts + 1] \in TaskRun
    BY <2>2, <1>d DEF TaskRun, Phases, Entry
  <2>4. ledger' \in [Task -> Entry] /\ run' \in [Worker -> [Task -> TaskRun]]
    BY <2>1, <2>2, <2>3, <1>a, <1>b, <1>e
  <2>5. todo' \in [Worker -> SUBSET Task] /\ seen' \in [Worker -> [Task -> Entry]]
    BY <2>1, <2>2, AbsentTypes
  <2> QED
    BY <1>4, <2>4, <2>5 DEF Claim
<1>5. ASSUME NEW w \in Worker, Pause(w) \/ Drained(w) PROVE ReleaseTypeOK'
  BY <1>5, AbsentTypes DEF Pause, Drained, Goes
<1>6. ASSUME NEW w \in Worker, Throws(w) PROVE ReleaseTypeOK'
  <2>1. ledger' \in [Task -> Entry]
    BY <1>6, <1>a, <1>e DEF Throws
  <2> QED
    BY <1>6, <2>1, AbsentTypes DEF Throws, Goes
<1>7. ASSUME NEW w \in Worker, NEW t \in Task, RunSucceeds(w, t) \/ RunFails(w, t) PROVE ReleaseTypeOK'
  <2>1. run' \in [Worker -> [Task -> TaskRun]]
    <3>1. PICK p \in Phases : Phase(w, t, p)
      BY <1>7 DEF RunSucceeds, RunFails, Phases
    <3> QED
      BY <3>1, <1>h
  <2>2. CASE RunSucceeds(w, t)
    BY <2>1, <2>2 DEF RunSucceeds
  <2>3. CASE RunFails(w, t)
    BY <2>1, <2>3 DEF RunFails
  <2> QED
    BY <1>7, <2>2, <2>3
<1>8. ASSUME NEW w \in Worker, NEW t \in Task, Complete(w, t) \/ CompleteThrows(w, t) PROVE ReleaseTypeOK'
  <2>1. run' \in [Worker -> [Task -> TaskRun]]
    BY <1>8, <1>b, <1>h, AbsentTypes DEF Complete, CompleteThrows, Phases
  <2>2. ledger' \in [Task -> Entry] /\ result' \in [Task -> Nat]
    BY <1>8, <1>f DEF Complete, CompleteThrows
  <2> QED
    BY <1>8, <2>1, <2>2 DEF Complete, CompleteThrows
<1>9. ASSUME NEW w \in Worker, NEW t \in Task, Fail(w, t) PROVE ReleaseTypeOK'
  <2>1. failures' \in [Worker -> Nat] /\ open' \in [Worker -> BOOLEAN]
    <3> DEFINE n == IF failures[w] < Threshold THEN failures[w] + 1 ELSE Threshold
    <3>1. n \in Nat
      BY ReleaseAssumption DEF ReleaseAssumption
    <3>2. \/ UNCHANGED <<failures, open>>
          \/ /\ failures' = [failures EXCEPT ![w] = n]
             /\ open' = [open EXCEPT ![w] = open[w] \/ n = Threshold]
      BY <1>9 DEF Fail, BreakerFails
    <3> HIDE DEF n
    <3>3. failures' \in [Worker -> Nat]
      BY <3>1, <3>2
    <3>4. open' \in [Worker -> BOOLEAN]
      BY <3>2, Zenon
    <3> QED
      BY <3>3, <3>4
  <2> QED
    BY <1>9, <2>1, <1>b, <1>g, AbsentTypes DEF Fail
<1>10. ASSUME NEW w \in Worker, NEW t \in Task, FailThrows(w, t) PROVE ReleaseTypeOK'
  <2>1. ledger' \in [Task -> Entry] /\ run' \in [Worker -> [Task -> TaskRun]]
    BY <1>10, <1>b, <1>g, AbsentTypes DEF FailThrows
  <2>2. \/ UNCHANGED at
        \/ at' = [at EXCEPT ![w] = "off"]
    BY <1>10 DEF FailThrows, Goes
  <2>3. UNCHANGED <<result, seen, todo, failures, open>>
    BY <1>10 DEF FailThrows
  <2>4. at' \in [Worker -> {"off", "ensure", "read", "decide", "claim", "drain", "done"}]
    BY <2>2
  <2> QED
    BY <2>1, <2>3, <2>4
<1>11. ASSUME NEW w \in Worker, NEW t \in Task, Heartbeat(w, t) PROVE ReleaseTypeOK'
  <2>1. [ledger[t] EXCEPT !.lease = "live"] \in Entry
    BY <1>d, TimedTyped
  <2> QED
    BY <1>11, <1>a, <2>1 DEF Heartbeat
<1>12. ASSUME NEW t \in Task, Lapse(t) \/ ComesDue(t) \/ Resume(t) PROVE ReleaseTypeOK'
  <2>1. /\ [ledger[t] EXCEPT !.lease = "lapsed"] \in Entry
        /\ [ledger[t] EXCEPT !.due = TRUE] \in Entry
        /\ [ledger[t] EXCEPT !.status = "pending", !.attempts = 0, !.due = FALSE] \in Entry
    BY <1>d, TimedTyped
  <2> QED
    BY <1>12, <1>a, <2>1 DEF Lapse, ComesDue, Resume
<1>13. ASSUME NEW w \in Worker, Cool(w) PROVE ReleaseTypeOK'
  BY <1>13 DEF Cool
<1>14. ASSUME NEW w \in Worker, Crash(w) PROVE ReleaseTypeOK'
  BY <1>14, AbsentTypes DEF Crash, Goes
<1>15. CASE UNCHANGED releaseVars
  BY <1>15 DEF releaseVars
<1> QED
  BY <1>1, <1>2, <1>3, <1>4, <1>5, <1>6, <1>7, <1>8, <1>9, <1>10, <1>11, <1>12, <1>13, <1>14, <1>15
     DEF ReleaseNext, LoopStep, RunStep

\* The type invariant of the ledger and of the workers.
THEOREM ReleaseTypeCorrect == ReleaseSpec => []ReleaseTypeOK
BY TypeInit, TypeStep, PTL DEF ReleaseSpec
-----------------------------------------------------------------------------
Early == {"absent", "pending"}

\* Only a running task has a lease; a task no claim counts for has no attempts.
LedgerInv(t) ==
    /\ ledger[t].lease # "none" => ledger[t].status = "running"
    /\ ledger[t].status \in Early => ledger[t].attempts = 0
    /\ ledger[t].status = "absent" => ledger[t].generation = 0

\* What a worker read is at most as new as the ledger; where generation and status
\* still agree, so do the attempts; only unfinished tasks are tried.
SeenInv(w, t) ==
    /\ seen[w][t].generation <= ledger[t].generation
    /\ seen[w][t].status \in Early => seen[w][t].attempts = 0
    /\ seen[w][t].generation = ledger[t].generation
       /\ seen[w][t].status \notin Early /\ ledger[t].status \notin Early =>
          seen[w][t].attempts = ledger[t].attempts
    /\ seen[w][t].status = "completed" => ledger[t].status = "completed"
    /\ t \in todo[w] => seen[w][t].status \in Unfinished /\ at[w] = "claim"

\* A run has the generation of a claim that was made, and no two runs the same.
RunInv(w, t) ==
    t \in Active(w) =>
        /\ run[w][t].generation <= ledger[t].generation
        /\ Holds(w, t) => run[w][t].attempts = ledger[t].attempts
        /\ \A v \in Worker \ {w} :
              t \in Active(v) => run[v][t].generation # run[w][t].generation

HolderInv ==
    /\ \A t \in Task : LedgerInv(t)
    /\ \A w \in Worker, t \in Task : SeenInv(w, t)
    /\ \A w \in Worker, t \in Task : RunInv(w, t)
    /\ ResultOfLastClaim
    /\ DoneMeansCompleted

\* What a step may do to the entry of a task: a completed one stays, generations
\* only grow, and a task comes to run, or gets its attempts, by a claim alone.
EntryMoves(t) ==
    /\ ledger[t].status = "completed" => ledger'[t] = ledger[t]
    /\ ledger'[t].generation >= ledger[t].generation
    /\ ledger'[t].generation = ledger[t].generation =>
          /\ ledger'[t].status \notin Early =>
                ledger[t].status \notin Early /\ ledger'[t].attempts = ledger[t].attempts
          /\ ledger'[t].status = "running" => ledger[t].status = "running"

LEMMA EntryFields ==
    ASSUME ReleaseTypeOK, NEW t \in Task
    PROVE  /\ ledger[t] \in Entry
           /\ ledger[t].generation \in Nat /\ ledger[t].attempts \in Nat
BY DEF ReleaseTypeOK, Entry

LEMMA EntryStep ==
    ASSUME ReleaseTypeOK, HolderInv, [ReleaseNext]_releaseVars, NEW x \in Task
    PROVE  EntryMoves(x) /\ LedgerInv(x)'
<1> USE DEF EntryMoves, LedgerInv, Early
<1>a. LedgerInv(x) /\ ledger[x] \in Entry /\ ledger[x].generation \in Nat
  BY EntryFields DEF HolderInv
<1>b. ASSUME UNCHANGED ledger PROVE EntryMoves(x) /\ LedgerInv(x)'
  BY <1>a, <1>b
<1>c. ASSUME NEW t \in Task, NEW e, SetEntry(t, e) PROVE ledger'[x] = IF x = t THEN e ELSE ledger[x]
  BY <1>c DEF SetEntry, ReleaseTypeOK
<1>1. ASSUME NEW w \in Worker, Ensure(w) PROVE EntryMoves(x) /\ LedgerInv(x)'
  <2>1. CASE UNCHANGED ledger
    BY <2>1, <1>b
  <2>2. ASSUME NEW t \in Task, ledger[t].status = "absent", SetEntry(t, [Absent EXCEPT !.status = "pending"])
        PROVE  EntryMoves(x) /\ LedgerInv(x)'
    <3> DEFINE added == [Absent EXCEPT !.status = "pending"]
    <3>1. /\ added.status = "pending" /\ added.generation = 0 /\ added.attempts = 0
          /\ added.lease = "none"
      BY DEF Absent
    <3> HIDE DEF added
    <3>2. ledger'[x] = IF x = t THEN added ELSE ledger[x]
      BY <1>c, <2>2 DEF added
    <3> QED
      BY <1>a, <2>2, <3>1, <3>2
  <2> QED
    BY <1>1, <2>1, <2>2 DEF Ensure
<1>2. ASSUME NEW w \in Worker, NEW t \in todo[w], Wins(w, t), SetEntry(t, Claimed(t))
      PROVE  EntryMoves(x) /\ LedgerInv(x)'
  <2>1. t \in Task
    BY DEF ReleaseTypeOK
  <2>2. ledger[t].status \in Unfinished /\ ledger[t] \in Entry
    BY <1>2, <2>1, EntryFields DEF HolderInv, SeenInv, Wins
  <2>3. /\ Claimed(t).generation = ledger[t].generation + 1
        /\ Claimed(t).status = "running"
    BY <2>2 DEF Claimed, Entry
  <2>4. ledger'[x] = IF x = t THEN Claimed(t) ELSE ledger[x]
    BY <1>2, <2>1, <1>c
  <2> QED
    BY <1>a, <2>2, <2>3, <2>4 DEF Unfinished
<1>3. ASSUME NEW w \in Worker, Claim(w) \/ Throws(w) PROVE EntryMoves(x) /\ LedgerInv(x)'
  BY <1>3, <1>b, <1>2 DEF Claim, Throws
<1>4. ASSUME NEW w \in Worker, NEW t \in Task, Record(w, t) PROVE EntryMoves(x) /\ LedgerInv(x)'
  <2>1. CASE UNCHANGED ledger
    BY <2>1, <1>b
  <2>2. CASE Holds(w, t) /\ SetEntry(t, [ledger[t] EXCEPT !.status = "completed", !.lease = "none"])
    <3>1. ledger'[x] = IF x = t THEN [ledger[t] EXCEPT !.status = "completed", !.lease = "none"]
                                ELSE ledger[x]
      BY <2>2, <1>c
    <3> QED
      BY <1>a, <2>2, <3>1 DEF Holds, Entry
  <2> QED
    BY <1>4, <2>1, <2>2 DEF Record
<1>5. ASSUME NEW w \in Worker, NEW t \in Task, RecordFailure(w, t) PROVE EntryMoves(x) /\ LedgerInv(x)'
  <2> DEFINE outcome == Outcome(w, t)
  <2>1. outcome \in {"failed", "retry", "blocked"}
    BY DEF Outcome
  <2>2. CASE UNCHANGED ledger
    BY <2>2, <1>b
  <2>3. CASE Holds(w, t) /\ SetEntry(t, [ledger[t] EXCEPT !.status = outcome, !.lease = "none", !.due = FALSE])
    <3> HIDE DEF outcome
    <3>1. ledger'[x] = IF x = t THEN [ledger[t] EXCEPT !.status = outcome, !.lease = "none", !.due = FALSE]
                                ELSE ledger[x]
      BY <2>3, <1>c
    <3> QED
      BY <1>a, <2>1, <2>3, <3>1 DEF Holds, Entry
  <2> QED
    BY <1>5, <2>2, <2>3 DEF RecordFailure
<1>6. ASSUME NEW w \in Worker, NEW t \in Task, Complete(w, t) \/ CompleteThrows(w, t)
      PROVE  EntryMoves(x) /\ LedgerInv(x)'
  BY <1>6, <1>4, <1>b DEF Complete, CompleteThrows
<1>7. ASSUME NEW w \in Worker, NEW t \in Task, Fail(w, t) \/ FailThrows(w, t)
      PROVE  EntryMoves(x) /\ LedgerInv(x)'
  BY <1>7, <1>5, <1>b DEF Fail, FailThrows
<1>8. ASSUME NEW w \in Worker, NEW t \in Task, Heartbeat(w, t) PROVE EntryMoves(x) /\ LedgerInv(x)'
  <2>1. ledger'[x] = IF x = t THEN [ledger[t] EXCEPT !.lease = "live"] ELSE ledger[x]
    BY <1>8, <1>c DEF Heartbeat
  <2> QED
    BY <1>a, <1>8, <2>1 DEF Heartbeat, Holds, Entry
<1>9. ASSUME NEW t \in Task, Lapse(t) PROVE EntryMoves(x) /\ LedgerInv(x)'
  <2>1. ledger'[x] = IF x = t THEN [ledger[t] EXCEPT !.lease = "lapsed"] ELSE ledger[x]
    BY <1>9, <1>c DEF Lapse
  <2> QED
    BY <1>a, <1>9, <2>1 DEF Lapse, Entry
<1>10. ASSUME NEW t \in Task, ComesDue(t) PROVE EntryMoves(x) /\ LedgerInv(x)'
  <2>1. ledger'[x] = IF x = t THEN [ledger[t] EXCEPT !.due = TRUE] ELSE ledger[x]
    BY <1>10, <1>c DEF ComesDue
  <2> QED
    BY <1>a, <1>10, <2>1 DEF ComesDue, Entry
<1>11. ASSUME NEW t \in Task, Resume(t) PROVE EntryMoves(x) /\ LedgerInv(x)'
  <2>1. ledger'[x] = IF x = t THEN [ledger[t] EXCEPT !.status = "pending", !.attempts = 0, !.due = FALSE]
                              ELSE ledger[x]
    BY <1>11, <1>c DEF Resume
  <2> QED
    BY <1>a, <1>11, <2>1 DEF Resume, Entry
<1>12. ASSUME NEW w \in Worker,
              \/ Start(w) \/ Read(w) \/ EndStage(w) \/ Deadline(w) \/ Decide(w) \/ Pause(w) \/ Drained(w)
              \/ Cool(w) \/ Crash(w)
       PROVE  EntryMoves(x) /\ LedgerInv(x)'
  BY <1>12, <1>b DEF Start, Read, EndStage, Deadline, Decide, Pause, Drained, Cool, Crash
<1>13. ASSUME NEW w \in Worker, NEW t \in Task, RunSucceeds(w, t) \/ RunFails(w, t)
       PROVE  EntryMoves(x) /\ LedgerInv(x)'
  BY <1>13, <1>b DEF RunSucceeds, RunFails
<1>14. CASE UNCHANGED releaseVars
  BY <1>14, <1>b DEF releaseVars
<1> HIDE DEF EntryMoves, LedgerInv
<1> QED
  BY <1>1, <1>3, <1>6, <1>7, <1>8, <1>9, <1>10, <1>11, <1>12, <1>13, <1>14
     DEF ReleaseNext, LoopStep, RunStep

\* What a step may do to what a worker read: it stays, it is forgotten, it is the
\* ledger of this step, or all but its times is kept; what is due is unfinished.
SeenMoves(w, t) ==
    /\ \/ seen'[w][t] = Absent
       \/ seen'[w][t] = ledger[t] /\ UNCHANGED ledger
       \/ /\ seen'[w][t].status = seen[w][t].status
          /\ seen'[w][t].generation = seen[w][t].generation
          /\ seen'[w][t].attempts = seen[w][t].attempts
    /\ t \in todo'[w] => seen'[w][t].status \in Unfinished /\ at'[w] = "claim"

LEMMA SeenStep ==
    ASSUME ReleaseTypeOK, HolderInv, [ReleaseNext]_releaseVars, NEW x \in Worker, NEW y \in Task
    PROVE  SeenMoves(x, y)
<1> USE DEF ReleaseTypeOK, SeenMoves, Goes
<1>a. y \in todo[x] => seen[x][y].status \in Unfinished /\ at[x] = "claim"
  BY DEF HolderInv, SeenInv
<1>b. ASSUME NEW w \in Worker, seen' = [seen EXCEPT ![w] = Unread],
             \/ todo' = [todo EXCEPT ![w] = {}]
             \/ UNCHANGED todo /\ at[w] # "claim",
             \A v \in Worker \ {w} : at'[v] = at[v]
      PROVE  SeenMoves(x, y)
  BY <1>a, <1>b DEF Unread
<1>1. ASSUME NEW w \in Worker, Start(w) \/ Ensure(w) \/ Drained(w) PROVE SeenMoves(x, y)
  BY <1>a, <1>1 DEF Start, Ensure, Drained
<1>2. ASSUME NEW w \in Worker, Read(w) PROVE SeenMoves(x, y)
  BY <1>a, <1>2 DEF Read
<1>3. ASSUME NEW w \in Worker, EndStage(w) \/ Deadline(w) \/ Pause(w) \/ Throws(w) \/ Crash(w)
      PROVE  SeenMoves(x, y)
  <2>1. \A v \in Worker \ {w} : at'[v] = at[v]
    BY <1>3 DEF EndStage, Deadline, Pause, Throws, Crash
  <2>2. seen' = [seen EXCEPT ![w] = Unread]
    BY <1>3 DEF EndStage, Deadline, Pause, Throws, Crash
  <2>3. \/ todo' = [todo EXCEPT ![w] = {}]
        \/ UNCHANGED todo /\ at[w] # "claim"
    BY <1>3 DEF EndStage, Deadline, Pause, Throws, Crash
  <2> QED
    BY <1>b, <2>1, <2>2, <2>3
<1>4. ASSUME NEW w \in Worker, Decide(w) PROVE SeenMoves(x, y)
  <2> DEFINE due == IF open[w] THEN {} ELSE DueTasks(w)
  <2> DEFINE kept == [t \in Task |-> IF t \in due
                                    THEN [seen[w][t] EXCEPT !.lease = "none", !.due = FALSE]
                                    ELSE Absent]
  <2>1. /\ todo' = [todo EXCEPT ![w] = due] /\ seen' = [seen EXCEPT ![w] = kept]
        /\ at' = [at EXCEPT ![w] = "claim"]
    BY <1>4 DEF Decide
  <2>2. y \in due => seen[w][y].status \in Unfinished
    BY DEF DueTasks, Unfinished
  <2>3. kept[y] = IF y \in due THEN [seen[w][y] EXCEPT !.lease = "none", !.due = FALSE] ELSE Absent
    OBVIOUS
  <2>4. seen[w][y] \in Entry
    OBVIOUS
  <2> HIDE DEF due, kept
  <2>5. CASE x # w
    BY <1>a, <2>1, <2>5
  <2>6. CASE x = w
    <3>1. seen'[x][y] = kept[y] /\ todo'[x] = due /\ at'[x] = "claim"
      BY <2>1, <2>6
    <3>2. CASE y \in due
      <4>1. /\ kept[y].status = seen[w][y].status
            /\ kept[y].generation = seen[w][y].generation
            /\ kept[y].attempts = seen[w][y].attempts
        BY <2>3, <2>4, <3>2 DEF Entry
      <4> QED
        BY <2>2, <2>6, <3>1, <3>2, <4>1
    <3>3. CASE y \notin due
      BY <2>3, <3>1, <3>3
    <3> QED
      BY <3>2, <3>3
  <2> QED
    BY <2>5, <2>6
<1>5. ASSUME NEW w \in Worker, Claim(w) PROVE SeenMoves(x, y)
  <2>1. PICK t \in todo[w] :
          /\ todo' = [todo EXCEPT ![w] = todo[w] \ {t}]
          /\ seen' = [seen EXCEPT ![w] = [seen[w] EXCEPT ![t] = Absent]]
    BY <1>5 DEF Claim
  <2>2. UNCHANGED at
    BY <1>5 DEF Claim
  <2> QED
    BY <1>a, <2>1, <2>2
<1>6. ASSUME NEW w \in Worker, NEW t \in Task,
             RunStep(w, t) \/ CompleteThrows(w, t) \/ FailThrows(w, t) \/ Heartbeat(w, t)
      PROVE  SeenMoves(x, y)
  BY <1>a, <1>6 DEF RunStep, RunSucceeds, RunFails, Complete, Fail, CompleteThrows, FailThrows, Heartbeat
<1>7. ASSUME NEW t \in Task, Lapse(t) \/ ComesDue(t) \/ Resume(t) PROVE SeenMoves(x, y)
  BY <1>a, <1>7 DEF Lapse, ComesDue, Resume
<1>8. ASSUME NEW w \in Worker, Cool(w) PROVE SeenMoves(x, y)
  BY <1>a, <1>8 DEF Cool
<1>9. CASE UNCHANGED releaseVars
  BY <1>a, <1>9 DEF releaseVars
<1> HIDE DEF SeenMoves
<1> QED
  BY <1>1, <1>2, <1>3, <1>4, <1>5, <1>6, <1>7, <1>8, <1>9 DEF ReleaseNext, LoopStep

LEMMA SeenInvStep ==
    ASSUME ReleaseTypeOK, HolderInv, [ReleaseNext]_releaseVars, NEW w \in Worker, NEW t \in Task
    PROVE  SeenInv(w, t)'
<1>1. EntryMoves(t) /\ SeenMoves(w, t) /\ SeenInv(w, t) /\ LedgerInv(t)
  BY EntryStep, SeenStep DEF HolderInv
<1>2. /\ seen[w][t].generation \in Nat /\ ledger[t].generation \in Nat /\ ledger'[t].generation \in Nat
  BY TypeStep, EntryFields DEF ReleaseTypeOK, Entry
<1>3. Absent.status = "absent" /\ Absent.generation = 0 /\ Absent.attempts = 0
  BY DEF Absent
<1> USE DEF SeenInv, Early
<1>4. CASE seen'[w][t] = Absent
  BY <1>1, <1>2, <1>3, <1>4 DEF SeenMoves
<1>5. CASE seen'[w][t] = ledger[t] /\ UNCHANGED ledger
  BY <1>1, <1>2, <1>5 DEF SeenMoves, LedgerInv
<1>6. CASE /\ seen'[w][t].status = seen[w][t].status
           /\ seen'[w][t].generation = seen[w][t].generation
           /\ seen'[w][t].attempts = seen[w][t].attempts
  <2>1. seen[w][t].generation <= ledger'[t].generation
    BY <1>1, <1>2 DEF EntryMoves
  <2>2. seen[w][t].generation = ledger'[t].generation => ledger'[t].generation = ledger[t].generation
    BY <1>1, <1>2 DEF EntryMoves
  <2> QED
    BY <1>1, <1>6, <2>1, <2>2 DEF SeenMoves, EntryMoves
<1> QED
  BY <1>1, <1>4, <1>5, <1>6 DEF SeenMoves

-----------------------------------------------------------------------------
\* What a step may do to the runs of a task: a worker's run keeps its claim, ends, or
\* begins with a claim of this step.
Keeps(w, t) ==
    \/ run'[w][t].phase = "none"
    \/ /\ run[w][t].phase # "none"
       /\ run'[w][t].generation = run[w][t].generation
       /\ run'[w][t].attempts = run[w][t].attempts

Begins(w, t) ==
    /\ run'[w][t].generation = ledger[t].generation + 1
    /\ run'[w][t].attempts = ledger'[t].attempts
    /\ ledger'[t].generation = ledger[t].generation + 1

RunMoves(t) ==
    \/ \A w \in Worker : Keeps(w, t)
    \/ \E w \in Worker : Begins(w, t) /\ \A v \in Worker \ {w} : Keeps(v, t)

LEMMA RunMovesStep ==
    ASSUME ReleaseTypeOK, HolderInv, [ReleaseNext]_releaseVars, NEW x \in Task
    PROVE  RunMoves(x)
<1> USE DEF ReleaseTypeOK
<1>a. ASSUME UNCHANGED run PROVE RunMoves(x)
  BY <1>a DEF RunMoves, Keeps
<1>b. ASSUME NEW w \in Worker, NEW t \in Task, SetRun(w, t, NotRun) PROVE RunMoves(x)
  <2>1. \A v \in Worker : run'[v][x] = IF v = w /\ x = t THEN NotRun ELSE run[v][x]
    BY <1>b DEF SetRun
  <2> QED
    BY <2>1 DEF RunMoves, Keeps, NotRun
<1>c. ASSUME NEW w \in Worker, NEW t \in Task, NEW p, Phase(w, t, p), run[w][t].phase # "none"
      PROVE  RunMoves(x)
  <2> DEFINE r == [run[w][t] EXCEPT !.phase = p]
  <2>1. r.generation = run[w][t].generation /\ r.attempts = run[w][t].attempts
    BY DEF TaskRun
  <2>2. \A v \in Worker : run'[v][x] = IF v = w /\ x = t THEN r ELSE run[v][x]
    BY <1>c DEF Phase, SetRun
  <2> HIDE DEF r
  <2> QED
    BY <1>c, <2>1, <2>2 DEF RunMoves, Keeps
<1>1. ASSUME NEW w \in Worker, Claim(w) PROVE RunMoves(x)
  <2>1. CASE UNCHANGED run
    BY <2>1, <1>a
  <2>2. ASSUME NEW t \in todo[w], Wins(w, t), SetEntry(t, Claimed(t)),
               SetRun(w, t, [phase |-> "run", generation |-> seen[w][t].generation + 1,
                             attempts |-> seen[w][t].attempts + 1])
        PROVE  RunMoves(x)
    <3> DEFINE r == [phase |-> "run", generation |-> seen[w][t].generation + 1,
                     attempts |-> seen[w][t].attempts + 1]
    <3>1. t \in Task /\ SeenInv(w, t) /\ LedgerInv(t)
      BY DEF HolderInv
    <3>2. seen[w][t].generation = ledger[t].generation /\ seen[w][t].attempts = ledger[t].attempts
      BY <2>2, <3>1 DEF Wins, SeenInv, LedgerInv
    <3>3. /\ Claimed(t).generation = ledger[t].generation + 1
          /\ Claimed(t).attempts = ledger[t].attempts + 1
      BY <3>1 DEF Claimed, Entry
    <3>4. \A v \in Worker : run'[v][x] = IF v = w /\ x = t THEN r ELSE run[v][x]
      BY <2>2, <3>1 DEF SetRun
    <3>5. ledger'[t] = Claimed(t)
      BY <2>2, <3>1 DEF SetEntry
    <3>6. r.generation = ledger[t].generation + 1 /\ r.attempts = ledger'[t].attempts
      BY <3>2, <3>3, <3>5
    <3> HIDE DEF r
    <3>7. CASE x = t
      <4>1. Begins(w, x)
        BY <3>3, <3>4, <3>5, <3>6, <3>7 DEF Begins
      <4>2. \A v \in Worker \ {w} : Keeps(v, x)
        BY <3>4 DEF Keeps
      <4> QED
        BY <4>1, <4>2 DEF RunMoves
    <3>8. CASE x # t
      BY <3>4, <3>8 DEF RunMoves, Keeps
    <3> QED
      BY <3>7, <3>8
  <2> QED
    BY <1>1, <2>1, <2>2 DEF Claim
<1>2. ASSUME NEW w \in Worker, NEW t \in Task, RunSucceeds(w, t) \/ RunFails(w, t) \/ CompleteThrows(w, t)
      PROVE  RunMoves(x)
  BY <1>2, <1>c DEF RunSucceeds, RunFails, CompleteThrows
<1>3. ASSUME NEW w \in Worker, NEW t \in Task, Complete(w, t) \/ Fail(w, t) \/ FailThrows(w, t)
      PROVE  RunMoves(x)
  BY <1>3, <1>b DEF Complete, Fail, FailThrows
<1>4. ASSUME NEW w \in Worker, Crash(w) PROVE RunMoves(x)
  <2>1. \A v \in Worker : run'[v][x] = IF v = w THEN NotRun ELSE run[v][x]
    BY <1>4 DEF Crash
  <2> QED
    BY <2>1 DEF RunMoves, Keeps, NotRun
<1>5. ASSUME NEW w \in Worker,
             \/ Start(w) \/ Ensure(w) \/ Read(w) \/ EndStage(w) \/ Deadline(w) \/ Decide(w)
             \/ Pause(w) \/ Drained(w) \/ Throws(w) \/ Cool(w)
      PROVE  RunMoves(x)
  BY <1>5, <1>a DEF Start, Ensure, Read, EndStage, Deadline, Decide, Pause, Drained, Throws, Cool
<1>6. ASSUME NEW w \in Worker, NEW t \in Task, Heartbeat(w, t) PROVE RunMoves(x)
  BY <1>6, <1>a DEF Heartbeat
<1>7. ASSUME NEW t \in Task, Lapse(t) \/ ComesDue(t) \/ Resume(t) PROVE RunMoves(x)
  BY <1>7, <1>a DEF Lapse, ComesDue, Resume
<1>8. CASE UNCHANGED releaseVars
  BY <1>8, <1>a DEF releaseVars
<1> QED
  BY <1>1, <1>2, <1>3, <1>4, <1>5, <1>6, <1>7, <1>8 DEF ReleaseNext, LoopStep, RunStep

LEMMA RunInvStep ==
    ASSUME ReleaseTypeOK, HolderInv, [ReleaseNext]_releaseVars, NEW w \in Worker, NEW t \in Task
    PROVE  RunInv(w, t)'
<1>1. EntryMoves(t) /\ RunMoves(t) /\ \A v \in Worker : RunInv(v, t)
  BY EntryStep, RunMovesStep DEF HolderInv
<1>2. /\ ledger[t].generation \in Nat /\ ledger'[t].generation \in Nat
      /\ \A v \in Worker : run[v][t].generation \in Nat
  BY TypeStep, EntryFields DEF ReleaseTypeOK, Entry, TaskRun
<1> USE DEF RunInv, Active, Holds
\* A run that goes on still fits the entry.
<1>3. ASSUME NEW v \in Worker, Keeps(v, t), run'[v][t].phase # "none"
      PROVE  /\ run'[v][t].generation = run[v][t].generation /\ run[v][t].phase # "none"
             /\ run'[v][t].generation <= ledger[t].generation
             /\ run'[v][t].generation <= ledger'[t].generation
             /\ Holds(v, t)' => run'[v][t].attempts = ledger'[t].attempts
  <2>1. /\ run'[v][t].generation = run[v][t].generation /\ run[v][t].phase # "none"
        /\ run'[v][t].attempts = run[v][t].attempts
    BY <1>3 DEF Keeps
  <2>2. run[v][t].generation <= ledger[t].generation /\ ledger[t].generation <= ledger'[t].generation
    BY <1>1, <2>1 DEF EntryMoves
  <2>3. ASSUME Holds(v, t)' PROVE run'[v][t].attempts = ledger'[t].attempts
    <3>1. ledger'[t].generation = ledger[t].generation
      BY <1>2, <2>1, <2>2, <2>3
    <3>2. Holds(v, t) /\ ledger'[t].attempts = ledger[t].attempts
      BY <1>1, <2>1, <2>3, <3>1 DEF EntryMoves, Early
    <3> QED
      BY <1>1, <2>1, <3>2
  <2> QED
    BY <1>2, <2>1, <2>2, <2>3
<1>4. CASE \A v \in Worker : Keeps(v, t)
  BY <1>1, <1>3, <1>4
<1>5. ASSUME NEW u \in Worker, Begins(u, t), \A v \in Worker \ {u} : Keeps(v, t)
      PROVE  RunInv(w, t)'
  <2>1. CASE w = u
    <3>1. \A v \in Worker \ {u} : run'[v][t].phase # "none" => run'[v][t].generation # run'[u][t].generation
      BY <1>2, <1>3, <1>5 DEF Begins
    <3> QED
      BY <1>2, <1>5, <2>1, <3>1 DEF Begins
  <2>2. CASE w # u
    <3>1. run'[w][t].phase # "none" => run'[u][t].generation # run'[w][t].generation
      BY <1>2, <1>3, <1>5, <2>2 DEF Begins
    <3> QED
      BY <1>1, <1>3, <1>5, <2>2, <3>1
  <2> QED
    BY <2>1, <2>2
<1> QED
  BY <1>1, <1>4, <1>5 DEF RunMoves

LEMMA ResultStep ==
    ASSUME ReleaseTypeOK, HolderInv, [ReleaseNext]_releaseVars, NEW x \in Task
    PROVE  result'[x] = IF ledger'[x].status = "completed" THEN ledger'[x].generation ELSE 0
<1> USE DEF ReleaseTypeOK
<1>a. result[x] = IF ledger[x].status = "completed" THEN ledger[x].generation ELSE 0
  BY DEF HolderInv, ResultOfLastClaim
<1> DEFINE Follows == result'[x] = IF ledger'[x].status = "completed" THEN ledger'[x].generation ELSE 0
\* A step that leaves the results and completes no task.
<1>b. ASSUME UNCHANGED result, UNCHANGED ledger PROVE Follows
  BY <1>a, <1>b
<1>c. ASSUME UNCHANGED result, NEW t \in Task, NEW e, SetEntry(t, e), e.status # "completed" PROVE Follows
  <2>1. ledger'[x] = IF x = t THEN e ELSE ledger[x]
    BY <1>c DEF SetEntry
  <2>2. CASE x = t
    <3>1. ledger[x].status # "completed"
      BY <1>c, <2>1, <2>2, EntryStep DEF EntryMoves
    <3> QED
      BY <1>a, <1>c, <2>1, <2>2, <3>1
  <2> QED
    BY <1>a, <1>c, <2>1, <2>2
<1>1. ASSUME NEW w \in Worker, NEW t \in Task, Complete(w, t) \/ CompleteThrows(w, t)
      PROVE  Follows
  <2>1. CASE UNCHANGED <<ledger, result>>
    BY <1>a, <2>1
  <2>2. CASE /\ Holds(w, t)
             /\ SetEntry(t, [ledger[t] EXCEPT !.status = "completed", !.lease = "none"])
             /\ result' = [result EXCEPT ![t] = run[w][t].generation]
    <3> DEFINE ended == [ledger[t] EXCEPT !.status = "completed", !.lease = "none"]
    <3>1. ended.status = "completed" /\ ended.generation = ledger[t].generation
      BY EntryFields DEF Entry
    <3>2. ledger'[x] = IF x = t THEN ended ELSE ledger[x]
      BY <2>2 DEF SetEntry
    <3>3. result'[x] = IF x = t THEN ledger[t].generation ELSE result[x]
      BY <2>2 DEF Holds
    <3> HIDE DEF ended
    <3> QED
      BY <1>a, <3>1, <3>2, <3>3
  <2> QED
    BY <1>1, <2>1, <2>2 DEF Complete, CompleteThrows, Record
<1>2. ASSUME NEW w \in Worker, Ensure(w) PROVE Follows
  <2>1. [Absent EXCEPT !.status = "pending"].status # "completed"
    BY DEF Absent
  <2> QED
    BY <1>2, <1>b, <1>c, <2>1 DEF Ensure
<1>3. ASSUME NEW w \in Worker, Claim(w) \/ Throws(w) PROVE Follows
  <2>1. \A t \in Task : Claimed(t).status # "completed"
    BY EntryFields DEF Claimed, Entry
  <2>2. \A t \in todo[w] : t \in Task
    OBVIOUS
  <2> QED
    BY <1>3, <1>b, <1>c, <2>1, <2>2 DEF Claim, Throws
<1>4. ASSUME NEW w \in Worker, NEW t \in Task, Fail(w, t) \/ FailThrows(w, t) PROVE Follows
  <2> DEFINE outcome == Outcome(w, t)
             failed == [ledger[t] EXCEPT !.status = outcome, !.lease = "none", !.due = FALSE]
  <2>1. failed.status # "completed"
    <3>1. outcome # "completed"
      BY DEF Outcome
    <3> HIDE DEF outcome
    <3> QED
      BY <3>1, EntryFields DEF Entry
  <2>2. UNCHANGED ledger \/ SetEntry(t, failed)
    BY <1>4 DEF Fail, FailThrows, RecordFailure
  <2>3. UNCHANGED result
    BY <1>4 DEF Fail, FailThrows
  <2> HIDE DEF failed
  <2> QED
    BY <1>b, <1>c, <2>1, <2>2, <2>3
<1>5. ASSUME NEW w \in Worker, NEW t \in Task, Heartbeat(w, t) PROVE Follows
  <2>1. [ledger[t] EXCEPT !.lease = "live"].status # "completed"
    BY <1>5, EntryFields DEF Heartbeat, Holds, Entry
  <2> QED
    BY <1>5, <1>c, <2>1 DEF Heartbeat
<1>6. ASSUME NEW t \in Task, Lapse(t) PROVE Follows
  <2>1. [ledger[t] EXCEPT !.lease = "lapsed"].status # "completed"
    BY <1>6, EntryFields DEF Lapse, Entry, HolderInv, LedgerInv
  <2> QED
    BY <1>6, <1>c, <2>1 DEF Lapse
<1>7. ASSUME NEW t \in Task, ComesDue(t) PROVE Follows
  <2>1. [ledger[t] EXCEPT !.due = TRUE].status # "completed"
    BY <1>7, EntryFields DEF ComesDue, Entry
  <2> QED
    BY <1>7, <1>c, <2>1 DEF ComesDue
<1>8. ASSUME NEW t \in Task, Resume(t) PROVE Follows
  <2>1. [ledger[t] EXCEPT !.status = "pending", !.attempts = 0, !.due = FALSE].status # "completed"
    BY EntryFields DEF Entry
  <2> QED
    BY <1>8, <1>c, <2>1 DEF Resume
<1>9. ASSUME NEW w \in Worker,
             \/ Start(w) \/ Read(w) \/ EndStage(w) \/ Deadline(w) \/ Decide(w) \/ Pause(w) \/ Drained(w)
             \/ Cool(w) \/ Crash(w)
      PROVE  Follows
  BY <1>9, <1>b DEF Start, Read, EndStage, Deadline, Decide, Pause, Drained, Cool, Crash
<1>10. ASSUME NEW w \in Worker, NEW t \in Task, RunSucceeds(w, t) \/ RunFails(w, t) PROVE Follows
  BY <1>10, <1>b DEF RunSucceeds, RunFails
<1>11. ASSUME UNCHANGED releaseVars PROVE Follows
  BY <1>11, <1>b DEF releaseVars
<1> HIDE DEF Follows
<1>12. Follows
  BY <1>1, <1>2, <1>3, <1>4, <1>5, <1>6, <1>7, <1>8, <1>9, <1>10, <1>11
     DEF ReleaseNext, LoopStep, RunStep
<1> QED
  BY <1>12 DEF Follows

LEMMA DoneStep ==
    ASSUME ReleaseTypeOK, HolderInv, [ReleaseNext]_releaseVars
    PROVE  DoneMeansCompleted'
<1> USE DEF DoneMeansCompleted
<1> SUFFICES ASSUME NEW x \in Worker, at'[x] = "done", NEW y \in Task
             PROVE  ledger'[y].status = "completed"
  OBVIOUS
<1>1. at[x] = "done" \/ ledger[y].status = "completed"
  <2> USE DEF ReleaseTypeOK, Goes
  <2>1. ASSUME NEW w \in Worker, EndStage(w) PROVE at[x] = "done" \/ ledger[y].status = "completed"
    BY <2>1 DEF EndStage, HolderInv, SeenInv
  <2>2. ASSUME NEW w \in Worker,
               \/ Start(w) \/ Ensure(w) \/ Read(w) \/ Deadline(w) \/ Decide(w) \/ Claim(w)
               \/ Pause(w) \/ Drained(w) \/ Throws(w) \/ Cool(w) \/ Crash(w)
        PROVE  at[x] = "done"
    BY <2>2 DEF Start, Ensure, Read, Deadline, Decide, Claim, Pause, Drained, Throws, Cool, Crash
  <2>3. ASSUME NEW w \in Worker, NEW t \in Task,
               RunStep(w, t) \/ CompleteThrows(w, t) \/ FailThrows(w, t) \/ Heartbeat(w, t)
        PROVE  at[x] = "done"
    BY <2>3 DEF RunStep, RunSucceeds, RunFails, Complete, Fail, CompleteThrows, FailThrows, Heartbeat
  <2>4. ASSUME NEW t \in Task, Lapse(t) \/ ComesDue(t) \/ Resume(t) PROVE at[x] = "done"
    BY <2>4 DEF Lapse, ComesDue, Resume
  <2>5. CASE UNCHANGED releaseVars
    BY <2>5 DEF releaseVars
  <2> QED
    BY <2>1, <2>2, <2>3, <2>4, <2>5 DEF ReleaseNext, LoopStep
<1>2. ledger[y].status = "completed"
  BY <1>1 DEF HolderInv
<1> QED
  BY <1>2, EntryStep DEF EntryMoves

LEMMA HolderInit == ReleaseInit => HolderInv
<1> SUFFICES ASSUME ReleaseInit PROVE HolderInv
  OBVIOUS
<1>1. /\ Absent.status = "absent" /\ Absent.generation = 0 /\ Absent.attempts = 0 /\ Absent.lease = "none"
      /\ NotRun.phase = "none"
  BY DEF Absent, NotRun
<1>2. \A t \in Task : LedgerInv(t)
  BY <1>1 DEF ReleaseInit, LedgerInv, Unread
<1>3. \A w \in Worker, t \in Task : SeenInv(w, t)
  BY <1>1 DEF ReleaseInit, WorkersInit, SeenInv, Unread, Early
<1>4. \A w \in Worker, t \in Task : RunInv(w, t)
  BY <1>1 DEF ReleaseInit, WorkersInit, RunInv, Active
<1>5. ResultOfLastClaim /\ DoneMeansCompleted
  BY <1>1 DEF ReleaseInit, WorkersInit, ResultOfLastClaim, DoneMeansCompleted, Unread
<1> QED
  BY <1>2, <1>3, <1>4, <1>5 DEF HolderInv

LEMMA HolderStep == ReleaseTypeOK /\ HolderInv /\ [ReleaseNext]_releaseVars => HolderInv'
<1> SUFFICES ASSUME ReleaseTypeOK, HolderInv, [ReleaseNext]_releaseVars PROVE HolderInv'
  OBVIOUS
<1>1. \A t \in Task : LedgerInv(t)'
  BY EntryStep
<1>2. \A w \in Worker, t \in Task : SeenInv(w, t)'
  BY SeenInvStep
<1>3. \A w \in Worker, t \in Task : RunInv(w, t)'
  BY RunInvStep
<1>4. ResultOfLastClaim'
  BY ResultStep DEF ResultOfLastClaim
<1> QED
  BY <1>1, <1>2, <1>3, <1>4, DoneStep DEF HolderInv

LEMMA HolderAlways == ReleaseSpec => [](ReleaseTypeOK /\ HolderInv)
BY TypeInit, TypeStep, HolderInit, HolderStep, PTL DEF ReleaseSpec

\* Whoever else still runs a task, one worker at most holds it, with the attempts of
\* the ledger.
THEOREM OneWorkerHolds == ReleaseSpec => []OneHolder
<1>1. ReleaseTypeOK /\ HolderInv => OneHolder
  <2> SUFFICES ASSUME HolderInv, NEW w \in Worker, NEW t \in Active(w), Holds(w, t)
               PROVE  /\ run[w][t].attempts = ledger[t].attempts
                      /\ \A v \in Worker \ {w} : t \in Active(v) => ~Holds(v, t)
    BY DEF OneHolder
  <2>1. t \in Task
    BY DEF Active
  <2> QED
    BY <2>1 DEF HolderInv, RunInv, Holds
<1> QED
  BY <1>1, HolderAlways, PTL

\* A completed task holds the result of its last claim, any other task none.
THEOREM ResultIsOfLastClaim == ReleaseSpec => []ResultOfLastClaim
<1>1. HolderInv => ResultOfLastClaim
  BY DEF HolderInv
<1> QED
  BY <1>1, HolderAlways, PTL

\* A stage reported done has every task completed, whoever ran them.
THEOREM DoneIsCompleted == ReleaseSpec => []DoneMeansCompleted
<1>1. HolderInv => DoneMeansCompleted
  BY DEF HolderInv
<1> QED
  BY <1>1, HolderAlways, PTL

\* No step resets a completed task or its result: no retry, resumption or late claim.
THEOREM CompletedForGood == ReleaseSpec => CompletedStays
<1>1. ReleaseTypeOK /\ HolderInv /\ [ReleaseNext]_releaseVars =>
        [\A t \in Task : ledger[t].status = "completed" =>
            ledger'[t] = ledger[t] /\ result'[t] = result[t]]_releaseVars
  <2> SUFFICES ASSUME ReleaseTypeOK, HolderInv, [ReleaseNext]_releaseVars,
                      NEW t \in Task, ledger[t].status = "completed"
               PROVE  ledger'[t] = ledger[t] /\ result'[t] = result[t]
    OBVIOUS
  <2>1. ledger'[t] = ledger[t]
    BY EntryStep DEF EntryMoves
  <2>2. result'[t] = ledger'[t].generation /\ result[t] = ledger[t].generation
    BY <2>1, ResultStep DEF HolderInv, ResultOfLastClaim
  <2> QED
    BY <2>1, <2>2
<1> QED
  BY <1>1, HolderAlways, PTL DEF ReleaseSpec, CompletedStays
=============================================================================
