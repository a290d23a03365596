------------------------- MODULE WatchRunnerProofs -------------------------
(***************************************************************************)
(* Proofs about WatchRunner, for any files and any number of changes.      *)
(* ChildInv says that the child is the only run whose exit is to come;     *)
(* that two runs never overlap, that close() is final and that no changed  *)
(* path is forgotten rest on it.                                           *)
(***************************************************************************)
EXTENDS WatchRunner, TLAPS

Typed ==
    /\ proc \in [Run -> Alive \cup {"none", "unstarted", "gone"}]
    /\ child \in Run \cup {NoRun}
    /\ stopping \in SUBSET Run
    /\ changed \in SUBSET Path /\ pending \in SUBSET Path
    /\ fullBuild \in BOOLEAN /\ debounce \in BOOLEAN /\ queued \in BOOLEAN /\ closed \in BOOLEAN
    /\ chain \in {"settled", "stopping"}
    /\ closing \in {"no", "awaiting", "closed"}
    /\ changes \in 0..MaxChanges
    /\ stale \in SUBSET Path /\ since \in SUBSET Path

\* The exit of a run that is not the child has been reported; only a restart under
\* way or close() waits for the child; after close() no timer is set.
ChildInv ==
    /\ \A r \in Run : proc[r] \in Alive => child = r
    /\ \A r \in stopping : proc[r] # "none" /\ (proc[r] \in Alive => chain = "stopping" \/ closed)
    /\ ~closed /\ child # NoRun => proc[child] \in Alive \cup {"unstarted"}
    /\ closed => ~debounce

\* After close() returned, and after the watcher ended, no run is left.
OverInv == closing = "closed" => closed /\ \A r \in Run : proc[r] \notin Alive

LEMMA RunFacts == MaxChanges \in Nat /\ Run \subseteq Nat /\ 1 \in Run /\ NoRun \notin Run
BY WatchRunnerAssumption DEF WatchRunnerAssumption, Run, NoRun

\* What a restart leaves has its type.
LEMMA LaunchTyped ==
    ASSUME Typed, NEW procs \in [Run -> Alive \cup {"none", "unstarted", "gone"}],
           NEW left \in Run \cup {NoRun}, NEW timer \in BOOLEAN, Launch(procs, left, timer)
    PROVE  /\ proc' \in [Run -> Alive \cup {"none", "unstarted", "gone"}]
           /\ child' \in Run \cup {NoRun}
           /\ changed' \in SUBSET Path /\ pending' \in SUBSET Path /\ since' \in SUBSET Path
           /\ queued' \in BOOLEAN /\ debounce' \in BOOLEAN /\ closed' \in BOOLEAN
           /\ chain' \in {"settled", "stopping"}
           /\ closing' \in {"no", "awaiting", "closed"}
BY DEF Typed, Launch, Told, Unqueue, Alive

LEMMA TypedStep == Typed /\ [WatchNext]_watchVars => Typed'
<1> SUFFICES ASSUME Typed, [WatchNext]_watchVars PROVE Typed'
  OBVIOUS
<1>1. CASE Change
  <2>1. changes' \in 0..MaxChanges
    BY <1>1, RunFacts DEF Typed, Change
  <2>2. fullBuild' \in BOOLEAN /\ debounce' \in BOOLEAN
    BY <1>1, Zenon DEF Typed, Change
  <2>3. changed' \in SUBSET Path /\ stale' \in SUBSET Path /\ since' \in SUBSET Path
    BY <1>1 DEF Typed, Change
  <2> QED
    BY <1>1, <2>1, <2>2, <2>3, Zenon DEF Typed, Change, script
<1>2. CASE Restart
  <2>1. CASE queued
    BY <1>2, <2>1 DEF Typed, Restart, script
  <2>2. CASE ~queued /\ Stoppable
    <3>1. child \in Run /\ debounce' = FALSE /\ queued' = TRUE
      BY <1>2, <2>2 DEF Typed, Restart, Stoppable
    <3> QED
      BY <1>2, <2>2, <3>1 DEF Typed, Restart
  <2>3. CASE Launch(proc, child, FALSE) /\ UNCHANGED stopping
    BY <1>2, <2>3, LaunchTyped DEF Typed, Restart
  <2> QED
    BY <1>2, <2>1, <2>2, <2>3 DEF Restart
<1>3. CASE Close
  BY <1>3 DEF Typed, Close, script, paths, watchHistory, Stoppable, NoRun, Alive
<1>4. ASSUME NEW r \in Run, Ends(r) PROVE Typed'
  BY <1>4 DEF Typed, Ends, paths, watchHistory, Alive
<1>5. ASSUME NEW r \in Run, Exited(r) PROVE Typed'
  BY <1>5 DEF Typed, Exited, Left
<1>6. ASSUME NEW r \in Run, Stopped(r) PROVE Typed'
  <2> DEFINE procs == [proc EXCEPT ![r] = "gone"]
  <2>1. /\ procs \in [Run -> Alive \cup {"none", "unstarted", "gone"}]
        /\ Left(r) \in Run \cup {NoRun}
        /\ debounce \in BOOLEAN
    BY DEF Typed, Left
  <2>2. CASE Launch(procs, Left(r), debounce)
    <3>1. /\ proc' \in [Run -> Alive \cup {"none", "unstarted", "gone"}]
          /\ child' \in Run \cup {NoRun}
          /\ changed' \in SUBSET Path /\ pending' \in SUBSET Path /\ since' \in SUBSET Path
          /\ queued' \in BOOLEAN /\ debounce' \in BOOLEAN /\ closed' \in BOOLEAN
          /\ chain' \in {"settled", "stopping"}
          /\ closing' \in {"no", "awaiting", "closed"}
      BY <2>1, <2>2, LaunchTyped
    <3> QED
      BY <1>6, <3>1 DEF Typed, Stopped
  <2>3. CASE /\ proc' = procs /\ child' = Left(r) /\ closing' = "closed"
             /\ UNCHANGED <<changed, pending, debounce, queued, chain, closed, since>>
    BY <1>6, <2>1, <2>3 DEF Typed, Stopped
  <2> QED
    BY <1>6, <2>2, <2>3 DEF Stopped
<1>7. CASE UNCHANGED watchVars
  BY <1>7 DEF Typed, watchVars, script, paths, watchHistory
<1> QED
  BY <1>1, <1>2, <1>3, <1>4, <1>5, <1>6, <1>7 DEF WatchNext

\* A restart begins with nothing running, and leaves the child it started at most.
LEMMA LaunchChild ==
    ASSUME NEW procs \in [Run -> Alive \cup {"none", "unstarted", "gone"}], NEW left,
           NEW timer, closed => ~timer, closing = "closed" => closed,
           Launch(procs, left, timer),
           \A r \in Run : procs[r] \notin Alive,
           stopping \in SUBSET Run, UNCHANGED stopping, \A r \in stopping : procs[r] # "none",
           left # NoRun => left \in Run /\ procs[left] = "unstarted"
    PROVE  /\ \A r \in Run : proc'[r] \in Alive => child' = r
           /\ \A r \in stopping' : proc'[r] \notin Alive \cup {"none"}
           /\ ~closed' /\ child' # NoRun => proc'[child'] \in Alive \cup {"unstarted"}
           /\ closed' => ~debounce'
           /\ closing' = "closed" => closed' /\ \A r \in Run : proc'[r] \notin Alive
BY DEF Launch, Alive

LEMMA ChildStep == Typed /\ ChildInv /\ OverInv /\ [WatchNext]_watchVars => ChildInv' /\ OverInv'
<1> SUFFICES ASSUME Typed, ChildInv, OverInv, [WatchNext]_watchVars PROVE ChildInv' /\ OverInv'
  OBVIOUS
<1> USE DEF Typed, ChildInv, OverInv
<1>1. CASE Change
  BY <1>1 DEF Change, script
<1>2. CASE Restart
  <2>1. ~closed /\ closing # "closed"
    BY <1>2 DEF Restart
  <2>2. CASE queued \/ Stoppable
    BY <1>2, <2>1, <2>2, RunFacts DEF Restart, script, Stoppable, Alive
  <2>3. CASE ~queued /\ ~Stoppable
    <3>1. /\ \A r \in Run : proc[r] \notin Alive
          /\ child # NoRun => child \in Run /\ proc[child] = "unstarted"
      BY <2>1, <2>3, RunFacts DEF Stoppable
    <3>2. Launch(proc, child, FALSE) /\ UNCHANGED stopping
      BY <1>2, <2>3 DEF Restart
    <3> QED
      BY <2>1, <3>1, <3>2, LaunchChild
  <2> QED
    BY <2>2, <2>3
<1>3. CASE Close
  <2>1. /\ closed' /\ ~debounce' /\ UNCHANGED <<proc, child>>
        /\ \A r \in stopping' : r \in stopping \/ (r = child /\ Stoppable)
    BY <1>3 DEF Close
  <2>2. CASE closing' = "awaiting"
    BY <2>1, <2>2 DEF Stoppable, Alive
  <2>3. CASE ~Stoppable
    BY <2>1, <2>3, RunFacts DEF Stoppable
  <2> QED
    BY <1>3, <2>2, <2>3 DEF Close
<1>4. ASSUME NEW r \in Run, Ends(r) PROVE ChildInv' /\ OverInv'
  BY <1>4, RunFacts DEF Ends, paths, watchHistory, Alive
<1>5. ASSUME NEW r \in Run, Exited(r) PROVE ChildInv' /\ OverInv'
  BY <1>5, RunFacts DEF Exited, Left, Alive
<1>6. ASSUME NEW r \in Run, Stopped(r) PROVE ChildInv' /\ OverInv'
  <2> DEFINE procs == [proc EXCEPT ![r] = "gone"]
  <2>1. /\ child = r /\ Left(r) = NoRun /\ closing # "closed"
        /\ procs \in [Run -> Alive \cup {"none", "unstarted", "gone"}]
        /\ \A q \in Run : procs[q] \notin Alive
        /\ UNCHANGED stopping /\ \A q \in stopping : procs[q] # "none"
    BY <1>6 DEF Stopped, Left, Alive
  <2>2. CASE Launch(procs, Left(r), debounce)
    BY <2>1, <2>2, LaunchChild
  <2>3. CASE /\ chain = "settled" /\ proc' = procs /\ child' = Left(r) /\ closing' = "closed"
             /\ UNCHANGED <<debounce, chain, closed>>
    <3>1. closed
      BY <1>6, <2>3 DEF Stopped, Alive
    <3> QED
      BY <2>1, <2>3, <3>1
  <2> QED
    BY <1>6, <2>2, <2>3 DEF Stopped
<1>7. CASE UNCHANGED watchVars
  BY <1>7 DEF watchVars, script
<1> QED
  BY <1>1, <1>2, <1>3, <1>4, <1>5, <1>6, <1>7 DEF WatchNext

LEMMA Start == WatchInit => Typed /\ ChildInv /\ OverInv
<1> SUFFICES ASSUME WatchInit PROVE Typed /\ ChildInv /\ OverInv
  OBVIOUS
<1>1. PICK s \in {"running", "unstarted"} : proc = [r \in Run |-> IF r = 1 THEN s ELSE "none"]
  BY DEF WatchInit
<1>2. proc \in [Run -> Alive \cup {"none", "unstarted", "gone"}]
  BY <1>1 DEF Alive
<1>3. child = 1 /\ child \in Run /\ changes \in 0..MaxChanges
  BY RunFacts DEF WatchInit
<1>4. Typed
  BY <1>2, <1>3 DEF WatchInit, Typed
<1>5. ChildInv /\ OverInv
  BY <1>1, <1>3 DEF WatchInit, ChildInv, OverInv, Alive
<1> QED
  BY <1>4, <1>5

\* Every variable keeps its type, and the child is a run whose exit is to come.
THEOREM TypeCorrect == WatchSpec => []WatchTypeOK
<1>1. Typed /\ ChildInv => WatchTypeOK
  BY DEF Typed, ChildInv, WatchTypeOK
<1> QED
  BY <1>1, Start, TypedStep, ChildStep, PTL DEF WatchSpec

\* Two runs of the script never overlap (watchRunnerFactory, "restarts run one at
\* a time").
THEOREM RunsAlone == WatchSpec => []OneRun
<1>1. ChildInv => OneRun
  BY DEF ChildInv, OneRun, Alive
<1> QED
  BY <1>1, Start, TypedStep, ChildStep, PTL DEF WatchSpec

\* Once close() returned nothing runs, ever (close).
THEOREM CloseIsFinal == WatchSpec => []ClosedForGood
<1>1. OverInv => ClosedForGood
  BY DEF OverInv, ClosedForGood, Alive
<1> QED
  BY <1>1, Start, TypedStep, ChildStep, PTL DEF WatchSpec

-----------------------------------------------------------------------------
\* What changed since the last run started is waiting in `changed`, until the
\* watcher ended and no run can complete any more.
KeptInv ==
    /\ PathsKept
    /\ closing # "closed" => since \subseteq changed

LEMMA KeptStep == Typed /\ ChildInv /\ OverInv /\ KeptInv /\ [WatchNext]_watchVars => KeptInv'
<1> SUFFICES ASSUME Typed, ChildInv, OverInv, KeptInv, [WatchNext]_watchVars PROVE KeptInv'
  OBVIOUS
<1> USE DEF Typed, KeptInv, PathsKept
<1>1. CASE Change
  BY <1>1 DEF Change
<1>2. ASSUME NEW procs, NEW left, NEW timer, Launch(procs, left, timer), UNCHANGED stale
      PROVE  KeptInv'
  BY <1>2 DEF Launch, Told
<1>3. CASE Restart
  BY <1>2, <1>3 DEF Restart
<1>4. CASE Close
  BY <1>4 DEF Close, OverInv, paths, watchHistory
<1>5. ASSUME NEW r \in Run, Ends(r) PROVE KeptInv'
  BY <1>5 DEF Ends, paths, watchHistory
<1>6. ASSUME NEW r \in Run, Exited(r) PROVE KeptInv'
  BY <1>6 DEF Exited, OverInv, Alive
<1>7. ASSUME NEW r \in Run, Stopped(r) PROVE KeptInv'
  BY <1>2, <1>7 DEF Stopped
<1>8. CASE UNCHANGED watchVars
  BY <1>8 DEF watchVars, paths, watchHistory
<1> QED
  BY <1>1, <1>3, <1>4, <1>5, <1>6, <1>7, <1>8 DEF WatchNext

\* A changed path stays pending until a run that started after the change
\* completes (watchRunnerFactory).
THEOREM NoPathForgotten == WatchSpec => []PathsKept
<1>1. WatchInit => KeptInv
  BY DEF WatchInit, KeptInv, PathsKept
<1>2. KeptInv => PathsKept
  BY DEF KeptInv
<1> QED
  BY <1>1, <1>2, Start, TypedStep, ChildStep, KeptStep, PTL DEF WatchSpec
=============================================================================
