---------------------------- MODULE WatchRunner ----------------------------
(***************************************************************************)
(* The development watcher (src/server/runtime/watch-runner.js): it runs a *)
(* script, and when watched files change it stops the run and starts       *)
(* another, told of every path that changed since a run last completed.    *)
(*                                                                         *)
(* One event of its loop is one step: a timer, a signal, the exit of a     *)
(* child, with the promise continuations that follow it.  Between them the *)
(* children end when they like.  Files change MaxChanges times at most;    *)
(* re-creating a failed watcher, and what changes meanwhile, is left out.  *)
(***************************************************************************)
EXTENDS Naturals, FiniteSets

CONSTANTS Path,         \* watched files
          MaxChanges    \* bound on the changes

ASSUME WatchRunnerAssumption == MaxChanges \in Nat

Run == 1..(MaxChanges + 1)
NoRun == 0

VARIABLES
    proc,         \* proc[r]: what became of run r
    child,        \* the run `child` names
    stopping,     \* the runs that stop() was called for
    changed, pending,
    fullBuild,    \* fullBuildPending
    debounce,     \* the debounce timer is set
    queued,
    chain,        \* `restarting`: settled, or waiting for a run to stop
    closed,       \* close() was called, or the watcher ended
    closing,      \* how far it came
    changes,      \* number of changes
    stale, since  \* history: named changes since the start of the last run that
                  \* completed, and since the start of the last run

script == <<proc, child, stopping>>
paths == <<changed, pending, fullBuild>>
watchHistory == <<changes, stale, since>>
watchVars == <<script, paths, debounce, queued, chain, closed, closing, watchHistory>>

Alive == {"running", "succeeded", "crashed"}    \* its exit has not been reported

-----------------------------------------------------------------------------
WatchInit ==
    /\ \E s \in {"running", "unstarted"} :
        proc = [r \in Run |-> IF r = 1 THEN s ELSE "none"]
    /\ child = 1
    /\ stopping = {}
    /\ changed = {} /\ pending = {} /\ fullBuild = FALSE
    /\ debounce = FALSE
    /\ queued = FALSE
    /\ chain = "settled"
    /\ closed = FALSE
    /\ closing = "no"
    /\ changes = 0 /\ stale = {} /\ since = {}

\* onChange, with the path when the watcher gives one.
Change ==
    /\ ~closed
    /\ changes < MaxChanges
    /\ changes' = changes + 1
    /\ \/ \E p \in Path :
            /\ changed' = changed \cup {p}
            /\ stale' = stale \cup {p}
            /\ since' = since \cup {p}
            /\ UNCHANGED fullBuild
       \/ fullBuild' = TRUE /\ UNCHANGED <<changed, stale, since>>
    /\ debounce' = TRUE
    /\ UNCHANGED <<script, pending, queued, chain, closed, closing>>

\* Mutant of Told: the paths an interrupted run was told of are dropped.
ToldLatest == changed

\* The paths the next run is told of.
Told == pending \cup changed

\* Mutant of Unqueue: a restart that is over still counts as queued.
UnqueueNever == queued' = TRUE

Unqueue == queued' = FALSE

\* The rest of a restart once the run before it is over: `procs`, `left` and
\* `timer` are then the processes, the child and the debounce timer.  It tells of
\* the pending paths and runs the script again, which may not start.  When
\* onRestart throws, nobody handles the rejection and the watcher ends.
Launch(procs, left, timer) ==
    /\ Unqueue
    /\ chain' = "settled"
    /\ \/ /\ ~closed
          /\ pending' = Told
          /\ changed' = {}
          /\ since' = {}
          /\ \E r \in Run, s \in {"running", "unstarted"} :
                /\ procs[r] = "none"
                /\ \A q \in Run : q < r => procs[q] # "none"
                /\ proc' = [procs EXCEPT ![r] = s]
                /\ child' = r
          /\ debounce' = timer
          /\ UNCHANGED <<closed, closing>>
       \/ /\ ~closed
          /\ pending' = Told
          /\ changed' = {}
          /\ closed' = TRUE /\ closing' = "closed" /\ debounce' = FALSE
          /\ proc' = procs /\ child' = left
          /\ UNCHANGED since
       \/ /\ closed
          /\ closing' = "closed"
          /\ proc' = procs /\ child' = left
          /\ debounce' = timer
          /\ UNCHANGED <<closed, changed, pending, since>>

\* Mutant of Stoppable: one stop() is taken for all.
StoppableOnce == child # NoRun /\ proc[child] \in Alive /\ stopping = {}

\* Mutant of Stoppable: a script that could not start is waited for.
StoppableAsNamed == child # NoRun

\* stop() has a run to wait for.
Stoppable == child # NoRun /\ proc[child] \in Alive

\* The debounce timer fires: restart().
Restart ==
    /\ debounce
    /\ \/ /\ queued
          /\ debounce' = FALSE
          /\ UNCHANGED <<script, changed, pending, queued, chain, closed, closing, since>>
       \/ /\ ~queued /\ Stoppable
          /\ debounce' = FALSE
          /\ queued' = TRUE
          /\ chain' = "stopping"
          /\ stopping' = stopping \cup {child}
          /\ UNCHANGED <<proc, child, changed, pending, closed, closing, since>>
       \/ /\ ~queued /\ ~Stoppable
          /\ Launch(proc, child, FALSE)
          /\ UNCHANGED stopping
    /\ UNCHANGED <<fullBuild, changes, stale>>

\* A run ends of itself, of SIGINT, or of SIGKILL once killTimeoutMs passed.
Ends(r) ==
    /\ proc[r] = "running"
    /\ \E s \in {"succeeded", "crashed"} : proc' = [proc EXCEPT ![r] = s]
    /\ UNCHANGED <<child, stopping, paths, debounce, queued, chain, closed, closing, watchHistory>>

\* What `child` names after the exit of r.
Left(r) == IF child = r THEN NoRun ELSE child

\* The exit of a run that nothing stopped.
Exited(r) ==
    /\ proc[r] \in {"succeeded", "crashed"}
    /\ r \notin stopping
    /\ proc' = [proc EXCEPT ![r] = "gone"]
    /\ child' = Left(r)
    /\ IF proc[r] = "succeeded"
       THEN pending' = {} /\ fullBuild' = FALSE /\ stale' = since
       ELSE UNCHANGED <<pending, fullBuild, stale>>
    /\ UNCHANGED <<stopping, changed, debounce, queued, chain, closed, closing, changes, since>>

\* The exit of a run that a restart or close() waits for.
Stopped(r) ==
    /\ proc[r] \in {"succeeded", "crashed"}
    /\ r \in stopping
    /\ LET procs == [proc EXCEPT ![r] = "gone"]
       IN  \/ chain = "stopping" /\ Launch(procs, Left(r), debounce)
           \/ /\ chain = "settled"
              /\ proc' = procs
              /\ child' = Left(r)
              /\ closing' = "closed"
              /\ UNCHANGED <<changed, pending, debounce, queued, chain, closed, since>>
    /\ UNCHANGED <<stopping, fullBuild, changes, stale>>

\* A signal to the watcher: close(), then the end of the process.
Close ==
    /\ ~closed
    /\ closed' = TRUE
    /\ debounce' = FALSE
    /\ \/ /\ chain = "stopping"
          /\ closing' = "awaiting"
          /\ UNCHANGED stopping
       \/ /\ chain = "settled" /\ Stoppable
          /\ closing' = "awaiting"
          /\ stopping' = stopping \cup {child}
       \/ /\ chain = "settled" /\ ~Stoppable
          /\ closing' = "closed"
          /\ UNCHANGED stopping
    /\ UNCHANGED <<proc, child, paths, queued, chain, watchHistory>>

WatchNext ==
    \/ Change \/ Restart \/ Close
    \/ \E r \in Run : Ends(r) \/ Exited(r) \/ Stopped(r)

WatchSpec == WatchInit /\ [][WatchNext]_watchVars

\* Timers fire, exits are reported, and a run that is stopped ends, of SIGKILL at
\* the latest.  A run that nobody stops may go on for ever.
WatchFairness ==
    /\ WF_watchVars(Restart)
    /\ \A r \in Run :
        /\ WF_watchVars(Exited(r) \/ Stopped(r))
        /\ WF_watchVars(r \in stopping /\ Ends(r))

FairWatchSpec == WatchSpec /\ WatchFairness

-----------------------------------------------------------------------------
(* Properties *)

\* Every variable has its type, and `child` names a run whose exit is to come.
WatchTypeOK ==
    /\ proc \in [Run -> Alive \cup {"none", "unstarted", "gone"}]
    /\ child \in Run \cup {NoRun}
    /\ stopping \in SUBSET Run
    /\ changed \in SUBSET Path /\ pending \in SUBSET Path
    /\ fullBuild \in BOOLEAN /\ debounce \in BOOLEAN /\ queued \in BOOLEAN /\ closed \in BOOLEAN
    /\ chain \in {"settled", "stopping"}
    /\ closing \in {"no", "awaiting", "closed"}
    /\ changes \in 0..MaxChanges
    /\ stale \in SUBSET Path /\ since \in SUBSET Path
    /\ ~closed /\ child # NoRun => proc[child] \in Alive \cup {"unstarted"}

\* One run of the script at a time (watchRunnerFactory, "restarts run one at a
\* time"), however changes, exits and a close interleave.
OneRun == \A q, r \in Run : proc[q] = "running" /\ proc[r] = "running" => q = r

\* A path that changed since the start of the last run that completed is one the
\* next restart tells of, through interrupted runs and changes during a run.
PathsKept == stale \subseteq changed \cup pending

\* Once close() returned, nothing runs and nothing will: a restart it found under
\* way starts no run after it.
ClosedForGood == closing = "closed" => \A r \in Run : proc[r] # "running"

\* A path that changed reaches a run, unless the watcher closes or ends.
ChangesReachRun == \A p \in Path : p \in changed ~> p \notin changed \/ closed

\* close() ends: it never waits for the exit of a run that will not report one.
CloseEnds == closed ~> closing = "closed"
=============================================================================
