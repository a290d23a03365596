------------------------------- MODULE Rollout -------------------------------
(***************************************************************************)
(* The rollout of one colour of a deployment: monitorReadyRunner           *)
(* (src/cli/monitor.js) lists its pods, then reads the status of each, one *)
(* after the other, until it finds all of them ready and running in one    *)
(* iteration; then `run deploy` moves the traffic (src/cli/deploy.js).     *)
(* The pods go on all the time, fail and restart.                          *)
(***************************************************************************)
EXTENDS PodStatus

CONSTANT MaxIterations   \* UNDERPOST_MONITOR_MAX_ITERATIONS

ASSUME RolloutAssumption == MaxIterations \in Nat \ {0}

VARIABLES
    ready,       \* ready[p]: Kubernetes takes the pod for ready
    monitor,     \* list, read, ready (returned), promoted or failed
    iteration,
    allReady,    \* every pod was ready when they were listed
    toRead,      \* pods still to read in this iteration
    allRead,     \* allRuntimeRead: every read of this iteration gave a status so far
    advanced,    \* advancedPods
    cached,      \* pods that runtimeStatusCache has as running
    ranSince     \* history: pods that were running since this iteration began

rolloutVars == <<status, marker, ready, monitor, iteration, allReady, toRead, allRead,
                 advanced, cached, ranSince>>

RolloutInit ==
    /\ PodInit
    /\ ready = [p \in Pod |-> FALSE]
    /\ monitor = "list"
    /\ iteration = 1
    /\ allReady = FALSE
    /\ toRead = {}
    /\ allRead = TRUE
    /\ advanced = {}
    /\ cached = {}
    /\ ranSince = {}

-----------------------------------------------------------------------------
\* The pods, with the probe that reads the marker.
Phase(p) ==
    /\ Begin(p) \/ Built(p) \/ Fault(p)
    /\ UNCHANGED <<ready, monitor, iteration, allReady, toRead, allRead, advanced, cached, ranSince>>

Runs(p) ==
    /\ SignOff(p)
    /\ ranSince' = ranSince \cup {p}
    /\ UNCHANGED <<ready, monitor, iteration, allReady, toRead, allRead, advanced, cached>>

Probe(p) ==
    /\ marker[p]
    /\ ready' = [ready EXCEPT ![p] = TRUE]
    /\ UNCHANGED <<podVars, monitor, iteration, allReady, toRead, allRead, advanced, cached, ranSince>>

Restarts(p) ==
    /\ status[p] # "none"
    /\ Restarted(p)
    /\ ready' = [ready EXCEPT ![p] = FALSE]
    /\ UNCHANGED <<monitor, iteration, allReady, toRead, allRead, advanced, cached, ranSince>>

-----------------------------------------------------------------------------
\* checkDeploymentReadyStatus
List ==
    /\ monitor = "list"
    /\ monitor' = "read"
    /\ allReady' = (\A p \in Pod : ready[p])
    /\ toRead' = Pod
    /\ allRead' = TRUE
    /\ ranSince' = {p \in Pod : status[p] = "running"}
    /\ UNCHANGED <<podVars, ready, iteration, advanced, cached>>

Fails ==
    /\ monitor' = "failed"
    /\ UNCHANGED <<podVars, ready, iteration, allReady, toRead, allRead, advanced, cached, ranSince>>

\* Kubernetes lists a pod whose container can not start, or crashes.
ListFatal ==
    /\ monitor = "list"
    /\ \E p \in Pod : status[p] = "none"
    /\ Fails

\* Mutant of ReadFails: a status that could not be read is passed over.
ReadFailsQuietly(p) ==
    /\ monitor = "read"
    /\ p \in toRead
    /\ toRead' = toRead \ {p}
    /\ UNCHANGED <<podVars, ready, monitor, iteration, allReady, allRead, advanced, cached, ranSince>>

\* The pod can not be reached, or its store is empty.
ReadFails(p) ==
    /\ monitor = "read"
    /\ p \in toRead
    /\ toRead' = toRead \ {p}
    /\ allRead' = FALSE
    /\ UNCHANGED <<podVars, ready, monitor, iteration, allReady, advanced, cached, ranSince>>

Regressed(p) == p \in advanced /\ status[p] = "build"

\* The runtime reports an error, or its pod started again.
ReadFatal(p) ==
    /\ monitor = "read"
    /\ p \in toRead
    /\ status[p] = "error" \/ Regressed(p)
    /\ Fails

Read(p) ==
    /\ monitor = "read"
    /\ p \in toRead
    /\ status[p] \notin {"none", "error"}
    /\ ~Regressed(p)
    /\ toRead' = toRead \ {p}
    /\ advanced' = IF status[p] = "build" THEN advanced ELSE advanced \cup {p}
    /\ cached' = IF status[p] = "running" THEN cached \cup {p} ELSE cached \ {p}
    /\ UNCHANGED <<podVars, ready, monitor, iteration, allReady, allRead, ranSince>>

\* The next iteration, or the time-out.
Again ==
    /\ monitor' = IF iteration = MaxIterations THEN "failed" ELSE "list"
    /\ iteration' = IF iteration = MaxIterations THEN iteration ELSE iteration + 1

Judge ==
    /\ monitor = "read"
    /\ toRead = {}
    /\ IF allReady /\ allRead /\ cached = Pod
       THEN monitor' = "ready" /\ UNCHANGED iteration
       ELSE Again
    /\ UNCHANGED <<podVars, ready, allReady, toRead, allRead, advanced, cached, ranSince>>

\* switchTraffic, which refuses a colour that is not ready now.
Promote ==
    /\ monitor = "ready"
    /\ \A p \in Pod : ready[p]
    /\ monitor' = "promoted"
    /\ UNCHANGED <<podVars, ready, iteration, allReady, toRead, allRead, advanced, cached, ranSince>>

Refuse ==
    /\ monitor = "ready"
    /\ \E p \in Pod : ~ready[p]
    /\ Fails

RolloutNext ==
    \/ \E p \in Pod :
        \/ Phase(p) \/ Runs(p) \/ Probe(p) \/ Restarts(p)
        \/ Read(p) \/ ReadFails(p) \/ ReadFatal(p)
    \/ List \/ ListFatal \/ Judge \/ Promote \/ Refuse

RolloutSpec == RolloutInit /\ [][RolloutNext]_rolloutVars

-----------------------------------------------------------------------------
(* Properties *)

\* Every variable has its type.
RolloutTypeOK ==
    /\ PodTypeOK
    /\ ready \in [Pod -> BOOLEAN]
    /\ monitor \in {"list", "read", "ready", "promoted", "failed"}
    /\ iteration \in 1..MaxIterations
    /\ allReady \in BOOLEAN
    /\ toRead \in SUBSET Pod
    /\ allRead \in BOOLEAN
    /\ advanced \in SUBSET Pod
    /\ cached \in SUBSET Pod
    /\ ranSince \in SUBSET Pod

\* Traffic moves only to pods that each were running at some moment of the last
\* iteration, whatever restarted, failed or could not be read meanwhile.
PromotedRan == monitor \in {"ready", "promoted"} => ranSince = Pod
=============================================================================
