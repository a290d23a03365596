------------------------------ MODULE PodStatus ------------------------------
(***************************************************************************)
(* What a pod tells its deployment (src/server/runtime/runtime-status.js): *)
(* container-status, which its start and any process in it write, and the  *)
(* marker start-container-status, which the start alone writes and the     *)
(* readiness probe reads.  Both are in the state store of the container,   *)
(* which is empty after a restart; a write of the store is one step.       *)
(*                                                                         *)
(* PodStart implements this specification, Rollout builds on it.           *)
(***************************************************************************)
EXTENDS Naturals

CONSTANT Pod   \* the pods of one colour of the deployment

VARIABLES
    status,   \* status[p]: container-status
    marker    \* marker[p]: start-container-status is set

podVars == <<status, marker>>

Phases == {"none", "build", "init", "running", "error"}

PodInit ==
    /\ status = [p \in Pod |-> "none"]
    /\ marker = [p \in Pod |-> FALSE]

\* setRuntimeStatus
SetRuntimeStatus(p, phase) == status' = [status EXCEPT ![p] = phase]

\* An error that another process latches is overwritten by the next phase.
Begin(p) ==
    /\ status[p] \in {"none", "error"}
    /\ ~marker[p]
    /\ SetRuntimeStatus(p, "build")
    /\ UNCHANGED marker

Built(p) ==
    /\ status[p] \in {"build", "error"}
    /\ ~marker[p]
    /\ SetRuntimeStatus(p, "init")
    /\ UNCHANGED marker

\* A phase that fails, or latchRuntimeError, which any process may call at any time.
Fault(p) ==
    /\ SetRuntimeStatus(p, "error")
    /\ UNCHANGED marker

\* The end of the start, over an error too.
SignOff(p) ==
    /\ status[p] \in {"init", "error"}
    /\ ~marker[p]
    /\ SetRuntimeStatus(p, "running")
    /\ marker' = [marker EXCEPT ![p] = TRUE]

Restarted(p) ==
    /\ SetRuntimeStatus(p, "none")
    /\ marker' = [marker EXCEPT ![p] = FALSE]

PodNext ==
    \E p \in Pod : Begin(p) \/ Built(p) \/ Fault(p) \/ SignOff(p) \/ Restarted(p)

PodSpec == PodInit /\ [][PodNext]_podVars

PodTypeOK == status \in [Pod -> Phases] /\ marker \in [Pod -> BOOLEAN]
=============================================================================
