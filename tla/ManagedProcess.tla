--------------------------- MODULE ManagedProcess ---------------------------
(***************************************************************************)
(* Managed processes (src/server/runtime/managed-process.js): a command    *)
(* runs in a process group of its own, and runManagedProcess resolves with *)
(* how it ended.                                                           *)
(*                                                                         *)
(* Four things may end the command: its own exit, a stop of its caller,    *)
(* the time limit, and a memory limit (the budget, the reserve of the host *)
(* or the kernel).  They race: each leaves its mark on the outcome until   *)
(* the `exit` event of the command reaches the runner, which may be later  *)
(* than the exit.  A stop and the time limit share one escalation: the     *)
(* first sends a signal and arms SIGKILL after graceMs, the second sends   *)
(* SIGKILL at once.  SIGKILL ends every process of the group in one step.  *)
(*                                                                         *)
(* Each runner starts one command.                                         *)
(***************************************************************************)
EXTENDS Naturals

CONSTANT Runner   \* callers of runManagedProcess

VARIABLES
    promise,      \* promise[p]: off, running, flushing (its log) or settled
    group,        \* group[p]: none, leader (it runs), orphans (it left others) or gone
    exit,         \* exit[p]: the exit code of the leader: none, zero or other
    marks,        \* marks[p]: what timedOut, cancelled, stoppedFor and oomKilled say
    escalation    \* escalation[p]: off, armed or fired

taskVars == <<promise, group, exit, marks, escalation>>

Causes == {"limit", "timeout", "cancelled"}

Lives(p) == group[p] \in {"leader", "orphans"}

TaskInit ==
    /\ promise = [p \in Runner |-> "off"]
    /\ group = [p \in Runner |-> "none"]
    /\ exit = [p \in Runner |-> "none"]
    /\ marks = [p \in Runner |-> {}]
    /\ escalation = [p \in Runner |-> "off"]

\* Mutant of Reason: an exit code of 0 counts, whoever stopped the command.
ReasonByExit(p) == IF exit[p] = "zero" THEN "completed" ELSE "failed"

\* terminationReason; `limit` stands for memory-limit and host-pressure.
Reason(p) ==
    CASE "limit" \in marks[p] -> "limit"
      [] "limit" \notin marks[p] /\ "timeout" \in marks[p] -> "timeout"
      [] marks[p] = {"cancelled"} -> "cancelled"
      [] OTHER -> IF exit[p] = "zero" THEN "completed" ELSE "failed"

\* signalGroup('SIGKILL'): a leader that still runs exits with the signal.
KillGroup(p) ==
    /\ group' = [group EXCEPT ![p] = IF Lives(p) THEN "gone" ELSE @]
    /\ exit' = [exit EXCEPT ![p] = IF group[p] = "leader" THEN "other" ELSE @]

\* Mutant of StopGroup: a stop only asks, however often.
StopGroupAsks(p) ==
    escalation' = [escalation EXCEPT ![p] = "fired"] /\ UNCHANGED <<group, exit>>

\* The first stop asks and arms the escalation; any other one kills.
StopGroup(p) ==
    IF escalation[p] = "off"
    THEN escalation' = [escalation EXCEPT ![p] = "armed"] /\ UNCHANGED <<group, exit>>
    ELSE KillGroup(p) /\ UNCHANGED escalation

StartTask(p) ==
    /\ promise[p] = "off"
    /\ promise' = [promise EXCEPT ![p] = "running"]
    /\ group' = [group EXCEPT ![p] = "leader"]
    /\ UNCHANGED <<exit, marks, escalation>>

\* The `error` event: the outcome has no exit code.
StartFails(p) ==
    /\ promise[p] = "off"
    /\ promise' = [promise EXCEPT ![p] = "flushing"]
    /\ UNCHANGED <<group, exit, marks, escalation>>

\* control.stop, which exists while the workload runs.
Stop(p) ==
    /\ promise[p] = "running"
    /\ marks' = [marks EXCEPT ![p] = @ \cup {"cancelled"}]
    /\ StopGroup(p)
    /\ UNCHANGED promise

TimeLimit(p) ==
    /\ promise[p] = "running"
    /\ "timeout" \notin marks[p]
    /\ marks' = [marks EXCEPT ![p] = @ \cup {"timeout"}]
    /\ StopGroup(p)
    /\ UNCHANGED promise

Escalate(p) ==
    /\ promise[p] = "running"
    /\ escalation[p] = "armed"
    /\ escalation' = [escalation EXCEPT ![p] = "fired"]
    /\ KillGroup(p)
    /\ UNCHANGED <<promise, marks>>

\* A sample finds the workload over its budget or the host below its reserve:
\* SIGKILL at once.
OverLimit(p) ==
    /\ promise[p] = "running"
    /\ "limit" \notin marks[p]
    /\ marks' = [marks EXCEPT ![p] = @ \cup {"limit"}]
    /\ KillGroup(p)
    /\ UNCHANGED <<promise, escalation>>

\* The kernel kills one process of the group, which need not be the leader;
\* `finish` reads the counter of such kills.
OomKill(p) ==
    /\ promise[p] = "running"
    /\ Lives(p)
    /\ marks' = [marks EXCEPT ![p] = @ \cup {"limit"}]
    /\ UNCHANGED <<promise, group, exit, escalation>>

\* The leader ends by itself or of a signal, and may leave processes behind.
LeaderExits(p) ==
    /\ group[p] = "leader"
    /\ exit' = [exit EXCEPT ![p] = "zero"] \/ exit' = [exit EXCEPT ![p] = "other"]
    /\ group' = [group EXCEPT ![p] = "orphans"] \/ group' = [group EXCEPT ![p] = "gone"]
    /\ UNCHANGED <<promise, marks, escalation>>

OrphansEnd(p) ==
    /\ group[p] = "orphans"
    /\ group' = [group EXCEPT ![p] = "gone"]
    /\ UNCHANGED <<promise, exit, marks, escalation>>

\* Mutant of Finish: what the leader left behind goes on.
FinishLeavesOrphans(p) ==
    /\ promise[p] = "running"
    /\ exit[p] # "none"
    /\ promise' = [promise EXCEPT ![p] = "flushing"]
    /\ escalation' = [escalation EXCEPT ![p] = "off"]
    /\ UNCHANGED <<group, exit, marks>>

\* finish, on the `exit` event: timers end, `stop` goes, what is left is killed.
Finish(p) ==
    /\ promise[p] = "running"
    /\ exit[p] # "none"
    /\ promise' = [promise EXCEPT ![p] = "flushing"]
    /\ escalation' = [escalation EXCEPT ![p] = "off"]
    /\ KillGroup(p)
    /\ UNCHANGED marks

\* The log is complete, or LOG_FLUSH_MS passed.
Flush(p) ==
    /\ promise[p] = "flushing"
    /\ promise' = [promise EXCEPT ![p] = "settled"]
    /\ UNCHANGED <<group, exit, marks, escalation>>

\* The runner ends: its memory and its timers go, the group does not.
RunnerEnds(p) ==
    /\ promise' = [promise EXCEPT ![p] = "off"]
    /\ marks' = [marks EXCEPT ![p] = {}]
    /\ escalation' = [escalation EXCEPT ![p] = "off"]
    /\ UNCHANGED <<group, exit>>

-----------------------------------------------------------------------------
\* Every variable has its type.
TaskTypeOK ==
    /\ promise \in [Runner -> {"off", "running", "flushing", "settled"}]
    /\ group \in [Runner -> {"none", "leader", "orphans", "gone"}]
    /\ exit \in [Runner -> {"none", "zero", "other"}]
    /\ marks \in [Runner -> SUBSET Causes]
    /\ escalation \in [Runner -> {"off", "armed", "fired"}]
=============================================================================
