------------------------------ MODULE PodStart ------------------------------
(***************************************************************************)
(* The start of a pod (src/server/runtime/start.js): it builds, and starts *)
(* server processes one after the other.  Each latches `await-deploy` and  *)
(* clears it once its runtime is built; the start polls that latch, and    *)
(* the status for an error, which any process of the container may latch   *)
(* at any time, and signs off after the last one.  It implements PodStatus.*)
(***************************************************************************)
EXTENDS Naturals

CONSTANTS
    Container,   \* the containers, one per pod
    Servers      \* server processes of each: its replicas, then its main one

ASSUME PodStartAssumption == Servers \in Nat \ {0}

Server == 1..Servers

VARIABLES
    containerStatus,        \* containerStatus[p]: container-status, in the state store
    startContainerStatus,   \* startContainerStatus[p]: start-container-status is set
    latch,      \* latch[p]: await-deploy is set
    start,      \* start[p]: off, build, launch, wait, ran (all listen) or end
    current,    \* current[p]: the server it launches or waits for
    server,     \* server[p][k]: the process of server k
    exited,     \* exited[p]: servers that failed and whose exit the start has not seen
    listened,   \* history: listened[p]: the servers of this container that listened
    faulty      \* history: faulty[p]: an error was latched after the build and before the
                \* last look of the start

store == <<containerStatus, startContainerStatus>>
startVars == <<containerStatus, startContainerStatus, latch, start, current, server, exited, listened, faulty>>

Pods == INSTANCE PodStatus WITH
    Pod <- Container, status <- containerStatus, marker <- startContainerStatus

StartInit ==
    /\ containerStatus = [p \in Container |-> "none"]
    /\ startContainerStatus = [p \in Container |-> FALSE]
    /\ latch = [p \in Container |-> FALSE]
    /\ start = [p \in Container |-> "off"]
    /\ current = [p \in Container |-> 1]
    /\ server = [p \in Container |-> [k \in Server |-> "off"]]
    /\ exited = [p \in Container |-> {}]
    /\ listened = [p \in Container |-> {}]
    /\ faulty = [p \in Container |-> FALSE]

Goto(p, to) == start' = [start EXCEPT ![p] = to]

\* setRuntimeStatus
SetStatus(p, phase) == containerStatus' = [containerStatus EXCEPT ![p] = phase]

\* An error is latched.
LatchedError(p) ==
    /\ SetStatus(p, "error")
    /\ faulty' = [faulty EXCEPT ![p] = @ \/ start[p] \in {"launch", "wait"}]

-----------------------------------------------------------------------------
StartBuild(p) ==
    /\ start[p] = "off"
    /\ SetStatus(p, "build")
    /\ Goto(p, "build")
    /\ UNCHANGED <<startContainerStatus, latch, current, server, exited, listened, faulty>>

EndBuild(p) ==
    /\ start[p] = "build"
    /\ SetStatus(p, "init")
    /\ Goto(p, "launch")
    /\ UNCHANGED <<startContainerStatus, latch, current, server, exited, listened, faulty>>

\* A step of the build, of the launch, or of what is cleaned after the last look
\* throws: the start ends and never signs off.
Throw(p) ==
    /\ start[p] \in {"build", "launch", "ran"}
    /\ LatchedError(p)
    /\ Goto(p, "end")
    /\ UNCHANGED <<startContainerStatus, latch, current, server, exited, listened>>

Spawn(p) ==
    /\ start[p] = "launch"
    /\ Goto(p, "wait")
    /\ server' = [server EXCEPT ![p][current[p]] = "spawned"]
    /\ UNCHANGED <<store, current, exited, listened, faulty>>

\* Mutant of Launch: only the server latches await-deploy.
LaunchUnlatched(p) == Spawn(p) /\ UNCHANGED latch

\* The server is started, and await-deploy latched before it runs.
Launch(p) == Spawn(p) /\ latch' = [latch EXCEPT ![p] = TRUE]

\* The next server, or the end of the loop.
NextServer(p) ==
    IF current[p] < Servers
    THEN Goto(p, "launch") /\ current' = [current EXCEPT ![p] = @ + 1]
    ELSE Goto(p, "ran") /\ UNCHANGED current

\* awaitDeployMonitor: an error ends the start, whatever the latch says.
Look(p) ==
    /\ start[p] = "wait"
    /\ \/ containerStatus[p] = "error" /\ Goto(p, "end") /\ UNCHANGED current
       \/ containerStatus[p] # "error" /\ ~latch[p] /\ NextServer(p)
    /\ UNCHANGED <<store, latch, server, exited, listened, faulty>>

\* The timer set after the last look.
End(p) ==
    /\ start[p] = "ran"
    /\ SetStatus(p, "running")
    /\ startContainerStatus' = [startContainerStatus EXCEPT ![p] = TRUE]
    /\ Goto(p, "end")
    /\ UNCHANGED <<latch, current, server, exited, listened, faulty>>

\* Mutant of SeeExit: the exit is only logged.
SeeExitOnly(p, k) ==
    /\ k \in exited[p]
    /\ exited' = [exited EXCEPT ![p] = @ \ {k}]
    /\ UNCHANGED <<store, latch, start, current, server, listened, faulty>>

\* The exit of a server with another code than 0.
SeeExit(p, k) ==
    /\ k \in exited[p]
    /\ exited' = [exited EXCEPT ![p] = @ \ {k}]
    /\ LatchedError(p)
    /\ UNCHANGED <<startContainerStatus, latch, start, current, server, listened>>

-----------------------------------------------------------------------------
\* A server reads its configuration, and latches await-deploy itself.
Boot(p, k) ==
    /\ server[p][k] = "spawned"
    /\ server' = [server EXCEPT ![p][k] = "booting"]
    /\ latch' = [latch EXCEPT ![p] = TRUE]
    /\ UNCHANGED <<store, start, current, exited, listened, faulty>>

\* buildRuntime is through, and clears await-deploy.
Listen(p, k) ==
    /\ server[p][k] = "booting"
    /\ server' = [server EXCEPT ![p][k] = "listening"]
    /\ latch' = [latch EXCEPT ![p] = FALSE]
    /\ listened' = [listened EXCEPT ![p] = @ \cup {k}]
    /\ UNCHANGED <<store, start, current, exited, faulty>>

Up(p, k) == server[p][k] \in {"spawned", "booting", "listening"}

ServerFails(p, k) ==
    /\ Up(p, k)
    /\ server' = [server EXCEPT ![p][k] = "failed"]
    /\ exited' = [exited EXCEPT ![p] = @ \cup {k}]
    /\ UNCHANGED <<store, latch, start, current, listened, faulty>>

\* It exits with code 0, which nobody looks at.
ServerEnds(p, k) ==
    /\ Up(p, k)
    /\ server' = [server EXCEPT ![p][k] = "ended"]
    /\ UNCHANGED <<store, latch, start, current, exited, listened, faulty>>

\* latchRuntimeError: a database that can not be reached, a shell command that fails,
\* in a server, a child of the build or a command that runs before the start.
LatchError(p) ==
    /\ LatchedError(p)
    /\ UNCHANGED <<startContainerStatus, latch, start, current, server, exited, listened>>

\* Mutant of EmptyStore: the sign-off is kept outside the container.
EmptyStoreSignedOff(p) == SetStatus(p, "none") /\ UNCHANGED startContainerStatus

EmptyStore(p) ==
    /\ SetStatus(p, "none")
    /\ startContainerStatus' = [startContainerStatus EXCEPT ![p] = FALSE]

\* The container ends, at any moment, and starts anew.
Restart(p) ==
    /\ EmptyStore(p)
    /\ Goto(p, "off")
    /\ latch' = [latch EXCEPT ![p] = FALSE]
    /\ current' = [current EXCEPT ![p] = 1]
    /\ server' = [server EXCEPT ![p] = [k \in Server |-> "off"]]
    /\ exited' = [exited EXCEPT ![p] = {}]
    /\ listened' = [listened EXCEPT ![p] = {}]
    /\ faulty' = [faulty EXCEPT ![p] = FALSE]

-----------------------------------------------------------------------------
StartStep(p) ==
    \/ StartBuild(p) \/ EndBuild(p) \/ Launch(p) \/ Look(p) \/ End(p)
    \/ \E k \in Server : SeeExit(p, k)

BootStep(p) == \E k \in Server : Boot(p, k) \/ Listen(p, k)

StartNext ==
    \E p \in Container :
        \/ StartStep(p) \/ BootStep(p) \/ Throw(p) \/ LatchError(p) \/ Restart(p)
        \/ \E k \in Server : ServerFails(p, k) \/ ServerEnds(p, k)

StartSpec == StartInit /\ [][StartNext]_startVars

(***************************************************************************)
(* The start polls and goes on, and hears of the exit of a server; a       *)
(* server that boots listens, or exits.                                    *)
(***************************************************************************)
StartFairness == \A p \in Container : WF_startVars(StartStep(p)) /\ WF_startVars(BootStep(p))

FairStartSpec == StartSpec /\ StartFairness

-----------------------------------------------------------------------------
(* Properties *)

\* Every variable has its type.
StartTypeOK ==
    /\ Pods!PodTypeOK
    /\ latch \in [Container -> BOOLEAN]
    /\ start \in [Container -> {"off", "build", "launch", "wait", "ran", "end"}]
    /\ current \in [Container -> Server]
    /\ server \in [Container -> [Server -> {"off", "spawned", "booting", "listening", "failed", "ended"}]]
    /\ exited \in [Container -> SUBSET Server]
    /\ listened \in [Container -> SUBSET Server]
    /\ faulty \in [Container -> BOOLEAN]

\* A pod signs off, which is what Kubernetes takes for ready, only once every
\* server of its container is through buildRuntime, and never over an error that was
\* latched between the end of the build and the last look of the start, whichever
\* process latched it.
SignedOff ==
    \A p \in Container : startContainerStatus[p] => listened[p] = Server /\ ~faulty[p]

\* Every start ends, whichever server fails and when: it waits for ever only for
\* a server that exited with code 0 before it listened.
StartSettles ==
    \A p \in Container :
        start[p] # "off" ~>
            \/ start[p] \in {"off", "end"}
            \/ server[p][current[p]] = "ended" /\ current[p] \notin listened[p]

\* What the monitor may rely on.
ImplementsPodStatus == Pods!PodSpec
=============================================================================
