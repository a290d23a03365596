--------------------------- MODULE MCServerRuntime ---------------------------
(***************************************************************************)
(* Small instances of DatabaseProvider, PodStart and Rollout for TLC, side *)
(* by side in one run: `part` says which of them a behaviour is of, and    *)
(* the others stay as they are.                                            *)
(***************************************************************************)
EXTENDS DatabaseProvider, PodStart, Rollout

CONSTANTS content, runtime,        \* partitions
          shared, first, second,   \* databases
          rebind1, rebind2,        \* calls of serveDatabase
          pod1, pod2

VARIABLE part

OwnDatabases == [x \in Partition |-> IF x = content THEN first ELSE second]

startOnly == <<store, latch, start, current, server, exited, listened, faulty>>
rolloutOnly == <<podVars, ready, monitor, iteration, allReady, toRead, allRead, advanced, cached, ranSince>>
mcVars == <<part, dbVars, startOnly, rolloutOnly>>

\* The step A of one part.
OfDatabase(A) == part = "database" /\ A /\ UNCHANGED <<part, startOnly, rolloutOnly>>
OfStart(A) == part = "start" /\ A /\ UNCHANGED <<part, dbVars, rolloutOnly>>
OfRollout(A) == part = "rollout" /\ A /\ UNCHANGED <<part, dbVars, startOnly>>

MCInit == part \in {"database", "start", "rollout"} /\ DBInit /\ StartInit /\ RolloutInit

MCNext == OfDatabase(DBNext) \/ OfStart(StartNext) \/ OfRollout(RolloutNext)

\* DBFairness and StartFairness, each in its part.
MCFairness ==
    /\ WF_mcVars(OfDatabase(WatchStep))
    /\ SF_mcVars(OfDatabase(\E c \in Connection : Connected(c)))
    /\ \A p \in Container : WF_mcVars(OfStart(StartStep(p))) /\ WF_mcVars(OfStart(BootStep(p)))

MCSpec == MCInit /\ [][MCNext]_mcVars /\ MCFairness
=============================================================================
