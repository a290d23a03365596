------------------------------ MODULE MCProgress ------------------------------
(***************************************************************************)
(* Small instances of CacheService, WatchRunner and ReleaseTasks, side by  *)
(* side in one run: `part` says which a behaviour is of, and the others    *)
(* stay as they are.  Of ReleaseTasks there are two: two workers have one  *)
(* task left to do, or one worker takes over two tasks.                    *)
(***************************************************************************)
EXTENDS CacheService, WatchRunner, ReleaseTasks, TLC

CONSTANTS server,         \* the process
          read1, read2,   \* reads
          file1, file2,   \* watched files
          t1, t2,         \* tasks
          w1, w2          \* workers

VARIABLE part

OneProcess == [x \in Call |-> server]

cacheOnly == <<db, provider, link, local, pc, call, history>>
watchOnly == <<script, paths, debounce, queued, chain, closed, closing, watchHistory>>
mcVars == <<part, cacheOnly, watchOnly, releaseVars>>

\* The step A of one part.
OfCache(A) == part = "cache" /\ A /\ UNCHANGED <<part, watchOnly, releaseVars>>
OfWatch(A) == part = "watch" /\ A /\ UNCHANGED <<part, cacheOnly, releaseVars>>
OfTasks(A) ==
    /\ part \in {"two workers", "two tasks"}
    /\ A
    /\ part = "two tasks" => at'[w2] = "off"
    /\ UNCHANGED <<part, cacheOnly, watchOnly>>

\* An entry that claims were made of before.
Earlier(status, generation, attempts) ==
    [Absent EXCEPT !.status = status, !.generation = generation, !.attempts = attempts,
                   !.lease = IF status = "running" THEN "live" ELSE "none"]

\* A worker ended while it ran t1, t2 was completed.
OneTaskLeft ==
    /\ ledger = [t \in Task |->
          IF t = t1 THEN Earlier("running", 1, 1) ELSE Earlier("completed", 1, 1)]
    /\ result = [t \in Task |-> IF t = t2 THEN 1 ELSE 0]

\* t1 is new, and a worker ended while it ran t2.
TwoTasksLeft ==
    /\ ledger = [t \in Task |-> IF t = t1 THEN Absent ELSE Earlier("running", 2, 1)]
    /\ result = [t \in Task |-> 0]

\* One state of the parts that stay.
MCInit ==
    /\ part \in {"cache", "watch", "two workers", "two tasks"}
    /\ Init /\ WatchInit /\ WorkersInit
    /\ part # "watch" => proc[1] = "running"
    /\ part # "cache" => up[server] /\ values[1] = NoValue
    /\ IF part = "two tasks" THEN TwoTasksLeft ELSE OneTaskLeft

MCNext == OfCache(Next) \/ OfWatch(WatchNext) \/ OfTasks(ReleaseNext)

\* Fairness, WatchFairness and ReleaseFairness, each in its part.
MCFairness ==
    /\ \A c \in Call : WF_mcVars(OfCache(Proceed(c)))
    /\ \A p \in Proc : WF_mcVars(OfCache(Execute(p))) /\ WF_mcVars(OfCache(Reconnect(p)))
    /\ WF_mcVars(OfWatch(Restart))
    /\ \A r \in Run :
        /\ WF_mcVars(OfWatch(Exited(r) \/ Stopped(r)))
        /\ WF_mcVars(OfWatch(r \in stopping /\ Ends(r)))
    /\ \A w \in Worker :
        /\ WF_mcVars(OfTasks(LoopStep(w)))
        /\ WF_mcVars(OfTasks(Cool(w)))
        /\ \A t \in Task : WF_mcVars(OfTasks(RunStep(w, t)))
    /\ \A t \in Task : WF_mcVars(OfTasks(LeftLapses(t))) /\ WF_mcVars(OfTasks(ComesDue(t)))

MCSpec == MCInit /\ [][MCNext]_mcVars /\ MCFairness
=============================================================================
