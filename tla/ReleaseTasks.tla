----------------------------- MODULE ReleaseTasks -----------------------------
(***************************************************************************)
(* The durable tasks of a release (src/server/release/release-tasks.js):   *)
(* tasks in one ledger document, and workers that each run runTasks.  A    *)
(* worker reads the ledger, claims what is due by conditional updates,     *)
(* runs what it claimed beside further reads, and records how each run     *)
(* ended under the generation of its claim.                                *)
(*                                                                         *)
(* Every call to the ledger is an await: the other workers, the runs of    *)
(* the same worker, leases and the operator go on meanwhile.  A call may   *)
(* throw, with its update done or not, and a worker may end at any step.   *)
(* Time is what it does to the ledger: a lease lapses, a retry comes due.  *)
(***************************************************************************)
EXTENDS Naturals, FiniteSets

CONSTANTS
    Task,            \* the tasks of a stage
    Worker,          \* workers, each with one call of runTasks at a time
    MaxAttempts,     \* policy.attempts
    Concurrency,     \* claims a worker holds at once
    Threshold,       \* threshold of the circuit breaker
    MaxGeneration    \* bound: claims of one task

ASSUME ReleaseAssumption ==
    /\ MaxAttempts \in Nat \ {0}
    /\ Concurrency \in Nat \ {0}
    /\ Threshold \in Nat \ {0}
    /\ MaxGeneration \in Nat

VARIABLES
    ledger,    \* ledger[t]: the document of task t
    result,    \* result[t]: the claim whose result is recorded, 0 for none
    at,        \* at[w]: where the loop of runTasks is, or how it ended
    seen,      \* seen[w]: the ledger as last read
    todo,      \* todo[w]: the tasks that are due and not yet tried
    run,       \* run[w][t]: the run of t in `active`, NotRun for none
    failures,  \* failures[w]: of the circuit breaker
    open       \* open[w]: its cooldown has not passed

releaseVars == <<ledger, result, at, seen, todo, run, failures, open>>

Status == {"absent", "pending", "running", "retry", "completed", "blocked", "failed"}
Unfinished == {"pending", "retry", "running"}
Entry == [status : Status, generation : Nat, attempts : Nat,
          lease : {"none", "live", "lapsed"}, due : BOOLEAN]

Phases == {"run", "complete", "transient", "permanent"}
NotRun == [phase |-> "none", generation |-> 0, attempts |-> 0]
TaskRun == [phase : Phases \cup {"none"}, generation : Nat, attempts : Nat]

Absent == [status |-> "absent", generation |-> 0, attempts |-> 0, lease |-> "none", due |-> FALSE]
Unread == [t \in Task |-> Absent]

WorkersInit ==
    /\ at = [w \in Worker |-> "off"]
    /\ seen = [w \in Worker |-> Unread]
    /\ todo = [w \in Worker |-> {}]
    /\ run = [w \in Worker |-> [t \in Task |-> NotRun]]
    /\ failures = [w \in Worker |-> 0]
    /\ open = [w \in Worker |-> FALSE]

ReleaseInit ==
    /\ ledger = Unread
    /\ result = [t \in Task |-> 0]
    /\ WorkersInit

Active(w) == {t \in Task : run[w][t].phase # "none"}
Goes(w, place) == at' = [at EXCEPT ![w] = place]
SetRun(w, t, r) == run' = [run EXCEPT ![w] = [run[w] EXCEPT ![t] = r]]
SetEntry(t, entry) == ledger' = [ledger EXCEPT ![t] = entry]

\* The filter of every update that ends or extends a claim.
Holds(w, t) ==
    /\ ledger[t].status = "running"
    /\ ledger[t].generation = run[w][t].generation

-----------------------------------------------------------------------------
(* The loop of runTasks *)

\* A stage adds its tasks and runs them, with a breaker of its own.
Start(w) ==
    /\ at[w] \in {"off", "done"}
    /\ Active(w) = {}
    /\ Goes(w, "ensure")
    /\ failures' = [failures EXCEPT ![w] = 0]
    /\ open' = [open EXCEPT ![w] = FALSE]
    /\ UNCHANGED <<ledger, result, seen, todo, run>>

\* ensureTasks: each task that is absent is added, in any order.
Ensure(w) ==
    /\ at[w] = "ensure"
    /\ IF \E t \in Task : ledger[t].status = "absent"
       THEN /\ \E t \in Task :
                /\ ledger[t].status = "absent"
                /\ SetEntry(t, [Absent EXCEPT !.status = "pending"])
            /\ UNCHANGED at
       ELSE Goes(w, "read") /\ UNCHANGED ledger
    /\ UNCHANGED <<result, seen, todo, run, failures, open>>

\* findOne, after a pause of any length; a run that ends may cut it short.
Read(w) ==
    /\ at[w] = "read"
    /\ seen' = [seen EXCEPT ![w] = ledger]
    /\ Goes(w, "decide")
    /\ UNCHANGED <<ledger, result, todo, run, failures, open>>

Over(w) == Active(w) = {} /\ \A t \in Task : seen[w][t].status \notin Unfinished

\* Nothing is left to do: `done` says whether every task completed.
EndStage(w) ==
    /\ at[w] = "decide"
    /\ Over(w)
    /\ Goes(w, IF \A t \in Task : seen[w][t].status = "completed" THEN "done" ELSE "off")
    /\ seen' = [seen EXCEPT ![w] = Unread]
    /\ UNCHANGED <<ledger, result, todo, run, failures, open>>

\* The deadline has passed: what runs is awaited.
Deadline(w) ==
    /\ at[w] = "decide"
    /\ ~Over(w)
    /\ Goes(w, "drain")
    /\ seen' = [seen EXCEPT ![w] = Unread]
    /\ UNCHANGED <<ledger, result, todo, run, failures, open>>

\* Mutant of DueTasks: what runs elsewhere is left to its worker.
DueTasksIdle(w) ==
    {t \in Task \ Active(w) :
        \/ seen[w][t].status = "pending"
        \/ seen[w][t].status = "retry" /\ seen[w][t].due}

DueTasks(w) ==
    {t \in Task \ Active(w) :
        \/ seen[w][t].status = "pending"
        \/ seen[w][t].status = "retry" /\ seen[w][t].due
        \/ seen[w][t].status = "running" /\ seen[w][t].lease = "lapsed"}

\* No claim while the breaker makes callers wait, as it is asked here.  From here
\* on only the status, generation and attempts of what is due are used.
Decide(w) ==
    /\ at[w] = "decide"
    /\ ~Over(w)
    /\ LET due == IF open[w] THEN {} ELSE DueTasks(w) IN
        /\ todo' = [todo EXCEPT ![w] = due]
        /\ seen' = [seen EXCEPT ![w] =
              [t \in Task |-> IF t \in due
                              THEN [seen[w][t] EXCEPT !.lease = "none", !.due = FALSE]
                              ELSE Absent]]
    /\ Goes(w, "claim")
    /\ UNCHANGED <<ledger, result, run, failures, open>>

\* Mutant of Wins: the status is not part of the filter.
WinsByGeneration(w, t) == ledger[t].generation = seen[w][t].generation

\* The filter of a claim: the task is as it was read, but for its lease.
Wins(w, t) ==
    /\ ledger[t].generation = seen[w][t].generation
    /\ ledger[t].status = seen[w][t].status

Claimed(t) ==
    [ledger[t] EXCEPT !.status = "running", !.generation = ledger[t].generation + 1,
                      !.attempts = ledger[t].attempts + 1, !.lease = "live"]

\* claimTask, and its run begins.
Claim(w) ==
    /\ at[w] = "claim"
    /\ Cardinality(Active(w)) < Concurrency
    /\ \E t \in todo[w] :
        /\ todo' = [todo EXCEPT ![w] = todo[w] \ {t}]
        /\ seen' = [seen EXCEPT ![w] = [seen[w] EXCEPT ![t] = Absent]]
        /\ IF Wins(w, t)
           THEN /\ ledger[t].generation < MaxGeneration
                /\ SetEntry(t, Claimed(t))
                /\ SetRun(w, t, [phase |-> "run", generation |-> seen[w][t].generation + 1,
                                 attempts |-> seen[w][t].attempts + 1])
           ELSE UNCHANGED <<ledger, run>>
    /\ UNCHANGED <<result, at, failures, open>>

\* The claims are made, or the pool is full.
Pause(w) ==
    /\ at[w] = "claim"
    /\ todo[w] = {} \/ Cardinality(Active(w)) >= Concurrency
    /\ Goes(w, "read")
    /\ todo' = [todo EXCEPT ![w] = {}]
    /\ seen' = [seen EXCEPT ![w] = Unread]
    /\ UNCHANGED <<ledger, result, run, failures, open>>

Drained(w) ==
    /\ at[w] = "drain"
    /\ Active(w) = {}
    /\ Goes(w, "off")
    /\ UNCHANGED <<ledger, result, seen, todo, run, failures, open>>

\* A call of the loop throws: runTasks rejects, and what it started goes on.  A
\* claim may have been made for nobody.
Throws(w) ==
    /\ at[w] \in {"ensure", "read", "claim", "drain"}
    /\ at[w] = "drain" => Active(w) = {}
    /\ \/ UNCHANGED ledger
       \/ /\ at[w] = "claim"
          /\ Cardinality(Active(w)) < Concurrency
          /\ \E t \in todo[w] :
              Wins(w, t) /\ ledger[t].generation < MaxGeneration /\ SetEntry(t, Claimed(t))
    /\ Goes(w, "off")
    /\ todo' = [todo EXCEPT ![w] = {}]
    /\ seen' = [seen EXCEPT ![w] = Unread]
    /\ UNCHANGED <<result, run, failures, open>>

-----------------------------------------------------------------------------
(* The runs: runOne *)

Phase(w, t, phase) == SetRun(w, t, [run[w][t] EXCEPT !.phase = phase])

\* CircuitBreaker.succeeded, before the result is recorded.
RunSucceeds(w, t) ==
    /\ run[w][t].phase = "run"
    /\ Phase(w, t, "complete")
    /\ failures' = [failures EXCEPT ![w] = 0]
    /\ open' = [open EXCEPT ![w] = FALSE]
    /\ UNCHANGED <<ledger, result, at, seen, todo>>

RunFails(w, t) ==
    /\ run[w][t].phase = "run"
    /\ \E class \in {"transient", "permanent"} : Phase(w, t, class)
    /\ UNCHANGED <<ledger, result, at, seen, todo, failures, open>>

\* Mutant of Record: a result counts whoever holds the task by now.
RecordAnyhow(w, t) ==
    /\ IF ledger[t].status = "running"
       THEN /\ SetEntry(t, [ledger[t] EXCEPT !.status = "completed", !.lease = "none"])
            /\ result' = [result EXCEPT ![t] = run[w][t].generation]
       ELSE UNCHANGED <<ledger, result>>

\* The update of completeTask.
Record(w, t) ==
    IF Holds(w, t)
    THEN /\ SetEntry(t, [ledger[t] EXCEPT !.status = "completed", !.lease = "none"])
         /\ result' = [result EXCEPT ![t] = run[w][t].generation]
    ELSE UNCHANGED <<ledger, result>>

Complete(w, t) ==
    /\ run[w][t].phase = "complete"
    /\ Record(w, t)
    /\ SetRun(w, t, NotRun)
    /\ UNCHANGED <<at, seen, todo, failures, open>>

\* completeTask throws, its update done or not: the catch takes it for a failure
\* of the run.
CompleteThrows(w, t) ==
    /\ run[w][t].phase = "complete"
    /\ Record(w, t) \/ UNCHANGED <<ledger, result>>
    /\ \E class \in {"transient", "permanent"} : Phase(w, t, class)
    /\ UNCHANGED <<at, seen, todo, failures, open>>

Outcome(w, t) ==
    CASE run[w][t].phase = "permanent" -> "failed"
      [] run[w][t].attempts < MaxAttempts -> "retry"
      [] OTHER -> "blocked"

\* The update of failTask.
RecordFailure(w, t) ==
    IF Holds(w, t)
    THEN SetEntry(t, [ledger[t] EXCEPT !.status = Outcome(w, t), !.lease = "none", !.due = FALSE])
    ELSE UNCHANGED ledger

\* CircuitBreaker.failed: it opens at the threshold, and with every failure after.
BreakerFails(w) ==
    LET n == IF failures[w] < Threshold THEN failures[w] + 1 ELSE Threshold IN
    /\ failures' = [failures EXCEPT ![w] = n]
    /\ open' = [open EXCEPT ![w] = open[w] \/ n = Threshold]

Fail(w, t) ==
    /\ run[w][t].phase \in {"transient", "permanent"}
    /\ RecordFailure(w, t)
    /\ IF run[w][t].phase = "transient" THEN BreakerFails(w) ELSE UNCHANGED <<failures, open>>
    /\ SetRun(w, t, NotRun)
    /\ UNCHANGED <<result, at, seen, todo>>

\* failTask throws, its update done or not: the run rejects, and with it the race
\* that awaits it; allSettled takes it, and so does a race that went before (without
\* one the process ends, which Crash is).
FailThrows(w, t) ==
    /\ run[w][t].phase \in {"transient", "permanent"}
    /\ RecordFailure(w, t) \/ UNCHANGED ledger
    /\ SetRun(w, t, NotRun)
    /\ \/ UNCHANGED at
       \/ at[w] = "read" /\ Goes(w, "off")
    /\ UNCHANGED <<result, seen, todo, failures, open>>

Heartbeat(w, t) ==
    /\ t \in Active(w)
    /\ Holds(w, t)
    /\ ledger[t].lease = "lapsed"
    /\ SetEntry(t, [ledger[t] EXCEPT !.lease = "live"])
    /\ UNCHANGED <<result, at, seen, todo, run, failures, open>>

-----------------------------------------------------------------------------
(* Time, the operator, and the end of a worker *)

Lapse(t) ==
    /\ ledger[t].lease = "live"
    /\ SetEntry(t, [ledger[t] EXCEPT !.lease = "lapsed"])
    /\ UNCHANGED <<result, at, seen, todo, run, failures, open>>

ComesDue(t) ==
    /\ ledger[t].status = "retry" /\ ~ledger[t].due
    /\ SetEntry(t, [ledger[t] EXCEPT !.due = TRUE])
    /\ UNCHANGED <<result, at, seen, todo, run, failures, open>>

Cool(w) ==
    /\ open[w]
    /\ open' = [open EXCEPT ![w] = FALSE]
    /\ UNCHANGED <<ledger, result, at, seen, todo, run, failures>>

\* Mutant of Resume: every task of the stage.
ResumeAll(t) ==
    /\ ledger[t].status \in {"blocked", "failed", "retry", "completed"}
    /\ SetEntry(t, [ledger[t] EXCEPT !.status = "pending", !.attempts = 0, !.due = FALSE])
    /\ UNCHANGED <<result, at, seen, todo, run, failures, open>>

\* resumeTasks: each update names the statuses that may be resumed.
Resume(t) ==
    /\ ledger[t].status \in {"blocked", "failed", "retry"}
    /\ SetEntry(t, [ledger[t] EXCEPT !.status = "pending", !.attempts = 0, !.due = FALSE])
    /\ UNCHANGED <<result, at, seen, todo, run, failures, open>>

\* A crash, an evicted pod: the memory of the worker goes, the ledger stays.
Crash(w) ==
    /\ at[w] # "off" \/ Active(w) # {}
    /\ Goes(w, "off")
    /\ seen' = [seen EXCEPT ![w] = Unread]
    /\ todo' = [todo EXCEPT ![w] = {}]
    /\ run' = [run EXCEPT ![w] = [t \in Task |-> NotRun]]
    /\ UNCHANGED <<ledger, result, failures, open>>

LoopStep(w) ==
    \/ Ensure(w) \/ Read(w) \/ EndStage(w) \/ Decide(w) \/ Claim(w)
    \/ Pause(w) \/ Drained(w)

\* The run of t takes its next step.
RunStep(w, t) ==
    RunSucceeds(w, t) \/ RunFails(w, t) \/ Complete(w, t) \/ Fail(w, t)

\* The lease of a claim nobody extends lapses.
LeftLapses(t) == Lapse(t) /\ \A w \in Worker : t \in Active(w) => ~Holds(w, t)

ReleaseNext ==
    \/ \E w \in Worker :
        \/ Start(w) \/ LoopStep(w) \/ Deadline(w) \/ Throws(w) \/ Cool(w) \/ Crash(w)
        \/ \E t \in Task :
            \/ RunStep(w, t) \/ CompleteThrows(w, t) \/ FailThrows(w, t) \/ Heartbeat(w, t)
    \/ \E t \in Task : Lapse(t) \/ ComesDue(t) \/ Resume(t)

ReleaseSpec == ReleaseInit /\ [][ReleaseNext]_releaseVars

(***************************************************************************)
(* The loop of a worker goes on, and time passes.  A run ends: runTasks    *)
(* sets none a time limit, and waits for what its caller makes it do.      *)
(* Nobody has to start a worker, and nothing keeps one from its deadline,  *)
(* from throwing or from ending.                                           *)
(***************************************************************************)
ReleaseFairness ==
    /\ \A w \in Worker :
        /\ WF_releaseVars(LoopStep(w))
        /\ WF_releaseVars(Cool(w))
        /\ \A t \in Task : WF_releaseVars(RunStep(w, t))
    /\ \A t \in Task : WF_releaseVars(LeftLapses(t)) /\ WF_releaseVars(ComesDue(t))

FairReleaseSpec == ReleaseSpec /\ ReleaseFairness

-----------------------------------------------------------------------------
(* Properties *)

\* Every variable has its type.
ReleaseTypeOK ==
    /\ ledger \in [Task -> Entry]
    /\ result \in [Task -> Nat]
    /\ at \in [Worker -> {"off", "ensure", "read", "decide", "claim", "drain", "done"}]
    /\ seen \in [Worker -> [Task -> Entry]]
    /\ todo \in [Worker -> SUBSET Task]
    /\ run \in [Worker -> [Task -> TaskRun]]
    /\ failures \in [Worker -> Nat]
    /\ open \in [Worker -> BOOLEAN]

\* One worker holds a task, whoever else still runs it; the attempts it counts,
\* by which it retries or blocks the task, are those of the ledger, whenever the
\* task was read and resumed in between.
OneHolder ==
    \A w \in Worker : \A t \in Active(w) : Holds(w, t) =>
        /\ run[w][t].attempts = ledger[t].attempts
        /\ \A v \in Worker \ {w} : t \in Active(v) => ~Holds(v, t)

\* A completed task holds the result of its last claim, and a task that is not
\* completed none: a worker that lost its claim, or the answer to its update,
\* records nothing.
ResultOfLastClaim ==
    \A t \in Task :
        result[t] = IF ledger[t].status = "completed" THEN ledger[t].generation ELSE 0

\* No retry, resumption or claim, be it decided on an old read of the ledger,
\* resets a completed task.
CompletedStays ==
    [][\A t \in Task : ledger[t].status = "completed" =>
          ledger'[t] = ledger[t] /\ result'[t] = result[t]]_releaseVars

\* A stage that is reported done has all its tasks completed, whoever ran them.
DoneMeansCompleted ==
    \A w \in Worker : at[w] = "done" => \A t \in Task : ledger[t].status = "completed"

Looping(w) == at[w] \in {"ensure", "read", "decide", "claim"}

\* A worker that goes on returns, before any deadline, since every task comes to an
\* end: also those that a worker which ended or lost the ledger left running, and
\* however the breaker opens.
RunsReturn ==
    \A w \in Worker :
        Looping(w) ~> ~Looping(w) \/ \E t \in Task : ledger[t].generation = MaxGeneration
=============================================================================
