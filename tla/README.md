# TLA+ models of the underpost engine

This directory models the concurrent and crash-prone core of the engine under
`src/src/`: the parts where processes, asynchronous calls, files and network
answers interleave. It says what each module models, what the TLC runs check,
and what is proved with TLAPS.

## The system and its components

The engine is a Node.js command line tool and a runtime platform. Many of its
processes run on one host at the same time (builds, deployments, servers,
cron jobs) and share files, locks and services; within a process, calls
interleave at every `await`.

| component | state it keeps | operations | hard behaviours | what makes it correct |
|---|---|---|---|---|
| Host locks (`server/runtime/host-lock.js`) | bound sockets, record files, the held slot | acquire, attach, release | processes that end at any step, a shared sweep of records, workloads that outlive their holder | exclusion, nobody removes a hold, the slot follows the workload |
| File change sets (`server/storage/file-change-set.js`) | targets, staged files, backups, journals | plan, apply, recover | a stop between any two file operations, recovery that stops, runs that overlap | all or nothing |
| Platform cache (`server/storage/cache.js`, `db/valkey/Valkey.js`) | version key and values in Valkey, maps of runs in flight, missed invalidations | getOrLoad, invalidate | shared runs, invalidations between two awaits, a lost connection, eviction | no old value after an invalidation, every read ends |
| Backup engine (`server/storage/backup.js`) | parts, manifest, failure record | write, list, verify, prune | lost answers of the store, prune against a writer | a returned backup has all its parts, the newest stay, what failed goes |
| Database provider (`db/DataBaseProvider.js`) | connection, models, served databases per context | load, serveDatabase, reconnect, health watch | rebinding while reconnecting | a reader never sees a mix of databases |
| Watch runner (`server/runtime/watch-runner.js`) | changed and pending paths, the child | restart, exit, change | changes during a run | one run at a time, no change is lost before a successful run |
| Managed process (`server/runtime/managed-process.js`) | the child, its limits, one outcome | stop, time limit, budget | stop, deadline and exit race | one outcome, no process left behind |
| Publication (`server/build/publication.js`) | target, staging and backup directories | publish, recover | a stop between two renames | the target is never lost |
| Documentation build (`client-builder/client-build-docs.js`) | the site, its two locks, one TypeDoc | repair, run, check, publish | a builder that ends before its TypeDoc, leftovers of both | the site is never lost, a TypeDoc the locks know of keeps the host, only a completed one is published |
| Client bundles (`client-builder/client-bundle.js`) | bundle store, pointer file | publish, install, prune | prune against install | the pointer names a whole bundle |
| Runtime start and status (`server/runtime/start.js`, `runtime-status.js`, `conf.js`) | container status, sign-off marker, boot latch | build, launch, wait, latch an error | processes that latch errors at any moment | a sign-off stands for servers that listen |
| Rollout monitor, traffic switch (`cli/monitor.js`, `cli/deploy.js`) | advanced pods, status cache, live colour | read pods, judge, promote | pods that restart while others are read | only what ran gets traffic |
| Release tasks (`server/release/release-tasks.js`, `server/runtime/retry.js`) | one ledger document, claims, a circuit breaker | ensure, claim, heartbeat, complete, fail, resume | leases that lapse under their holder, lost answers, workers that end | one holder, one result, completed for good |
| Release workspace and job (`server/release/`) | partial and sealed directories | materialize, prune | prune against use | a named release is whole |
| Sessions (`server/security/auth.js`) | refresh token hashes | open, refresh, revoke | two refreshes at once | a rotated token is dead |
| WebSocket channels (`ws/`) | sockets and users | register, disconnect | one user with several sockets | a connected user is found |
| Events (`cli/event.js`) | event set, cooldowns | dispatch, suspend, resume | a failed dispatch, a resume after a crash | suspension is undone exactly |

Interactions: a TypeDoc build takes the host locks of its target and of the
resource profile, attaches the process group of its managed process to both
when it starts, and publishes its directory before it releases them; a client
bundle does the same under its own lock; the API services read through the
cache and invalidate it after every mutation; the cache key carries the
databases the database provider serves; site commands write configuration with
file change sets; the servers a pod starts latch their errors where the start,
and later the monitor of the rollout, read them; the release ledger is the one
thing the workers of a release share.

Request handlers, network configuration, rendering, the browser client,
manifests and shell scripts are listed in `PROJECT.json` as not modelled: they
are data transformations or command sequences whose effects live outside the
program.

## Modules

| module | role |
|---|---|
| `HostLock` | host locks: sockets, records, the sweep, attach, release, crashes |
| `HostLockProofs` | theorems about `HostLock` |
| `AtomicWrite` | what a file change set promises: writes that land at once or not at all |
| `FileChangeSet` | change sets, one action per file operation; implements `AtomicWrite` |
| `FileChangeSetProofs` | theorems about `FileChangeSet`, the refinement among them |
| `CacheService` | cache reads, invalidations and the provider connection |
| `CacheServiceProofs` | theorems about `CacheService` |
| `BackupStore` | backups of a profile: writers, verifications and prunes over one object store |
| `BackupStoreProofs` | theorems about `BackupStore` |
| `WatchRunner` | the development watcher: changes, restarts, exits of the child, close |
| `WatchRunnerProofs` | theorems about `WatchRunner` |
| `ManagedProcess` | one command in a process group, and everything that may end it |
| `Publication` | the directories of a site: stage, two renames, repair |
| `TypedocTask` | the documentation build: composes `HostLock`, `ManagedProcess` and `Publication` |
| `TypedocTaskProofs` | theorems about `TypedocTask`, on top of those about `HostLock` |
| `DatabaseProvider` | one context: rebinds, reconnects and the readers between their awaits |
| `PodStatus` | what a pod shows the monitor: its status and the sign-off marker |
| `PodStart` | the start of a pod and the servers it runs; implements `PodStatus` |
| `Rollout` | the monitor of one colour over `PodStatus` pods, and the traffic switch |
| `ServerRuntimeProofs` | theorems about `DatabaseProvider`, `PodStart` (the refinement among them) and `Rollout` |
| `ReleaseTasks` | the release ledger, its workers, runs, circuit breakers and the operator |
| `ReleaseTasksProofs` | theorems about `ReleaseTasks` |
| `MCHostLock`, `MCFileChangeSet`, `MCCacheService`, `MCBackupStore`, `MCTypedocTask` | small instances for TLC |
| `MCProgress` | `CacheService`, `WatchRunner` and `ReleaseTasks` side by side, fair |
| `MCServerRuntime` | `DatabaseProvider`, `PodStart` and `Rollout` side by side |

Where a module is side by side with another, a variable `part` says which of
them a behaviour is of, and the others do not move: the run explores each of them
on its own, so nothing is said of one by the bounds of another. Names that such
modules would share carry a prefix (`WatchInit`, `DBNext`, `StartSpec`).

Each module holds, just before a definition, the mutants of it: an operator
with the same parameters that changes it the way a plausible bug would. No
specification uses a mutant; put in place of the definition, it breaks the
property `PROJECT.json` names, which shows that the property depends on that
code.

### HostLock

A process is one pid and start time; a handle is one holder of it, that is the
calls it makes of `acquireHostLock` one after the other (`ProcessOf`), since a
process may hold several locks at once. `state[p]` is where handle `p` is in
`acquireHostLock` or `release`; `slot[p]` is the slot it tries or holds;
`socket[net][s]` is who has the abstract address of slot `s` bound in a network
namespace; `records` are the files in the lock directory, which every lock
shares; `seen[p]` are the copies of records that `p` read; `workload[p]` is the
process group its process started, `attached` once the record of `p` names it.

What the code does without an await is still several file operations that other
processes see one by one: `bindSlot` is `BindFree`/`BindBusy`, reading the
records of the slot is `ReadSlot`, giving the slot up is `SlotTaken`, and the
sweep is `ReadAll` (the copies), `Filter` (which of them are dead *by then*) and
one `SweepOne` per removal. `Crash` may come at any step, frees the sockets and
leaves the files. Abstractions: reading the directory takes one snapshot;
records of an earlier boot and unreadable ones, which hold nothing, are left
out; a removal may fail, as it does on another user's record in the sticky
directory; a process starts at most one workload, attaches it to each lock it holds,
one file after the other, and releases once it ended, as `runManagedProcess`
settles before the `finally` that releases. An attachment after the workload
ended, whose record no reader takes for alive, is left out. The removal of
stale socket files on hosts without abstract sockets is not modelled.

### FileChangeSet and AtomicWrite

`disk` is the tree; `stage`, `backup` and `journal` are the files a run leaves
beside it; `pending` and `created` are what the run remembers of its plan (and
what its journal says). `journal[r]` is `torn` between the creation of the file
and its last byte. A run that stops keeps its files and loses its memory.
`Fail` is any write or rename that fails, and a verification that does.

`AtomicWrite` has a tree, and groups of writes that are open, landed or dropped.
The refinement maps the tree to what is on disk *once every whole journal is
rolled back* (`Tree`): so the commit point is the removal of the journal, and
nothing before it shows. `PlannedLandsWhole` takes the writes a run planned as
its group and holds; `ChangeSetLandsWhole` takes all the writes it was asked for
and does not (see the findings). A failure of the recovery itself, or of the
rollback in the `catch`, throws and leaves the files as a stop at that point
does: it is a `Crash` here. Runs follow one another, each from a state some
earlier one left: nothing in the code keeps two runs apart, and the promise is
not meant for two at once.

### CacheService

One namespace and one key. A call is a `getOrLoad` or an `invalidate` (with the
mutation before it); `pc` is where it is. A version read or a load goes by the
call that started it, so `versionReads[p]` and `inflight[p]` hold calls and
`joined[c]` is the run another call awaits. `transit` and `answered` are the
commands and answers of a connection, in order. Values are numbered in the order
the data was written, so "older" is `<`; versions are numbered as they are set,
which is as good as random ones, since the code compares them for equality only.

A connection that drops fails every unanswered command, executed or not, and is
ready again only after those calls have gone on (`retryStrategy` waits a
second). Answers of Valkey that are errors on a live connection are not
modelled. `renewed`, `past` and `known` are history variables: what the data was
when the last fresh version was set, which invalidations had ended when a read
started, and which had been called when a run started.

### BackupStore

`objects[b]` is what the store holds under the prefix of backup `b`: parts, the
manifest, the failure record, a verification. `pc[b]` is where its writer is,
with `sent`, `inFlight` and `uploaded` its local variables, which end with the
call (`Leave`). `doomed[q][b]` is what prune `q` has listed and not yet removed.

A call to the store that throws may have done its work: the driver retries, and
the answer to the last try may be the one that was lost. So `PartFails`,
`ManifestFails` and `RecordFailure` each leave open what landed. An upload that
is rejected while the loop is not awaiting it leaves `inFlight` like any other
(`.finally`), and the stream goes on: only the listing before the manifest
notices. Time is `age`: below `graceHours`, below `maxAgeDays`, or beyond, and an
older backup is never of a younger age. `Grow` lets a backup age only once its
writer ended, which is the assumption that `graceHours` is longer than any
writer.

Abstractions: the streams of a backup are one stream; a listing is one
snapshot; the `protect` list of a prune is empty; what is in the parts, their
sealing and the metrics are left out; ids sort by the time the writers started.

### WatchRunner

One event of the watcher's loop is one step, together with the promise
continuations that follow it; the child processes end in between. `proc[r]` is
what became of run `r` in the system and in the watcher: `succeeded` and
`crashed` runs have ended but their `exit` event is yet to come, so `stop` still
waits for it. `chain` is the promise `restarting`, `closing` how far `close()`
came. `stale` and `since` are history variables: the paths that changed since the
last run that completed had started, and since the last run started. When
`onRestart` throws, `restarting` is rejected with nobody to handle it, which ends
the watcher; `killOnExit` finds no child then. The kill timeout is the fairness
of a run that is stopped. Re-creating a failed watcher is left out.

### ManagedProcess, Publication and TypedocTask

`ManagedProcess` is a runner with its timers and its process group. `promise[p]`
is where `runManagedProcess` is, `group[p]` what lives of the group, `marks[p]`
what `timedOut`, `cancelled`, `stoppedFor` and the kernel's count of kills say,
`escalation[p]` the shared timer of a stop and the time limit. The exit of the
leader and the `exit` event (`Finish`) are two steps, and every limit and signal
may come in between. `Reason` is `terminationReason`, in its order. The budget of
a task is a sample that may find it over at any time; how it is computed is left
out.

`Publication` keeps, per version of the site, what its directory holds, and per
builder its staging and backup directories. A rename is one step; a removal and a
build leave `part` of a directory behind when they stop. The recovery sees to
every leftover of the root, whoever left it. `latest` is a history variable: which
version was published last, and by whom. The whole of it is under a lock, which is
the caller's business.

`TypedocTask` composes them. `runTypedoc` takes two locks in one record directory,
that of its target, whose name has the version, and that of the `heavy` profile,
which has one slot and is every TypeDoc's: so a builder is a process of `HostLock`
with two handles (`TargetOf`, `HeavyOf`). It repairs the root, launches TypeDoc and
tells first one record and then the other of its group (`TellLock`; it may end
before, between or after), reads the outcome, checks what was written and
publishes it; whatever it throws, the `finally` removes the staging directory
and releases the locks in reverse order. `LocksSee` ties the locks' view of a
workload to the end of the group. A builder may end at any step, and its TypeDoc
then runs on without limits and writes on. A builder of another version binds
another target slot and sweeps the shared directory under it, beside whoever holds
the profile: this is what `TypedocSweepRace` is about, and why `LiveStagingKept` and
`SlotHeldWhileRecorded` speak of a workload *while the record names it*.
`buildClient` holds a third lock around a whole client build (`client-build.js:776`),
which is attached to nothing and released after; another lock in the directory can
do what that of a target does, and the theorems take any set of lock names, but not
a third handle of a builder.

### DatabaseProvider

One context that is loaded. `connection`, `models`, `served` and `bag` are
`bucket.connection`, `.models`, `.served` and `.servedModels`; `call[k]` is what a
`serveDatabase`, or the reconnect of the watch, has bound so far. Binding a
partition takes an await, so each is a step, made on the connection of *that*
moment, whereas the map was copied when the call began. `reconnect` assigns the
connection and the models in one step and the served models after its awaits,
and closes the old connection last, in a step no fairness makes it take (`Close`): the
code waits for it with no limit, and skips every tick meanwhile. Connections are lost and may come back by
themselves at any time. `asked` and `overlapped` are history variables: the
maps somebody asked for, and whether two builds overlapped, which the properties
about the connection leave out (see the observations). That binding a model
always succeeds is an abstraction: its schema was imported at load.

### PodStatus, PodStart and Rollout

`PodStatus` is one pod as others see it: `status`, the phase it reports, and
`marker`, the sign-off that the readiness probe reads. `PodStart` implements it:
the start builds, launches the servers one after the other, polls the boot latch
(`await-deploy`) and the status (`Look`), and signs off after the last one
(`End`, a timer of its own). The servers are processes: each latches
`await-deploy` itself once it boots, clears it when it is through `buildRuntime`,
and may fail or end with code 0 at any moment. `latchRuntimeError` is any
process's of the container, in any phase (`LatchError`): what a child of the build
latches, `EndBuild` overwrites with INIT, and what is latched after the last look,
`End` overwrites with RUNNING, which is why `faulty` remembers an error only
between these two. `Throw` is a step of the build, a launch, or one of the `clean`
calls after the last look that throws. "Through `buildRuntime`" is not quite
"listens": `listenPortController` answers false to missing metadata
(`start.js:102-131`), which `buildRuntime` ignores before `clearAwaitDeploy`
(`runtime.js:161`, `179`, `194`), so a path without a port is not noticed, and
`listened` says no more than the code knows. The store is written by all of them,
and a write of it is one step here. `exited` are the exits whose event the
start has not handled. A restart empties the store, which is on the file system
of the container.

`Rollout` extends `PodStatus` with `monitorReadyRunner`: `List` takes the pods
and their readiness, then the status of each is read in turn (`Read`,
`ReadFails`, `ReadFatal`) while the pods go on, and `Judge` decides on readiness,
on `allRuntimeRead` and on the cache of statuses, which lives longer than an
iteration. `switchTraffic` asks for readiness once more. `ranSince` is a history
variable: who was running at some moment since the iteration began.

### ReleaseTasks

`ledger[t]` is the document of a task, `result[t]` the claim whose result it
holds. A worker is one `runTasks`: `at[w]` is where its loop is, `seen[w]` the
ledger it last read, `todo[w]` what it found due, `run[w][t]` the run of `t` with
the generation and attempts of its claim. Every call to the ledger is one step,
with the filter of its update (`Wins`, `Holds`): between a read and a claim, and
between the end of a run and its record, everybody else goes on. A call that
throws may have done its work (`Throws`, `CompleteThrows`, `FailThrows`); a
worker may end at any step, and its claims stay. Time is what it does to the
ledger: leases lapse, retries come due, breakers cool down. `Decide` forgets of
`seen` what the code does not use afterwards, which keeps states few. The
circuit breaker is `failures` up to its threshold and `open`. Lengths of delays
and the retries inside one call are left out: a retried call is one that throws
in the end, or not.

## Runs

| run | instance | shows |
|---|---|---|
| `HostLockTwoLocks` | 3 processes, locks of 1 and 2 slots, one process in a network namespace of its own, 1 acquisition each, fair | `SlotExclusion`, `HolderRecordKept`, `OnlyOldCopiesLost`, `WaitersServed` |
| `TypedocTask` | 2 builders of 2 versions, each with the lock of its target and the one of the profile, 1 acquisition of each, fair | `DocTypeOK`, `SlotHeldWhileRecorded`, `SiteKept`, `BuildsBesideSite`, `OnlyCompletedPublished`, `ReleasedAfterWorkload`, `LiveStagingKept`, `BuildEnds` |
| `ServerRuntime` | 2 partitions, 3 databases, 2 rebinds, 3 connections; 2 pods of 2 servers; a rollout of 2 pods in 2 iterations; fair | `ReadsWhole`, `ReadsServed`, `HealsUnlessCloseHangs`; `SignedOff`, `StartSettles`, `ImplementsPodStatus`; `PromotedRan` |
| `FileChangeSetCrash` | 3 runs in a row, 2 targets, 2 contents | `PlannedLandsWhole`, `FailureRestores` |
| `CacheProcess` | 1 process, 2 reads and 1 invalidation, or 1 read and 2 invalidations that do not overlap, drops and evictions | `TypeOK`, `ReadsOwnWrites`, `NoStaleJoin`, `CachedNotStale`, `MissedKept` |
| `Progress` | 1 process, 2 reads, drops and evictions; 4 changes of 2 files; 2 workers over one task left to do, or 1 worker that takes over one and starts one, 2 attempts, 2 claims at once, 3 claims of a task; fair | `ReadsEnd`; `OneRun`, `PathsKept`, `ClosedForGood`, `ChangesReachRun`, `CloseEnds`; `OneHolder`, `ResultOfLastClaim`, `DoneMeansCompleted`, `CompletedStays`, `RunsReturn` |
| `BackupPrune` | 2 backups of 2 parts, 2 uploads in flight, a prune that keeps 1; then 2 available backups and a third about to be, 2 prunes; fair | `ReturnedWhole`, `NewestKept`, `RemainsGo` |
| `TypedocSweepRace` | the builders of `TypedocTask` | `SlotStaysHeld` is violated |
| `HungClose` | 1 context, no rebind, 2 connections, fair | `ReadersHeal` is violated |
| `FileChangeSetReplan` | 2 runs in a row | `ChangeSetLandsWhole` is violated |
| `CacheOverlap` | 1 process, 1 read, 2 invalidations | `MissedKept` is violated |
| `BackupLostAnswer` | 1 backup of 2 parts | `FailedReadsFailed` is violated |

Bounds. `MaxRecords` bounds the acquisitions of a handle. Three processes of
`HostLock` are a holder, an acquirer that judges its record, and one that comes
between. Two builders are one that is interrupted, with the TypeDoc it leaves, and
one that finds what is left; each stops once, since a process that ended does not
come back, so a recovery that is itself interrupted is by the second one. Version v1 was published
before: p1 replaces it, p2 publishes where nothing was. At most one builder ends
early, since with both ended only their TypeDocs are left, and both are of one user,
so no removal of a sweep fails there (it may in `HostLockTwoLocks`); and only the
TypeDoc of p1 may exceed its memory. Three
runs of a change set are one that is interrupted, one that is interrupted while
it recovers, and one that completes; two targets make a half-written tree. Cache
calls are finite, so versions and values are: two reads and an invalidation share runs
across it, a read and two invalidations in a row miss one or both of them. Drops, reconnections and evictions
are not bounded. Two partitions and two rebinds make half a rebind, and a rebind
beside a reconnect; three connections are one that is lost, one that replaces it
and one more, and a closed one is used again, so reconnects are not bounded. Two
servers are a first and a last one; restarts of pods are not bounded. Two pods
let one restart while the other is read; two iterations let the cache of one be
used in the next. Two workers of one task contend for it; two tasks let one
worker hold two claims, fill its pool and reject with a run under way; two
attempts reach `blocked`, and three claims are a first, one that takes over, and
one after a resumption. `RunsReturn` excuses a task whose claims are used up
(`MaxGeneration`): where t1 was claimed once, by the worker that ended, a worker that
takes it over returns, a second take-over is not followed. Two backups are the newest and one that retention may
drop; two parts let one upload be rejected while the other, or nobody, is
awaited; a prune may stop and list again any number of times. Two prunes beside three
backups let one remove by a list on which a backup was the newest but one, while the
other has listed the third one too; no verification begins there. Four changes are enough
for a run to be interrupted twice with changes during both restarts; each restart
needs a change, so runs are bounded with them. Symmetry is used for safety only,
and for processes only where they share one namespace. Deadlock is not checked:
in each instance every process, run, call or watcher may come to its end.

Fairness. `HostLock`: an attempt runs to its end, the poll timer fires, callers
release in a `finally`, and workloads end since every caller passes a time limit
(`maxRuntimeMs`). No process has to call, and none is kept from crashing or
giving up. `TypedocTask`: a builder takes its next step or its runner does, on a timer or
an event of the child (`WF` of `BuilderStep \/ Timely`), the recovery comes to its end
(`EndRepair`), and its wait for a lock has a deadline, strongly fair since it polls
(`Reject`). TypeDoc itself may
run for ever and ignore every signal but SIGKILL: that a build ends is up to its
supervisor. `CacheService`: the event loop runs what is ready, loaders answer or
throw (the drivers have timeouts), a live connection executes its commands, and
a lost one is retried without end (`retryStrategy`). Nothing is assumed of
drops, so they may go on for ever. `DatabaseProvider`: `setInterval` ticks for ever
and the watch goes on; a connection that is asked for again and again is made in
the end (strong fairness). The close of the old connection has no fairness: nothing
bounds it. `PodStart`: the start polls and goes on, and hears of an exit; a
server that boots listens or exits. `ReleaseTasks`: the loop of a worker goes on,
breakers cool, retries come due, and the lease of a claim that nobody extends
lapses. A run is assumed to end, since `runTasks` sets none a time limit and waits
for it. Nobody has to start a worker, and nothing keeps one from throwing or
ending. `BackupStore`: a writer that goes on takes its next step, time passes, the
scheduled job lists again, and a removal that is tried again and again succeeds
in the end (strong fairness, since a prune may stop between two tries).
`WatchRunner`: timers fire, exits are reported, and a run that was sent a signal
ends, of SIGKILL at the latest; a run that nobody stops may go on for ever. Its
changes end with `MaxChanges`: files that change more often than every
`debounceMs` for ever put the restart off for ever.

### Findings

Each of these runs checks one statement of the repository and finds it violated.

* `TypedocSweepRace` (`SlotStaysHeld`): p2 holds both its locks and has started
  TypeDoc; p1, which documents another version, binds the slot of its own target,
  judges no record of it, and copies every record, that of p2's `heavy` slot before
  p2 has told it of its TypeDoc. p2 attaches, and ends. p1 judges its old copy dead
  and removes the file, which names the live TypeDoc by now; then it binds the
  `heavy` slot, finds no record, and holds the host beside that TypeDoc, whose
  staging directory its recovery then takes. Both the header of `host-lock.js` and
  the comment of `runTypedoc` (`client-build-docs.js:94`) say the contrary.
  `OnlyOldCopiesLost` says that this is the only way, and `SlotHeldWhileRecorded`
  what the lock does keep.
* `HungClose` (`ReadersHeal`): the watch replaced a lost connection and awaits the
  close of the old one, which does not settle; `rebuilding` stays set, the new
  connection is lost in turn, and every tick returns at once. The comment at
  `DataBaseProvider.js:369-370` says that a close that hangs must not take the
  recovery with it. `HealsUnlessCloseHangs` is what holds: the readers heal, or the
  watch is in the close for ever.
* `FileChangeSetReplan` (`ChangeSetLandsWhole`): the plan is made before the
  recovery, so what the interrupted run had placed plans `unchanged` and is then
  rolled back.
* `CacheOverlap` (`MissedKept`): invalidation i sets its version, the data
  changes again, invalidation j puts the namespace in `missed` and sends its
  SET; the answer to i removes it; the connection drops before j's SET: nobody
  applies j. The next reads hit what was cached under i's version.
* `BackupLostAnswer` (`FailedReadsFailed`): the store keeps the manifest but its
  answer is lost; the `catch` stores the failure record and removes the parts.
  The backup then reads as available without its parts, `latestBackup` takes it,
  and a prune counts it among those it keeps.

### Observations

Met while reading the code for the models; no run checks them.

* The abstract socket of a lock belongs to a network namespace. Two processes in
  two namespaces that share the lock directory both bind the slot, and if both
  read the records before either writes one, both hold it.
* A journal that a stop left half written makes `readJsonSync` throw in every
  later run, until somebody removes the file (`TornJournal` ends such a run).
* Two change sets applied at once take each other's journals for interrupted
  ones and roll them back.
* The maps that `invalidate` clears are those of its process: a read of another
  process may join a version read that started before the invalidation.
* A missed invalidation is applied by the next cache call of its process,
  however long the provider has been back.
* A change without a file name during a run asks for a full build; if the run
  then exits with code 0 before the debounce timer fires, the request is cleared
  with the pending paths, and the next run is told of named paths only.
* `pruneBackups` trusts `graceHours`: a writer slower than that is taken for a
  failed one, and nothing in the code bounds a writer.
* `acquireHostLock` returns a slot it got before it looks at `signal.aborted`, and
  `runTypedoc` does not look again: an interrupt during the wait is lost then.
* A builder that ends between the start of its TypeDoc and the attachment leaves
  a TypeDoc the locks know nothing of; the next recovery may take its staging
  directory. The TypeDoc of a builder that ended runs on without its limits.
* A memory limit noticed after the exit of the command but before its `exit` event
  relabels a run that completed.
* `removeSync` throwing in the `finally` of `runTypedoc` skips the release of the
  lock, which then lasts until the process ends.
* A removal of obsolete versions that stops half way leaves part of an old version
  published until it is built again.
* `pullClientBundle` recovers and publishes directories without the lock
  `publication.js` asks its caller for, and replaces routes one after the other, so
  a failure leaves the first ones replaced.
* Two `serveDatabase` calls that overlap start from one `served`, and one of them is
  lost; a rebind that overlaps a reconnect may leave readers on the closed
  connection. Nothing in `src/` calls `serveDatabase` yet.
* An error latched between the last look of `awaitDeployMonitor` and the timer of
  `runtimeReady` is overwritten by RUNNING, and the pod signs off. A server that
  exits with code 0 before it listens is waited for without end (`StartSettles`
  says so).
* The state store is read, changed and rewritten by several processes without a
  lock: an update may be lost between two of them.
* With the exec transport an empty status reads like a pod that can not be
  reached, so a restarted pod is noticed only while it reports `build`.
* The filter of `claimTask` names the generation and the status but not the lease:
  a heartbeat between the read and the claim is ignored, and a task whose holder is
  alive is taken over. Claims that were decided go on when the breaker opens
  among them.
* A worker that ends again and again makes a task exceed `policy.attempts`, which
  only `failTask` compares. A `failTask` that throws rejects `runTasks` while other
  runs go on unawaited, is swallowed by a race that is over, or ends the process.
* The mailer channel keeps one index per user: of two sockets of a user, the
  first to disconnect removes the index of the second.

## Proofs

`HostLockProofs` proves, for any processes, names, slot counts and namespaces:

* `TypeCorrect` and `HoldersExclude` from `SocketInv`: from its bind until it
  closes, a process is the one its socket names. Exclusion then follows without
  any reference to records. The invariant is needed since `SlotExclusion` says
  nothing of the steps between bind and hold.
* `NobodyRemovesAHold` from `SocketInv` and `SweepInv`: whatever a process is
  about to remove belongs to a process that had ended. It is the part of the
  header's claim that holds with any number of locks: a copy can be old, but a
  holder that lives cannot have been judged dead, since no process comes back.
* `RecordsLostToOldCopies` from both: where the record of a running workload goes,
  a sweep had it on its list, so it copied the record before the attachment, and
  judged its holder once that had ended. Nothing else removes one, from whatever lock.
* `RecordKeepsSlot` from `SocketInv` and `WorkloadInv`, with no assumption on the
  number of locks: as long as a record names a workload that runs, whoever has
  bound its slot has not read the slot's records yet, or has that record among
  its copies and will find it alive. What it does not say is that the record stays:
  that it may go is the finding `TypedocSweepRace`.

`FileChangeSetProofs` proves, for any runs that follow one another, targets and
contents, and wherever they fail or stop, from `FileInv`:

* `ChangeSetTypeCorrect`, with the target that is aside in the loop of its run (proved
  only: no run needs to check it again).
* `FailureLeavesTree`: a run that throws has undone what it placed, and left no
  journal. The rollback goes over the targets that are left, `todo`; the
  invariant says that every other one is `Settled`: it has no backup, and is
  absent if the set created it.
* `ImplementsAtomicWrite`: every behaviour is one of `AtomicWrite`. One run works
  at a time (`OneAtATime`, which is how `FileChangeSet` starts runs), and one
  journal exists (`OneJournal`). The promised tree is what the whole journal would
  bring back, target by target; so a swap or a step of a rollback leaves it alone,
  whichever run takes it (`RollbackKeepsTree`), and its removal after the loop lands
  the group at once. `Work` is needed for that last step: in `commit` each target
  that was pending holds what was wanted.

`CacheServiceProofs` proves, for any processes, reads, invalidations, dropped
connections and evictions:

* `CacheTypes` from `LinkInv` (a call has at most one command out, so an answer is to
  the command it waits for) and `TypeInv`, whose `Budget` counts the calls that may
  yet write: it is what bounds the versions and the values.
* `CachedValuesFresh` from `FreshInv`: the stored version is absent (evicted) or the last
  fresh one, and whatever is stored, or on its way to be stored, under the last fresh
  version was loaded when the data was already `renewed`. The case that needs the
  invariant is a load that started under an old version and stores after a new one
  was set: it stores under the old version's key, which nothing reads.
* `JoinsAreFresh` from `JoinInv`: a run that a read of its process may still join started
  after every invalidation of that process called so far, as `invalidate` empties
  the map before its first await.
* `MissedInvalidationsKept` and `ReadsSeeOwnWrites` from `AppliedInv`, `RunInv` and
  `OwnInv`, under `NoOverlap`: an invalidation is called only while no call of its
  process is giving the namespace a fresh version (`applyMissed`). Any number of them
  may be called one after the other, and missed. The run `CacheOverlap` shows
  that it is needed: the answer to the first clears the note of the version that the
  second failed to set.

Two lemmas carry most steps: by `FreshKept` what is fresh under a version stays
so, whatever loads start later; by `ReadsKept` a version read that is under way keeps
giving a version of that kind.

`BackupStoreProofs` proves, for any number of backups, parts, uploads in flight,
prunes and kept backups:

* `TypeCorrect`: the types, the bound on the uploads in flight (an upload starts
  only when the loop does not await one) and that none is left once the stream
  has ended (`Landed`).
* `ReturnedStaysWhole` from `WholeInv`: no prune has anything to remove from a
  backup whose writer still runs, which rests on `graceHours`; and a prune that
  removes an available backup has the manifest to remove before anything else.
  So a backup stops reading as available before it loses its first part.
* `PruneKeepsNewest` from `NewestInv`: whenever a manifest that is still there is
  on the list of a prune, `Keep` newer backups read as available, however old
  the list is. When another prune takes one of the newer ones away, that one had
  `Keep` newer backups itself, and these are newer than the first as well.

`WatchRunnerProofs` proves, for any files and any number of changes:

* `TypeCorrect`, `RunsAlone` and `CloseIsFinal` from `ChildInv` and `OverInv`: the
  exit of every run but the child has been reported, only a restart under way or
  `close()` waits for the child, and nothing is left when `close()` returns or
  the watcher ends.
* `NoPathForgotten` from `KeptInv`: what changed since the last run started is
  still in `changed`, so a run that completes forgets only what it was told of.

`TypedocTaskProofs` proves, for any builders, versions and locks, what the three
composed parts promise together:

* `BuildsUseTheLock`: every behaviour of the build is one of `HostLock`, with the two
  handles of each builder, so what is proved of any set of locks in one directory
  carries over (`BuildKeepsSlot`, and the exclusion below).
* `ReleasesAfterWorkload` from `CycleInv` and `TaskInv`: where a builder is in its cycle
  fixes how far its task is, and a task that has settled, or was never started,
  has no process left. `HostLock` lets a holder release only without a workload;
  this is why the build never has to wait there.
* `PublishesCompleted` from `SealedInv`: whatever is on the site or in a backup, or is
  about to be placed, was written by a TypeDoc that exited with 0 and was not
  stopped; once it settled no timer, stop or sample reaches it (`SealedForGood`).
  This needs no lock.
* `SiteSurvives` and `BuildsOnARepairedSite` from `KeptInv`, for builders in one
  network namespace: `SiteKept` alone is not inductive, since a rename, its undo and the removal
  of a backup are each safe only for what the steps before left. `KeptInv` says of
  each step of a cycle what it finds: no backup at all once the recovery is over,
  the new site in the staging directory before it is placed, an empty place between
  the renames, and the new site in its place before its backup goes. What is kept is
  the very site published last (`latest` says by whom), so neither a recovery nor a
  rollback brings an earlier one back. Of the lock they use only
  that one builder holds it (`AloneInRoot`), not the records.
* `StagingKeptForWorkload` needs the records too (`WorkloadInv`): a builder that repairs
  is past the lock of the profile, so no record of that lock names a workload but its
  own; and a builder that lives holds that lock itself. It needs one network
  namespace, and takes any locks beside it: what `TypedocSweepRace` shows is that the
  record may go, after which it says nothing.

`ServerRuntimeProofs` is about three modules. Of `DatabaseProvider`, for any
partitions, databases, calls and connections, `DBTypeCorrect`, `ReadsAreWhole` and `ReadsWhatIsServed`. Their
invariant has three parts. `Asked`: what is served, what readers read and what a
builder will swap in were asked for by one call each. `Linked`: what the watch is
about to close is not what it connected. `Fresh`: unless builds overlapped, what
readers read is on the connection in use, or on the one to be closed while the
watch still builds, and what is being built is on the new one. The last is needed
since a bag that is half built is read by nobody yet.

Of `PodStart`, for any containers and number of servers:

* `StartTypeCorrect`, and `SignsOffWhatListens` from `OrderInv` and `StoreInv`: the
  servers before the current one have listened; as long as the start waits, a
  latch that is clear means that the current one has, which rests on the start
  latching it *before* the server runs; and an error once latched stays in the
  store until the start has looked at it.
* `StartImplementsPodStatus`: initial states and steps map, with the same two
  invariants for the sign-off. So what `Rollout` assumes of a pod is what the
  start of a pod does.

Of `Rollout`, `RolloutTypeCorrect` and `PromotesWhatRan`, for any pods and
iterations, from `RanInv`: a pod that was read in this iteration and is cached as
running ran since the iteration began, as long as no read of it failed. A cache
that lives longer than an iteration is safe only together with `allRuntimeRead`.

`ReleaseTasksProofs` proves, for any tasks, workers, attempts, claims and
threshold, `ReleaseTypeCorrect` and, from `HolderInv`, `OneWorkerHolds`,
`ResultIsOfLastClaim`, `DoneIsCompleted` and `CompletedForGood`. The argument is about
how one entry of the ledger may move: a claim raises its generation and makes it
running, every other update keeps the generation, and a completed entry never
changes (`EntryMoves`). Then what a worker has seen, or claimed, relates to the
entry however late it is used: a generation that was seen is not above that of
the ledger, and where generation and status still agree so do the attempts; a run
has the generation of a claim that was made, and no two runs of a task have the
same one, so the filter of a record picks out one run.

The constants are only assumed to satisfy the named assumptions of the modules.
Liveness under fairness (`WaitersServed`, `BuildEnds`, `ReadsEnd`, `HealsUnlessCloseHangs`,
`StartSettles`, `RunsReturn`, `RemainsGo`, `ChangesReachRun`, `CloseEnds`) is out of
the reach of the prover: they are checked on the small instances only. Every safety property of the runs that pass is stated by a theorem.

## Not modelled

* Release workspace and job, client bundles: their directories follow
  `Publication` or one rename, under one host lock; the rest is archives and
  shell commands.
* The other transports and gates of the monitor, the gateway resources of the
  traffic switch, `retirePreviousColor`: what they change is in the cluster.
* Loading a context again and unloading it, the watch mode of TypeDoc, the
  re-creation of a failed watcher, socket files of hosts without abstract
  sockets, the sizing of budgets.
* Authentication sessions, WebSocket channels, operational events, HTTP services,
  network configuration, command line tools, the browser client: request handlers
  over one call, rendering, or sequences of commands whose effects live outside
  the program. They are by far the most lines of the repository, and hold little
  of what a model checker reaches; so the share of all lines the models cover is
  small, and the share of the concurrent core is not.

Next would be: a composition of `PodStart` with a state store whose updates are
read and written back apart; a bundle pulled while another is published; an
abstract specification of a published directory (whole versions only, replaced
at once or not at all) that `TypedocTask` implements.
