---------------------------- MODULE CacheService ----------------------------
(***************************************************************************)
(* The platform cache (src/server/storage/cache.js) over its provider      *)
(* (src/db/valkey/Valkey.js), for one namespace and one key of it.         *)
(*                                                                         *)
(* A read takes the version of the namespace, looks for the value of that  *)
(* version, and loads and stores it on a miss; a write of the authoritative *)
(* data is followed by an invalidation, which gives the namespace a fresh  *)
(* version.  Within a process concurrent calls share version reads and     *)
(* loads.  An invalidation the provider misses stays in `missed`.          *)
(*                                                                         *)
(* A Call is one call of getOrLoad or of invalidate.  A run (of a version  *)
(* read, or of a load) goes by the call that started it, since that call   *)
(* awaits it.  Every action is what a process does between two awaits, or  *)
(* less.  A connection answers its commands in the order they were sent;   *)
(* when it drops, every command without an answer fails, executed or not.  *)
(***************************************************************************)
EXTENDS Naturals, Sequences, FiniteSets

CONSTANTS
    Proc,         \* server processes
    Reader,       \* calls of getOrLoad
    Invalidator,  \* writes of the authoritative data, each followed by `invalidate`
    ProcOf        \* ProcOf[c]: the process of call c

Call == Reader \cup Invalidator

ASSUME CacheServiceAssumption ==
    /\ Reader \cap Invalidator = {}
    /\ IsFiniteSet(Call)
    /\ ProcOf \in [Call -> Proc]
    /\ "none" \notin Call

None == "none"
NoVersion == 0                          \* no version, and the version of an unversioned load
Version == 1..(1 + 2 * Cardinality(Call))  \* each call sets at most two
NoValue == 0
Value == 1..(1 + Cardinality(Invalidator)) \* the data, numbered in the order it was written

VARIABLES
    db,            \* the authoritative value
    version,       \* the version key in the provider
    values,        \* values[v]: the cached value of version v
    lastVersion,   \* the last fresh version
    up,            \* up[p]: ValkeyStatus of p is `connected`
    transit,       \* transit[p]: calls whose command the provider has not executed
    answered,      \* answered[p]: answers on their way back, each a call and what it gets
    failed,        \* calls whose command failed with its connection
    missed,        \* missed[p]: the namespace is in `missed`
    versionReads,  \* versionReads[p]: the version read in flight, or None
    inflight,      \* inflight[p]: the loads in flight
    pc,            \* pc[c]: where call c is
    ver,           \* ver[c]: the version read of c gave, NoVersion when it failed
    key,           \* key[c]: the version of the load c awaits
    value,         \* value[c]: what c loaded, returned or wrote
    joined,        \* joined[c]: the run of another call that c awaits, or None
    past,          \* past[c]: the invalidations that had ended when read c started
    known,         \* known[c]: the invalidations called before the last run of c started
    renewed        \* the authoritative value when the last fresh version was set

provider == <<version, values, lastVersion, renewed>>
link == <<up, transit, answered, failed>>
local == <<missed, versionReads, inflight>>
call == <<ver, key, value, joined>>
history == <<past, known>>
vars == <<db, provider, link, local, pc, call, history>>

Goto(c, s) == pc' = [pc EXCEPT ![c] = s]

\* A command goes out on the connection of the process of c.
Send(c, s) ==
    /\ up[ProcOf[c]]
    /\ transit' = [transit EXCEPT ![ProcOf[c]] = Append(@, c)]
    /\ Goto(c, s)

\* An answer to c arrives in state s, or the connection dropped before it did.
Arrives(c, s, answers) ==
    /\ pc[c] = s
    /\ answered[ProcOf[c]] # <<>>
    /\ LET head == Head(answered[ProcOf[c]]) IN head.to = c /\ head.gets \in answers
    /\ answered' = [answered EXCEPT ![ProcOf[c]] = Tail(@)]
    /\ UNCHANGED failed

Fails(c, s) ==
    /\ pc[c] = s
    /\ c \in failed
    /\ failed' = failed \ {c}
    /\ UNCHANGED answered

\* The last step of `shared`: the run of c leaves the map unless an
\* invalidation took it out first.
EndVersionRead(c) ==
    versionReads' = [versionReads EXCEPT ![ProcOf[c]] = IF @ = c THEN None ELSE @]

\* Mutant of EndLoad: the run that ended stays in the map.
EndLoadNever(c) == UNCHANGED inflight

EndLoad(c) == inflight' = [inflight EXCEPT ![ProcOf[c]] = @ \ {c}]

Called(i) == pc[i] \notin {"idle", "written"}
CallsSoFar == {i \in Invalidator : Called(i)}
Ended(c) == pc[c] \in {"done", "threw"}

-----------------------------------------------------------------------------
\* The provider may hold a current value already, and be up or down.
Init ==
    /\ db = 1
    /\ version = 1 /\ lastVersion = 1 /\ renewed = 1
    /\ \E held \in {NoValue, 1} : values = [v \in Version |-> IF v = 1 THEN held ELSE NoValue]
    /\ up \in [Proc -> BOOLEAN]
    /\ transit = [p \in Proc |-> <<>>]
    /\ answered = [p \in Proc |-> <<>>]
    /\ failed = {}
    /\ missed = [p \in Proc |-> FALSE]
    /\ versionReads = [p \in Proc |-> None]
    /\ inflight = [p \in Proc |-> {}]
    /\ pc = [c \in Call |-> "idle"]
    /\ ver = [c \in Call |-> NoVersion]
    /\ key = [c \in Call |-> NoVersion]
    /\ value = [c \in Call |-> 1]
    /\ joined = [c \in Call |-> None]
    /\ past = [c \in Call |-> {}]
    /\ known = [c \in Call |-> {}]

-----------------------------------------------------------------------------
(* The provider and its connections *)

\* Mutant of TakeVersion: the version is counted up from the one that is stored.
CountVersion ==
    /\ lastVersion' = version + 1
    /\ version' = version + 1
    /\ renewed' = db

TakeVersion ==
    /\ lastVersion' = lastVersion + 1
    /\ version' = lastVersion + 1
    /\ renewed' = db

\* The provider executes the next command of p.
Execute(p) ==
    /\ transit[p] # <<>>
    /\ LET c == Head(transit[p])
           Answer(x) == answered' = [answered EXCEPT ![p] = Append(@, [to |-> c, gets |-> x])]
       IN \/ /\ pc[c] \in {"applying", "taking"}
             /\ TakeVersion
             /\ Answer(lastVersion + 1)
             /\ UNCHANGED values
          \/ /\ pc[c] = "reading"
             /\ Answer(version)
             /\ UNCHANGED provider
          \/ /\ pc[c] = "getting"
             /\ Answer(values[ver[c]])
             /\ UNCHANGED provider
          \/ /\ pc[c] = "storing"
             /\ values' = [values EXCEPT ![key[c]] = value[c]]
             /\ Answer(NoValue)
             /\ UNCHANGED <<version, lastVersion, renewed>>
    /\ transit' = [transit EXCEPT ![p] = Tail(@)]
    /\ UNCHANGED <<db, up, failed, local, pc, call, history>>

\* Keys expire by their TTL, or are evicted.
Evict ==
    /\ \/ version' = NoVersion /\ UNCHANGED values
       \/ /\ \E v \in Version : values[v] # NoValue /\ values' = [values EXCEPT ![v] = NoValue]
          /\ UNCHANGED version
    /\ UNCHANGED <<db, lastVersion, renewed, link, local, pc, call, history>>

InFlight(p) == {c \in Call : ProcOf[c] = p /\ pc[c] \in
                  {"applying", "reading", "taking", "getting", "storing"}}

\* Mutant of Drop: commands wait for the next connection, where nothing answers them.
DropKeepsCommands(p) ==
    /\ up[p]
    /\ up' = [up EXCEPT ![p] = FALSE]
    /\ transit' = [transit EXCEPT ![p] = <<>>]
    /\ answered' = [answered EXCEPT ![p] = <<>>]
    /\ UNCHANGED <<db, provider, failed, local, pc, call, history>>

\* Commands fail at once when the connection drops, and are not queued.
Drop(p) ==
    /\ up[p]
    /\ up' = [up EXCEPT ![p] = FALSE]
    /\ failed' = failed \cup InFlight(p)
    /\ transit' = [transit EXCEPT ![p] = <<>>]
    /\ answered' = [answered EXCEPT ![p] = <<>>]
    /\ UNCHANGED <<db, provider, local, pc, call, history>>

\* The next connection is ready a second later at least (retryStrategy): the
\* calls whose command failed have gone on by then.
Reconnect(p) ==
    /\ ~up[p]
    /\ failed \cap InFlight(p) = {}
    /\ up' = [up EXCEPT ![p] = TRUE]
    /\ UNCHANGED <<db, provider, transit, answered, failed, local, pc, call, history>>

-----------------------------------------------------------------------------
(* invalidate, and applyMissed *)

\* The authoritative data changes, and the handler then invalidates.
WriteData(i) ==
    /\ i \in Invalidator
    /\ pc[i] = "idle"
    /\ db' = db + 1
    /\ value' = [value EXCEPT ![i] = db + 1]
    /\ Goto(i, "written")
    /\ UNCHANGED <<provider, link, local, ver, key, joined, history>>

\* Mutant of Invalidate: the loads in flight stay in the map.
InvalidateKeepsLoads(i) ==
    /\ pc[i] = "written"
    /\ versionReads' = [versionReads EXCEPT ![ProcOf[i]] = None]
    /\ missed' = [missed EXCEPT ![ProcOf[i]] = TRUE]
    /\ \/ Send(i, "applying")
       \/ ~up[ProcOf[i]] /\ Goto(i, "done") /\ UNCHANGED transit
    /\ UNCHANGED <<db, provider, up, answered, failed, inflight, call, history>>

\* With no connection applyMissed does nothing and the invalidation is deferred.
Invalidate(i) ==
    /\ pc[i] = "written"
    /\ versionReads' = [versionReads EXCEPT ![ProcOf[i]] = None]
    /\ inflight' = [inflight EXCEPT ![ProcOf[i]] = {}]
    /\ missed' = [missed EXCEPT ![ProcOf[i]] = TRUE]
    /\ \/ Send(i, "applying")
       \/ ~up[ProcOf[i]] /\ Goto(i, "done") /\ UNCHANGED transit
    /\ UNCHANGED <<db, provider, up, answered, failed, call, history>>

\* After applyMissed a read goes on; an invalidation has ended.
AfterApply(c) == Goto(c, IF c \in Reader THEN "entered" ELSE "done")

Applied(c) ==
    /\ Arrives(c, "applying", Version)
    /\ versionReads' = [versionReads EXCEPT ![ProcOf[c]] = None]
    /\ missed' = [missed EXCEPT ![ProcOf[c]] = FALSE]
    /\ AfterApply(c)
    /\ UNCHANGED <<db, provider, up, transit, inflight, call, history>>

\* Mutant of NotApplied: the invalidation leaves `missed` whatever came of it.
NotAppliedForgets(c) ==
    /\ Fails(c, "applying")
    /\ missed' = [missed EXCEPT ![ProcOf[c]] = FALSE]
    /\ AfterApply(c)
    /\ UNCHANGED <<db, provider, up, transit, versionReads, inflight, call, history>>

NotApplied(c) ==
    /\ Fails(c, "applying")
    /\ AfterApply(c)
    /\ UNCHANGED <<db, provider, up, transit, local, call, history>>

-----------------------------------------------------------------------------
(* getOrLoad *)

StartRead(c) ==
    /\ c \in Reader
    /\ pc[c] = "idle"
    /\ past' = [past EXCEPT ![c] = {i \in Invalidator : Ended(i)}]
    /\ \/ missed[ProcOf[c]] /\ Send(c, "applying")
       \/ /\ up[ProcOf[c]] => ~missed[ProcOf[c]]
          /\ Goto(c, "entered")
          /\ UNCHANGED transit
    /\ UNCHANGED <<db, provider, up, answered, failed, local, call, known>>

\* The read goes to the loader under the unversioned key.
FallBack(c) ==
    /\ Goto(c, "wanting")
    /\ key' = [key EXCEPT ![c] = NoVersion]

Bypass(c) ==
    /\ pc[c] = "entered"
    /\ ~up[ProcOf[c]] \/ missed[ProcOf[c]]
    /\ FallBack(c)
    /\ UNCHANGED <<db, provider, link, local, ver, value, joined, history>>

\* versionOf: the version read in flight is shared, or a new one starts.
JoinVersionRead(c) ==
    /\ pc[c] = "entered"
    /\ up[ProcOf[c]] /\ ~missed[ProcOf[c]]
    /\ versionReads[ProcOf[c]] # None
    /\ joined' = [joined EXCEPT ![c] = versionReads[ProcOf[c]]]
    /\ Goto(c, "sharing")
    /\ UNCHANGED <<db, provider, link, local, ver, key, value, history>>

\* Mutant of ReadVersion: a missed invalidation does not keep reads off the provider.
ReadVersionThoughMissed(c) ==
    /\ pc[c] = "entered"
    /\ versionReads[ProcOf[c]] = None
    /\ versionReads' = [versionReads EXCEPT ![ProcOf[c]] = c]
    /\ known' = [known EXCEPT ![c] = CallsSoFar]
    /\ Send(c, "reading")
    /\ UNCHANGED <<db, provider, up, answered, failed, missed, inflight, call, past>>

ReadVersion(c) ==
    /\ pc[c] = "entered"
    /\ ~missed[ProcOf[c]]
    /\ versionReads[ProcOf[c]] = None
    /\ versionReads' = [versionReads EXCEPT ![ProcOf[c]] = c]
    /\ known' = [known EXCEPT ![c] = CallsSoFar]
    /\ Send(c, "reading")
    /\ UNCHANGED <<db, provider, up, answered, failed, missed, inflight, call, past>>

GotVersion(c) ==
    /\ \E v \in Version :
        /\ Arrives(c, "reading", {v}) \/ Arrives(c, "taking", {v})
        /\ ver' = [ver EXCEPT ![c] = v]
    /\ EndVersionRead(c)
    /\ Goto(c, "versioned")
    /\ UNCHANGED <<db, provider, up, transit, missed, inflight, key, value, joined, history>>

\* A namespace without a version takes a fresh one.
VersionMissing(c) ==
    /\ Arrives(c, "reading", {NoVersion})
    /\ Send(c, "taking")
    /\ UNCHANGED <<db, provider, up, local, call, history>>

VersionFailed(c) ==
    /\ Fails(c, "reading") \/ Fails(c, "taking")
    /\ EndVersionRead(c)
    /\ ver' = [ver EXCEPT ![c] = NoVersion]
    /\ FallBack(c)
    /\ UNCHANGED <<db, provider, up, transit, missed, inflight, value, joined, history>>

\* A call that shares a version read goes on with its outcome.
VersionShared(c) ==
    /\ pc[c] = "sharing"
    /\ pc[joined[c]] \notin {"reading", "taking"}
    /\ joined' = [joined EXCEPT ![c] = None]
    /\ ver' = [ver EXCEPT ![c] = ver[joined[c]]]
    /\ IF ver[joined[c]] = NoVersion
       THEN FallBack(c)
       ELSE Goto(c, "versioned") /\ UNCHANGED key
    /\ UNCHANGED <<db, provider, link, local, value, history>>

GetValue(c) ==
    /\ pc[c] = "versioned"
    /\ \/ Send(c, "getting") /\ UNCHANGED key
       \/ ~up[ProcOf[c]] /\ FallBack(c) /\ UNCHANGED transit
    /\ UNCHANGED <<db, provider, up, answered, failed, local, ver, value, joined, history>>

Hit(c) ==
    /\ \E x \in Value :
        /\ Arrives(c, "getting", {x})
        /\ value' = [value EXCEPT ![c] = x]
    /\ Goto(c, "done")
    /\ UNCHANGED <<db, provider, up, transit, local, ver, key, joined, history>>

Miss(c) ==
    /\ Arrives(c, "getting", {NoValue})
    /\ key' = [key EXCEPT ![c] = ver[c]]
    /\ Goto(c, "wanting")
    /\ UNCHANGED <<db, provider, up, transit, local, ver, value, joined, history>>

GetFailed(c) ==
    /\ Fails(c, "getting")
    /\ FallBack(c)
    /\ UNCHANGED <<db, provider, up, transit, local, ver, value, joined, history>>

-----------------------------------------------------------------------------
(* The load *)

Loads(c) == {r \in inflight[ProcOf[c]] : key[r] = key[c]}

JoinLoad(c) ==
    /\ pc[c] = "wanting"
    /\ \E r \in Loads(c) : joined' = [joined EXCEPT ![c] = r]
    /\ Goto(c, "awaiting")
    /\ UNCHANGED <<db, provider, link, local, ver, key, value, history>>

StartLoad(c) ==
    /\ pc[c] = "wanting"
    /\ Loads(c) = {}
    /\ inflight' = [inflight EXCEPT ![ProcOf[c]] = @ \cup {c}]
    /\ known' = [known EXCEPT ![c] = CallsSoFar]
    /\ Goto(c, "loading")
    /\ UNCHANGED <<db, provider, link, missed, versionReads, call, past>>

\* The loader reads the authoritative data, and its answer travels back.
Load(c) ==
    /\ pc[c] = "loading"
    /\ value' = [value EXCEPT ![c] = db]
    /\ Goto(c, "loaded")
    /\ UNCHANGED <<db, provider, link, local, ver, key, joined, history>>

LoadFails(c) ==
    /\ pc[c] = "loading"
    /\ EndLoad(c)
    /\ Goto(c, "threw")
    /\ UNCHANGED <<db, provider, link, missed, versionReads, call, history>>

\* A load under a version stores its value.
Store(c) ==
    /\ pc[c] = "loaded"
    /\ key[c] # NoVersion
    /\ Send(c, "storing")
    /\ UNCHANGED <<db, provider, up, answered, failed, local, call, history>>

\* An unversioned load, one with no connection left, or one that gave nothing
\* to cache returns at once.
Return(c) ==
    /\ pc[c] = "loaded"
    /\ EndLoad(c)
    /\ Goto(c, "done")
    /\ UNCHANGED <<db, provider, link, missed, versionReads, call, history>>

\* A value is returned whether or not it was stored.
Stored(c) ==
    /\ Arrives(c, "storing", {NoValue}) \/ Fails(c, "storing")
    /\ EndLoad(c)
    /\ Goto(c, "done")
    /\ UNCHANGED <<db, provider, up, transit, missed, versionReads, call, history>>

LoadShared(c) ==
    /\ pc[c] = "awaiting"
    /\ Ended(joined[c])
    /\ value' = [value EXCEPT ![c] = value[joined[c]]]
    /\ Goto(c, pc[joined[c]])
    /\ joined' = [joined EXCEPT ![c] = None]
    /\ UNCHANGED <<db, provider, link, local, ver, key, history>>

-----------------------------------------------------------------------------
\* What a call does once it was made.
Proceed(c) ==
    \/ Invalidate(c) \/ Applied(c) \/ NotApplied(c)
    \/ Bypass(c) \/ JoinVersionRead(c) \/ ReadVersion(c)
    \/ GotVersion(c) \/ VersionMissing(c) \/ VersionFailed(c) \/ VersionShared(c)
    \/ GetValue(c) \/ Hit(c) \/ Miss(c) \/ GetFailed(c)
    \/ JoinLoad(c) \/ StartLoad(c) \/ Load(c) \/ LoadFails(c)
    \/ Store(c) \/ Return(c) \/ Stored(c) \/ LoadShared(c)

Next ==
    \/ \E c \in Call : WriteData(c) \/ StartRead(c) \/ Proceed(c)
    \/ \E p \in Proc : Execute(p) \/ Drop(p) \/ Reconnect(p)
    \/ Evict

Spec == Init /\ [][Next]_vars

\* The event loop runs what is ready; a loader answers or throws; a connection
\* that stays up executes what it was sent; a lost one is retried for ever.
Fairness ==
    /\ \A c \in Call : WF_vars(Proceed(c))
    /\ \A p \in Proc : WF_vars(Execute(p)) /\ WF_vars(Reconnect(p))

FairSpec == Spec /\ Fairness

-----------------------------------------------------------------------------
\* An invalidation is called only while no call of its process, another
\* invalidation or a read, gives the namespace a fresh version (applyMissed).  The
\* process may make any number of invalidations, and any of them may be missed.
CalledAlone ==
    \A i \in Invalidator : ~Called(i) /\ Called(i)' =>
        \A c \in Call : ProcOf[c] = ProcOf[i] => pc[c] # "applying"

NoOverlap == [][CalledAlone]_vars

-----------------------------------------------------------------------------
(* Properties *)

States == {"idle", "written", "applying", "entered", "reading", "taking", "sharing",
           "versioned", "getting", "wanting", "awaiting", "loading", "loaded",
           "storing", "done", "threw"}

\* Every variable has its type, and `versionReads` and `inflight` hold only runs
\* that have not ended (the last step of `shared`).
TypeOK ==
    /\ db \in Value
    /\ version \in Version \cup {NoVersion}
    /\ values \in [Version -> Value \cup {NoValue}]
    /\ lastVersion \in Version
    /\ up \in [Proc -> BOOLEAN]
    /\ transit \in [Proc -> Seq(Call)]
    /\ answered \in [Proc -> Seq([to : Call, gets : Version \cup Value \cup {NoVersion, NoValue}])]
    /\ failed \in SUBSET Call
    /\ missed \in [Proc -> BOOLEAN]
    /\ versionReads \in [Proc -> Call \cup {None}]
    /\ inflight \in [Proc -> SUBSET Call]
    /\ pc \in [Call -> States]
    /\ ver \in [Call -> Version \cup {NoVersion}]
    /\ key \in [Call -> Version \cup {NoVersion}]
    /\ value \in [Call -> Value]
    /\ joined \in [Call -> Call \cup {None}]
    /\ past \in [Call -> SUBSET Invalidator]
    /\ known \in [Call -> SUBSET Invalidator]
    /\ renewed \in Value
    /\ \A p \in Proc : versionReads[p] # None => pc[versionReads[p]] \in {"reading", "taking"}
    /\ \A p \in Proc : \A c \in inflight[p] : pc[c] \in {"loading", "loaded", "storing"}

\* The value cached under the current version is never older than the data was
\* when that version was set: no old value comes back, after an invalidation by
\* any process or after the version key was evicted.
CachedNotStale ==
    version # NoVersion /\ values[version] # NoValue => values[version] >= renewed

\* An invalidation the provider missed is kept in the process until it is
\* applied: one that ended either is in `missed` or a fresh version was set since.
MissedKept ==
    \A i \in Invalidator : Ended(i) => missed[ProcOf[i]] \/ value[i] <= renewed

\* A read that starts after an invalidation of its process ended returns data at
\* least as new as what that invalidation was called for, provider up or down.
ReadsOwnWrites ==
    \A c \in Reader : pc[c] = "done" =>
        \A i \in past[c] : ProcOf[i] = ProcOf[c] => value[c] >= value[i]

\* A read that starts after an invalidation of its process never joins a version
\* read or a load that started before it.
NoStaleJoin ==
    \A c \in Reader : joined[c] # None =>
        \A i \in past[c] : ProcOf[i] = ProcOf[c] => i \in known[joined[c]]

\* Every read that starts ends: no call waits for ever for a run it shares, or
\* for an answer lost with its connection.
ReadsEnd == \A c \in Reader : pc[c] # "idle" ~> Ended(c)
=============================================================================
