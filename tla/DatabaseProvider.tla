-------------------------- MODULE DatabaseProvider --------------------------
(***************************************************************************)
(* The database provider of one context (src/db/DataBaseProvider.js): a    *)
(* connection, the models bound to it, and for each partition the database *)
(* its readers read.  serveDatabase rebinds a partition; the health watch  *)
(* rebuilds the connection while it is down.  Both build a bag of models   *)
(* across awaits, in which every reader, and the other one, may run.       *)
(*                                                                         *)
(* A model is the connection and the database it is bound to.  To bind one *)
(* always succeeds: its schema was imported when the context was loaded.   *)
(***************************************************************************)
EXTENDS Naturals

CONSTANTS
    Partition,       \* partitions of the context
    Database,        \* databases a partition may serve
    Own,             \* Own[x]: the database of partition x itself
    Rebind,          \* calls of serveDatabase
    MaxConnections   \* bound: connections opened

ASSUME DatabaseAssumption ==
    /\ Own \in [Partition -> Database]
    /\ "watch" \notin Rebind
    /\ MaxConnections \in Nat \ {0}

Connection == 1..MaxConnections
Model == [conn : Connection, db : Database]
NoBag == <<>>

VARIABLES
    link,         \* link[c]: connection c is unused, open, lost or closed
    connection,   \* bucket.connection
    models,       \* the connection that bucket.models are bound to
    served,       \* bucket.served
    bag,          \* bucket.servedModels, NoBag when it is null
    call,         \* call[k]: the builder k: where it is, what it serves, what it has bound
    watch,        \* the health watch: rest, ping, connect, or its reconnect goes on
    previous,     \* previousConnection of the reconnect
    asked,        \* history: the maps partition -> database that were asked for
    overlapped    \* history: a bag was being built when another build, or a swap of
                  \* the connection, began

dbVars == <<link, connection, models, served, bag, call, watch, previous, asked, overlapped>>

\* Builders of a bag: the rebinds, and the reconnect of the watch.
Watch == "watch"
BuilderOfBag == Rebind \cup {Watch}
Idle == [at |-> "idle", map |-> Own, todo |-> {}, bag |-> NoBag]

DBInit ==
    /\ link = [c \in Connection |-> IF c = 1 THEN "open" ELSE "unused"]
    /\ connection = 1
    /\ models = 1
    /\ served = Own
    /\ bag = NoBag
    /\ call = [k \in BuilderOfBag |-> Idle]
    /\ watch = "rest"
    /\ previous = 1
    /\ asked = {Own}
    /\ overlapped = FALSE

\* What a reader of partition x reads now (servedModels).
Reads(x) == IF bag = NoBag THEN [conn |-> models, db |-> Own[x]] ELSE bag[x]

Building(k) == call[k].at = "build"
Overlap(k) == overlapped' = (overlapped \/ \E j \in BuilderOfBag \ {k} : Building(j))

\* Mutant of Bind: the bag that readers read is filled in place.
BindInPlace(k) ==
    /\ Building(k)
    /\ \E x \in call[k].todo :
        /\ bag' = [y \in Partition |->
                IF y = x THEN [conn |-> connection, db |-> call[k].map[x]] ELSE Reads(y)]
        /\ call' = [call EXCEPT ![k].todo = @ \ {x}, ![k].bag = bag']
    /\ UNCHANGED <<link, connection, models, served, watch, previous, asked, overlapped>>

\* #buildServedModels: one partition after the other, those that serve another
\* database; each is bound, after an await, on the connection of that moment.
Bind(k) ==
    /\ Building(k)
    /\ \E x \in call[k].todo :
        LET start == IF call[k].bag = NoBag
                     THEN [y \in Partition |-> [conn |-> models, db |-> Own[y]]]
                     ELSE call[k].bag
        IN call' = [call EXCEPT
                ![k].todo = @ \ {x},
                ![k].bag = [start EXCEPT ![x] = [conn |-> connection, db |-> call[k].map[x]]]]
    /\ UNCHANGED <<link, connection, models, served, bag, watch, previous, asked, overlapped>>

StartsBuild(k, map) ==
    call' = [call EXCEPT ![k] =
        [at |-> "build", map |-> map, todo |-> {x \in Partition : map[x] # Own[x]}, bag |-> NoBag]]

-----------------------------------------------------------------------------
\* serveDatabase: the map is copied first.
Serve(k) ==
    /\ call[k].at = "idle"
    /\ \E x \in Partition, d \in Database :
        /\ d # served[x]
        /\ StartsBuild(k, [served EXCEPT ![x] = d])
        /\ asked' = asked \cup {[served EXCEPT ![x] = d]}
    /\ Overlap(k)
    /\ UNCHANGED <<link, connection, models, served, bag, watch, previous>>

\* ... then the bag is swapped in, and the map with it.
Swap(k) ==
    /\ Building(k)
    /\ call[k].todo = {}
    /\ bag' = call[k].bag
    /\ served' = call[k].map
    /\ call' = [call EXCEPT ![k] = [Idle EXCEPT !.at = "done"]]
    /\ UNCHANGED <<link, connection, models, watch, previous, asked, overlapped>>

-----------------------------------------------------------------------------
\* A tick of the watch, which is skipped during a rebuild; the ping of one tick
\* ends before the next one (HEALTH_PING_TIMEOUT_MS is below the interval).
Tick ==
    /\ watch = "rest"
    /\ watch' = "ping"
    /\ UNCHANGED <<link, connection, models, served, bag, call, previous, asked, overlapped>>

Alive ==
    /\ watch = "ping"
    /\ link[connection] = "open"
    /\ watch' = "rest"
    /\ UNCHANGED <<link, connection, models, served, bag, call, previous, asked, overlapped>>

\* isAlive says no: the connection is down, or its answer came too late.
Down ==
    /\ watch = "ping"
    /\ watch' = "connect"
    /\ previous' = connection
    /\ UNCHANGED <<link, connection, models, served, bag, call, asked, overlapped>>

\* Mutant of ConnectFails: the flag of the watch is not reset.
ConnectFailsForGood ==
    /\ watch = "connect"
    /\ watch' = "failed"
    /\ UNCHANGED <<link, connection, models, served, bag, call, previous, asked, overlapped>>

ConnectFails ==
    /\ watch = "connect"
    /\ watch' = "rest"
    /\ UNCHANGED <<link, connection, models, served, bag, call, previous, asked, overlapped>>

\* The new connection and its models are assigned in one step; its number may
\* be that of a closed one.
Assign(c) ==
    /\ watch = "connect"
    /\ link[c] \in {"unused", "closed"}
    /\ link' = [link EXCEPT ![c] = "open"]
    /\ connection' = c
    /\ models' = c

\* Mutant of Connected: the models served are left as they are.
ConnectedOnly(c) ==
    /\ Assign(c)
    /\ watch' = "close"
    /\ UNCHANGED <<served, bag, call, previous, asked, overlapped>>

\* reconnect: ... then the bag of what is served is built anew.
Connected(c) ==
    /\ Assign(c)
    /\ watch' = "build"
    /\ StartsBuild(Watch, served)
    /\ Overlap(Watch)
    /\ UNCHANGED <<served, bag, previous, asked>>

Rebuilt ==
    /\ watch = "build"
    /\ call[Watch].todo = {}
    /\ bag' = call[Watch].bag
    /\ call' = [call EXCEPT ![Watch] = Idle]
    /\ watch' = "close"
    /\ UNCHANGED <<link, connection, models, served, previous, asked, overlapped>>

\* The replaced connection is closed last; what is bound to it is closed too.  The
\* watch awaits it with no time limit, and its ticks are skipped until it settles.
Close ==
    /\ watch = "close"
    /\ link' = [link EXCEPT ![previous] = "closed"]
    /\ watch' = "rest"
    /\ UNCHANGED <<connection, models, served, bag, call, previous, asked, overlapped>>

\* The network: a connection is lost, and may come back by itself.
Lose ==
    /\ \E c \in Connection : link[c] = "open" /\ link' = [link EXCEPT ![c] = "lost"]
    /\ UNCHANGED <<connection, models, served, bag, call, watch, previous, asked, overlapped>>

ComesBack ==
    /\ \E c \in Connection : link[c] = "lost" /\ link' = [link EXCEPT ![c] = "open"]
    /\ UNCHANGED <<connection, models, served, bag, call, watch, previous, asked, overlapped>>

-----------------------------------------------------------------------------
WatchStep ==
    \/ Tick \/ Alive \/ Down
    \/ \E c \in Connection : Connected(c)
    \/ Bind(Watch) \/ Rebuilt

DBNext ==
    \/ \E k \in Rebind : Serve(k) \/ Bind(k) \/ Swap(k)
    \/ WatchStep \/ ConnectFails \/ Close \/ Lose \/ ComesBack

DBSpec == DBInit /\ [][DBNext]_dbVars

(***************************************************************************)
(* setInterval ticks for ever and the watch goes on; a connection that is  *)
(* asked for again and again is made in the end.  Nothing bounds a close.  *)
(***************************************************************************)
DBFairness ==
    /\ WF_dbVars(WatchStep)
    /\ SF_dbVars(\E c \in Connection : Connected(c))

FairDBSpec == DBSpec /\ DBFairness

-----------------------------------------------------------------------------
(* Properties *)

\* Every variable has its type.
DBTypeOK ==
    /\ link \in [Connection -> {"unused", "open", "lost", "closed"}]
    /\ connection \in Connection
    /\ models \in Connection
    /\ served \in [Partition -> Database]
    /\ bag \in [Partition -> Model] \cup {NoBag}
    /\ call \in [BuilderOfBag ->
          [at : {"idle", "build", "done"}, map : [Partition -> Database],
           todo : SUBSET Partition, bag : [Partition -> Model] \cup {NoBag}]]
    /\ watch \in {"rest", "ping", "connect", "build", "close"}
    /\ previous \in Connection
    /\ asked \in SUBSET [Partition -> Database]
    /\ overlapped \in BOOLEAN

\* What readers read was asked for by one call, all together, at every await of a
\* rebind or a reconnect and however these overlap; and unless they overlap nobody
\* reads through a connection that a reconnect closed.
ReadsWhole ==
    /\ [x \in Partition |-> Reads(x).db] \in asked
    /\ ~overlapped => \A x \in Partition : link[Reads(x).conn] # "closed"

\* When no build is under way, readers read the databases the calls that returned
\* asked for, through the connection the health watch pings.
ReadsServed ==
    ~overlapped /\ (\A k \in BuilderOfBag : ~Building(k)) =>
        \A x \in Partition : Reads(x) = [conn |-> connection, db |-> served[x]]

\* Nobody reads for ever through a connection that was lost: it comes back, or
\* the health watch moves its readers to another, even when the close of a replaced
\* connection hangs.
ReadersHeal ==
    \A c \in Connection :
        link[c] = "lost" /\ (\E x \in Partition : Reads(x).conn = c)
            ~> \/ link[c] = "open" \/ overlapped
               \/ \A x \in Partition : Reads(x).conn # c

\* Nobody reads for ever through a connection that was lost, unless the close of a
\* replaced connection never settles: attempts that fail, builds that overlap and a
\* network that comes and goes do not stop the health watch.
HealsUnlessCloseHangs == <>[](watch = "close") \/ ReadersHeal
=============================================================================
