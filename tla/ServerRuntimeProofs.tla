------------------------- MODULE ServerRuntimeProofs -------------------------
(***************************************************************************)
(* Proofs about the parts of a server runtime.                             *)
(*                                                                         *)
(* DatabaseProvider, for every set of partitions, databases and calls of   *)
(* serveDatabase and every bound on connections: readers never see half of *)
(* a rebind, and unless builds overlap they never read a closed connection *)
(* nor, at rest, anything but what was asked for last.                     *)
(*                                                                         *)
(* PodStart, for every set of containers and number of servers: what a     *)
(* sign-off stands for, and that the start implements the pods that        *)
(* Rollout builds on.                                                      *)
(*                                                                         *)
(* Rollout, for every set of pods and number of iterations: why the        *)
(* monitor may trust its cache.  A status it read as running makes its pod *)
(* one that ran since the iteration began, and only what was read in this  *)
(* iteration counts as long as no read failed.                             *)
(***************************************************************************)
EXTENDS DatabaseProvider, PodStart, Rollout, TLAPS
-----------------------------------------------------------------------------
(* The database provider *)

LEMMA OneConnection == 1 \in Connection
BY DatabaseAssumption DEF DatabaseAssumption, Connection

LEMMA BagIsSome ==
    ASSUME NEW f \in [Partition -> Model], NEW x \in Partition PROVE f # NoBag
<1>1. DOMAIN f = Partition
  OBVIOUS
<1>2. DOMAIN NoBag = {}
  BY DEF NoBag
<1> QED
  BY <1>1, <1>2

\* What a builder has bound after it bound x: b, where it had bound nothing yet
\* the models of the partitions themselves.
Binding(k, x, b) ==
    /\ b[x] = [conn |-> connection, db |-> call[k].map[x]]
    /\ \A y \in Partition \ {x} :
          b[y] = IF call[k].bag = NoBag THEN [conn |-> models, db |-> Own[y]] ELSE call[k].bag[y]
    /\ call' = [call EXCEPT ![k] = [call[k] EXCEPT !.todo = @ \ {x}, !.bag = b]]

LEMMA BindType ==
    ASSUME DBTypeOK, NEW k \in BuilderOfBag, Bind(k)
    PROVE  \E x \in call[k].todo : \E b \in [Partition -> Model] : Binding(k, x, b)
<1> USE DEF DBTypeOK, Model
<1>1. PICK x \in call[k].todo :
        LET own == IF call[k].bag = NoBag
                   THEN [y \in Partition |-> [conn |-> models, db |-> Own[y]]]
                   ELSE call[k].bag
        IN call' = [call EXCEPT
                ![k].todo = @ \ {x},
                ![k].bag = [own EXCEPT ![x] = [conn |-> connection, db |-> call[k].map[x]]]]
  BY DEF Bind
<1> DEFINE own == IF call[k].bag = NoBag
                  THEN [y \in Partition |-> [conn |-> models, db |-> Own[y]]]
                  ELSE call[k].bag
           b == [own EXCEPT ![x] = [conn |-> connection, db |-> call[k].map[x]]]
<1>2. x \in Partition /\ call[k].map[x] \in Database
  OBVIOUS
<1>3. own \in [Partition -> Model]
  BY DatabaseAssumption DEF DatabaseAssumption
<1>4. b \in [Partition -> Model]
  BY <1>2, <1>3
<1>5. b[x] = [conn |-> connection, db |-> call[k].map[x]]
  BY <1>2, <1>3
<1>6. \A y \in Partition \ {x} : b[y] = own[y]
  BY <1>3
<1>7. call' = [call EXCEPT ![k] = [call[k] EXCEPT !.todo = @ \ {x}, !.bag = b]]
  BY <1>1
<1> HIDE DEF b
<1>8. Binding(k, x, b)
  BY <1>5, <1>6, <1>7 DEF Binding
<1>9. x \in call[k].todo
  OBVIOUS
<1> QED
  BY ONLY <1>4, <1>8, <1>9, Zenon

LEMMA DBTypeInit == DBInit => DBTypeOK
<1> SUFFICES ASSUME DBInit PROVE DBTypeOK
  OBVIOUS
<1>1. Idle \in [at : {"idle", "build", "done"}, map : [Partition -> Database],
                todo : SUBSET Partition, bag : [Partition -> Model] \cup {NoBag}]
  BY DatabaseAssumption DEF DatabaseAssumption, Idle
<1> QED
  BY <1>1, OneConnection, DatabaseAssumption DEF DatabaseAssumption, DBInit, DBTypeOK

LEMMA DBTypeStep == DBTypeOK /\ [DBNext]_dbVars => DBTypeOK'
<1> SUFFICES ASSUME DBTypeOK, [DBNext]_dbVars PROVE DBTypeOK'
  OBVIOUS
<1>2. ASSUME NEW k \in BuilderOfBag, Bind(k) PROVE DBTypeOK'
  <2>1. PICK x \in call[k].todo, b \in [Partition -> Model] : Binding(k, x, b)
    BY <1>2, BindType
  <2> DEFINE Call == [at : {"idle", "build", "done"}, map : [Partition -> Database],
                      todo : SUBSET Partition, bag : [Partition -> Model] \cup {NoBag}]
  <2>3. call[k] \in Call
    BY DEF DBTypeOK
  <2>4. [call[k] EXCEPT !.todo = @ \ {x}, !.bag = b] \in Call
    BY <2>3
  <2>2. call' \in [BuilderOfBag -> Call]
    BY <2>1, <2>4 DEF Binding, DBTypeOK
  <2> QED
    BY <1>2, <2>2 DEF Bind, DBTypeOK
<1> USE DEF DBTypeOK
<1>1. ASSUME NEW k \in Rebind, Serve(k) PROVE DBTypeOK'
  BY <1>1 DEF Serve, StartsBuild, Overlap, BuilderOfBag
<1>3. ASSUME NEW k \in Rebind, Swap(k) PROVE DBTypeOK'
  BY <1>3, DatabaseAssumption DEF DatabaseAssumption, Swap, Idle, BuilderOfBag
<1>4. CASE Tick \/ Alive \/ Down \/ ConnectFails
  BY <1>4 DEF Tick, Alive, Down, ConnectFails
<1>5. ASSUME NEW c \in Connection, Connected(c) PROVE DBTypeOK'
  BY <1>5 DEF Connected, Assign, StartsBuild, Overlap, BuilderOfBag
<1>6. CASE Rebuilt
  BY <1>6, DatabaseAssumption DEF DatabaseAssumption, Rebuilt, Idle, BuilderOfBag
<1>7. CASE Close \/ Lose \/ ComesBack
  BY <1>7 DEF Close, Lose, ComesBack
<1>8. CASE UNCHANGED dbVars
  BY <1>8 DEF dbVars
<1> QED
  BY <1>1, <1>2, <1>3, <1>4, <1>5, <1>6, <1>7, <1>8 DEF DBNext, WatchStep, BuilderOfBag

\* The type invariant of the provider.
THEOREM DBTypeCorrect == DBSpec => []DBTypeOK
BY DBTypeInit, DBTypeStep, PTL DEF DBSpec

-----------------------------------------------------------------------------
Bound(k) ==
    Building(k) =>
        /\ call[k].map \in asked
        /\ \A x \in Partition \ call[k].todo :
            IF call[k].bag = NoBag THEN call[k].map[x] = Own[x]
                                   ELSE call[k].bag[x].db = call[k].map[x]

\* Every map that is served, or will be, was asked for, and a bag has what its map
\* says wherever it was bound.
Asked ==
    /\ Own \in asked
    /\ served \in asked
    /\ bag # NoBag => [x \in Partition |-> bag[x].db] \in asked
    /\ \A k \in BuilderOfBag : Bound(k)

\* The connection in use is not one that was closed, nor the one to close.
Linked ==
    /\ models = connection
    /\ link[connection] \in {"open", "lost"}
    /\ watch = "connect" => previous = connection
    /\ watch \in {"build", "close"} => previous # connection /\ link[previous] \in {"open", "lost"}
    /\ Building(Watch) <=> watch = "build"

\* Unless builds overlap there is one builder, which binds on the connection in
\* use; until the watch has rebuilt the bag readers may be on the previous one.
Fresh ==
    ~overlapped =>
        /\ \A j, k \in BuilderOfBag : Building(j) /\ Building(k) => j = k
        /\ Building(Watch) => call[Watch].map = served
        /\ \A x \in Partition :
            IF Building(Watch) THEN Reads(x).conn \in {previous, connection}
                               ELSE Reads(x) = [conn |-> connection, db |-> served[x]]
        /\ \A k \in BuilderOfBag : Building(k) /\ call[k].bag # NoBag =>
            \A x \in Partition \ call[k].todo : call[k].bag[x].conn = connection

\* A bag that is swapped in has what its map says.
LEMMA SwappedIn ==
    ASSUME DBTypeOK, NEW k \in BuilderOfBag, Bound(k), Building(k), call[k].todo = {}
    PROVE  /\ call[k].bag # NoBag => [x \in Partition |-> call[k].bag[x].db] \in asked
           /\ call[k].map \in asked /\ call[k].map \in [Partition -> Database]
           /\ call[k].bag \in [Partition -> Model] \cup {NoBag}
           /\ \A x \in Partition :
                IF call[k].bag = NoBag THEN call[k].map[x] = Own[x]
                                       ELSE call[k].bag[x].db = call[k].map[x]
<1>1. call[k].map \in asked /\ call[k].map \in [Partition -> Database]
  BY DEF Bound, DBTypeOK
<1>2. \A x \in Partition :
        IF call[k].bag = NoBag THEN call[k].map[x] = Own[x]
                               ELSE call[k].bag[x].db = call[k].map[x]
  BY DEF Bound
<1>3. ASSUME call[k].bag # NoBag
      PROVE  [x \in Partition |-> call[k].bag[x].db] = call[k].map
  <2>1. call[k].map = [x \in Partition |-> call[k].map[x]]
    BY <1>1
  <2> QED
    BY <1>2, <1>3, <2>1
<1>4. call[k].bag \in [Partition -> Model] \cup {NoBag}
  BY DEF DBTypeOK
<1> QED
  BY <1>1, <1>2, <1>3, <1>4

LEMMA AskedStep == DBTypeOK /\ Asked /\ Linked /\ [DBNext]_dbVars => Asked'
<1> SUFFICES ASSUME DBTypeOK, Asked, Linked, [DBNext]_dbVars PROVE Asked'
  OBVIOUS
<1>1. ASSUME NEW k \in BuilderOfBag, Bind(k) PROVE Asked'
  <2>1. PICK x \in call[k].todo, b \in [Partition -> Model] : Binding(k, x, b)
    BY <1>1, BindType
  <2>2. b # NoBag /\ x \in Partition
    BY BagIsSome DEF DBTypeOK
  <2>3. /\ \A j \in BuilderOfBag : call'[j].at = call[j].at /\ call'[j].map = call[j].map
        /\ \A j \in BuilderOfBag \ {k} : call'[j] = call[j]
        /\ call'[k].bag = b /\ call'[k].todo = call[k].todo \ {x}
    BY <2>1 DEF Binding, DBTypeOK
  <2>4. UNCHANGED <<asked, served, bag>>
    BY <1>1 DEF Bind
  <2>5. ASSUME NEW j \in BuilderOfBag, j # k PROVE Bound(j)'
    BY <2>3, <2>4, <2>5 DEF Asked, Bound, Building
  <2>6. \A y \in Partition \ call'[k].todo : b[y].db = call[k].map[y]
    <3>1. b[x].db = call[k].map[x]
      BY <2>1 DEF Binding
    <3>2. ASSUME NEW y \in Partition \ call[k].todo, y # x PROVE b[y].db = call[k].map[y]
      BY <1>1, <2>1, <3>2 DEF Bind, Binding, Asked, Bound
    <3> QED
      BY <2>3, <3>1, <3>2
  <2>7. Bound(k)'
    BY <1>1, <2>2, <2>3, <2>4, <2>6 DEF Bind, Asked, Bound, Building
  <2> QED
    BY <2>4, <2>5, <2>7 DEF Asked
<1>2. ASSUME NEW k \in Rebind, Serve(k) PROVE Asked'
  <2>1. PICK m \in [Partition -> Database] : StartsBuild(k, m) /\ asked' = asked \cup {m}
    BY <1>2 DEF Serve, DBTypeOK
  <2>2. UNCHANGED <<served, bag>>
    BY <1>2 DEF Serve
  <2>3. \A j \in BuilderOfBag \ {k} : call'[j] = call[j]
    BY <2>1 DEF StartsBuild, DBTypeOK
  <2>4. ASSUME NEW j \in BuilderOfBag, j # k PROVE Bound(j)'
    BY <2>1, <2>3, <2>4 DEF Asked, Bound, Building
  <2>5. Bound(k)'
    BY <2>1 DEF StartsBuild, Bound, Building, DBTypeOK, BuilderOfBag
  <2> QED
    BY <2>1, <2>2, <2>4, <2>5 DEF Asked
<1>3. ASSUME NEW k \in Rebind, Swap(k) PROVE Asked'
  <2>1. Bound(k) /\ Building(k) /\ call[k].todo = {} /\ k \in BuilderOfBag
    BY <1>3 DEF Swap, Asked, BuilderOfBag
  <2>2. UNCHANGED asked /\ bag' = call[k].bag /\ served' = call[k].map
    BY <1>3 DEF Swap
  <2>3. \A j \in BuilderOfBag : Bound(j)'
    BY <1>3 DEF Swap, Idle, Asked, Bound, Building, DBTypeOK
  <2> QED
    BY <2>1, <2>2, <2>3, SwappedIn DEF Asked
<1>6. CASE Rebuilt
  <2>0. Watch \in BuilderOfBag
    BY DEF BuilderOfBag
  <2>2. UNCHANGED <<asked, served>> /\ bag' = call[Watch].bag
    BY <1>6 DEF Rebuilt
  <2>3. \A j \in BuilderOfBag : Bound(j)'
    BY <1>6 DEF Rebuilt, Idle, Asked, Bound, Building, DBTypeOK
  <2>4. Building(Watch) /\ call[Watch].todo = {} /\ Bound(Watch)
    BY <1>6, <2>0 DEF Rebuilt, Asked, Linked
  <2> QED
    BY <2>0, <2>2, <2>3, <2>4, SwappedIn DEF Asked
<1>5. ASSUME NEW c \in Connection, Connected(c) PROVE Asked'
  <2>1. UNCHANGED <<served, bag, asked>> /\ StartsBuild(Watch, served)
    BY <1>5 DEF Connected
  <2>3. \A j \in BuilderOfBag \ {Watch} : call'[j] = call[j]
    BY <2>1 DEF StartsBuild, DBTypeOK
  <2>4. ASSUME NEW j \in BuilderOfBag, j # Watch PROVE Bound(j)'
    BY <2>1, <2>3, <2>4 DEF Asked, Bound, Building
  <2>5. Bound(Watch)'
    BY <2>1 DEF StartsBuild, Bound, Building, DBTypeOK, BuilderOfBag, Asked
  <2> QED
    BY <2>1, <2>4, <2>5 DEF Asked
<1> USE DEF Asked, Bound, Building
<1>4. CASE Tick \/ Alive \/ Down \/ ConnectFails
  BY <1>4 DEF Tick, Alive, Down, ConnectFails
<1>7. CASE Close \/ Lose \/ ComesBack
  BY <1>7 DEF Close, Lose, ComesBack
<1>8. CASE UNCHANGED dbVars
  BY <1>8 DEF dbVars
<1> QED
  BY <1>1, <1>2, <1>3, <1>4, <1>5, <1>6, <1>7, <1>8 DEF DBNext, WatchStep, BuilderOfBag

LEMMA LinkedStep == DBTypeOK /\ Linked /\ [DBNext]_dbVars => Linked'
<1> SUFFICES ASSUME DBTypeOK, Linked, [DBNext]_dbVars PROVE Linked'
  OBVIOUS
<1>0. Watch \notin Rebind
  BY DatabaseAssumption DEF DatabaseAssumption, Watch
<1>1. ASSUME NEW k \in BuilderOfBag, Bind(k) PROVE Linked'
  <2>1. PICK x \in call[k].todo, b \in [Partition -> Model] : Binding(k, x, b)
    BY <1>1, BindType
  <2>2. \A j \in BuilderOfBag : call'[j].at = call[j].at
    BY <2>1 DEF Binding, DBTypeOK
  <2> QED
    BY <1>1, <2>2 DEF Bind, Linked, Building, BuilderOfBag
<1> USE DEF DBTypeOK, Linked, Building
<1>2. ASSUME NEW k \in Rebind, Serve(k) \/ Swap(k) PROVE Linked'
  BY <1>0, <1>2 DEF Serve, Swap, StartsBuild, BuilderOfBag
<1>4. CASE Tick \/ Alive \/ Down \/ ConnectFails
  BY <1>4 DEF Tick, Alive, Down, ConnectFails
<1>5. ASSUME NEW c \in Connection, Connected(c) PROVE Linked'
  BY <1>5 DEF Connected, Assign, StartsBuild, BuilderOfBag
<1>6. CASE Rebuilt
  BY <1>6 DEF Rebuilt, Idle, BuilderOfBag
<1>7. CASE Close \/ Lose \/ ComesBack
  BY <1>7 DEF Close, Lose, ComesBack
<1>8. CASE UNCHANGED dbVars
  BY <1>8 DEF dbVars
<1> QED
  BY <1>1, <1>2, <1>4, <1>5, <1>6, <1>7, <1>8 DEF DBNext, WatchStep, BuilderOfBag

\* ... and, unless builds overlap, all of it on the connection in use.
LEMMA SwapReads ==
    ASSUME DBTypeOK, Linked, Fresh, ~overlapped, NEW k \in BuilderOfBag, Bound(k), Building(k),
           call[k].todo = {}, NEW x \in Partition
    PROVE  (IF call[k].bag = NoBag THEN [conn |-> models, db |-> Own[x]] ELSE call[k].bag[x])
               = [conn |-> connection, db |-> call[k].map[x]]
<1>1. CASE call[k].bag = NoBag
  BY <1>1, SwappedIn DEF Linked
<1>2. CASE call[k].bag # NoBag
  <2>1. call[k].bag[x].conn = connection /\ call[k].bag[x].db = call[k].map[x]
    BY <1>2, SwappedIn DEF Fresh
  <2>2. call[k].bag[x] \in Model
    BY <1>2, SwappedIn
  <2> QED
    BY <1>2, <2>1, <2>2 DEF Model
<1> QED
  BY <1>1, <1>2

LEMMA FreshStep == DBTypeOK /\ Asked /\ Linked /\ Fresh /\ [DBNext]_dbVars => Fresh'
<1> SUFFICES ASSUME DBTypeOK, Asked, Linked, Fresh, [DBNext]_dbVars, ~overlapped' PROVE Fresh'
  BY DEF Fresh
<1>0. Watch \notin Rebind /\ Watch \in BuilderOfBag
  BY DatabaseAssumption DEF DatabaseAssumption, Watch, BuilderOfBag
<1>1. ASSUME NEW k \in BuilderOfBag, Bind(k) PROVE Fresh'
  <2>1. PICK x \in call[k].todo, b \in [Partition -> Model] : Binding(k, x, b)
    BY <1>1, BindType
  <2>2. UNCHANGED <<connection, models, served, bag, previous, overlapped>>
    BY <1>1 DEF Bind
  <2>3. /\ \A j \in BuilderOfBag : call'[j].at = call[j].at /\ call'[j].map = call[j].map
        /\ \A j \in BuilderOfBag \ {k} : call'[j] = call[j]
        /\ call'[k].bag = b /\ call'[k].todo = call[k].todo \ {x}
    BY <2>1 DEF Binding, DBTypeOK
  <2>4. \A y \in Partition \ call'[k].todo : b[y].conn = connection
    BY <1>1, <2>1, <2>2, <2>3 DEF Bind, Binding, Fresh, Linked, DBTypeOK
  <2>5. \A y \in Partition : Reads(y)' = Reads(y)
    BY <2>2 DEF Reads
  <2> QED
    BY <1>0, <2>2, <2>3, <2>4, <2>5 DEF Fresh, Building
<1>2. ASSUME NEW k \in Rebind, Serve(k) PROVE Fresh'
  <2>1. /\ ~overlapped /\ \A j \in BuilderOfBag \ {k} : ~Building(j)
        /\ UNCHANGED <<connection, models, served, bag, previous>>
    BY <1>2 DEF Serve, Overlap
  <2>2. PICK m \in [Partition -> Database] : StartsBuild(k, m)
    BY <1>2 DEF Serve, DBTypeOK
  <2>3. k \in BuilderOfBag /\ k # Watch
    BY <1>0 DEF BuilderOfBag
  <2>4. /\ \A j \in BuilderOfBag \ {k} : call'[j] = call[j]
        /\ call'[k].bag = NoBag
    BY <2>2, <2>3 DEF StartsBuild, DBTypeOK
  <2>5. \A x \in Partition : Reads(x)' = Reads(x)
    BY <2>1 DEF Reads
  <2>6. \A j \in BuilderOfBag : Building(j)' => j = k
    BY <2>1, <2>4 DEF Building
  <2> QED
    BY <1>0, <2>1, <2>3, <2>4, <2>5, <2>6 DEF Fresh
<1>3. ASSUME NEW k \in Rebind, Swap(k) PROVE Fresh'
  <2>1. /\ ~overlapped /\ Building(k) /\ call[k].todo = {} /\ k \in BuilderOfBag
        /\ UNCHANGED <<connection, models>>
        /\ bag' = call[k].bag /\ served' = call[k].map
    BY <1>3 DEF Swap, BuilderOfBag
  <2>2. \A j \in BuilderOfBag : ~Building(j)'
    BY <1>3, <2>1 DEF Swap, Idle, Fresh, Building, DBTypeOK
  <2>3. ASSUME NEW x \in Partition PROVE Reads(x)' = [conn |-> connection', db |-> served'[x]]
    BY <2>1, SwapReads DEF Asked, Reads
  <2> QED
    BY <1>0, <2>2, <2>3 DEF Fresh
<1>5. ASSUME NEW c \in Connection, Connected(c) PROVE Fresh'
  <2>1. /\ ~overlapped /\ \A j \in BuilderOfBag \ {Watch} : ~Building(j)
        /\ UNCHANGED <<served, bag, previous>> /\ connection' = c /\ models' = c
        /\ StartsBuild(Watch, served)
    BY <1>5 DEF Connected, Overlap, Assign
  <2>2. previous = connection /\ ~Building(Watch)
    BY <1>5 DEF Connected, Assign, Linked
  <2>3. /\ \A j \in BuilderOfBag \ {Watch} : call'[j] = call[j]
        /\ call'[Watch].bag = NoBag /\ call'[Watch].map = served
        /\ call'[Watch].at = "build"
    BY <1>0, <2>1 DEF StartsBuild, DBTypeOK
  <2>4. ASSUME NEW x \in Partition PROVE Reads(x)'.conn \in {previous', connection'}
    <3>1. Reads(x) = [conn |-> connection, db |-> served[x]]
      BY <2>1, <2>2 DEF Fresh
    <3>2. CASE bag = NoBag
      BY <2>1, <3>2 DEF Reads
    <3>3. CASE bag # NoBag
      BY <2>1, <2>2, <3>1, <3>3 DEF Reads
    <3> QED
      BY <3>2, <3>3
  <2>5. \A j \in BuilderOfBag : Building(j)' => j = Watch
    BY <2>1, <2>3 DEF Building
  <2>6. Building(Watch)'
    BY <2>3 DEF Building
  <2> QED
    BY <1>0, <2>1, <2>3, <2>4, <2>5, <2>6 DEF Fresh
<1>6. CASE Rebuilt
  <2>1. /\ ~overlapped /\ Building(Watch) /\ call[Watch].todo = {}
        /\ UNCHANGED <<connection, models, served>>
        /\ bag' = call[Watch].bag /\ served = call[Watch].map
    BY <1>0, <1>6 DEF Rebuilt, Linked, Fresh
  <2>2. \A j \in BuilderOfBag : ~Building(j)'
    BY <1>0, <1>6, <2>1 DEF Rebuilt, Idle, Fresh, Building, DBTypeOK
  <2>3. ASSUME NEW x \in Partition PROVE Reads(x)' = [conn |-> connection', db |-> served'[x]]
    BY <1>0, <2>1, SwapReads DEF Asked, Reads
  <2> QED
    BY <1>0, <2>2, <2>3 DEF Fresh
<1> USE DEF Fresh, Building, Linked, Reads
<1>4. CASE Tick \/ Alive \/ Down \/ ConnectFails
  BY <1>4 DEF Tick, Alive, Down, ConnectFails
<1>7. CASE Close \/ Lose \/ ComesBack
  BY <1>7 DEF Close, Lose, ComesBack
<1>8. CASE UNCHANGED dbVars
  BY <1>8 DEF dbVars
<1> QED
  BY <1>1, <1>2, <1>3, <1>4, <1>5, <1>6, <1>7, <1>8 DEF DBNext, WatchStep, BuilderOfBag

DBInv == DBTypeOK /\ Asked /\ Linked /\ Fresh

LEMMA DBInvariant == DBSpec => []DBInv
<1>1. DBInit => Asked /\ Linked /\ Fresh
  BY DatabaseAssumption, OneConnection
     DEF DatabaseAssumption, DBInit, Asked, Bound, Linked, Fresh, Building, Reads, Idle, BuilderOfBag
<1> QED
  BY <1>1, DBTypeInit, DBTypeStep, AskedStep, LinkedStep, FreshStep, PTL DEF DBSpec, DBInv

\* What readers read was asked for by one call, all together, and unless builds
\* overlap nobody reads through a closed connection (serveDatabase, reconnect).
THEOREM ReadsAreWhole == DBSpec => []ReadsWhole
<1>1. DBInv => [x \in Partition |-> Reads(x).db] \in asked
  <2> SUFFICES ASSUME DBInv PROVE [x \in Partition |-> Reads(x).db] \in asked
    OBVIOUS
  <2>1. CASE bag = NoBag
    <3>1. [x \in Partition |-> Reads(x).db] = [x \in Partition |-> Own[x]]
      BY <2>1 DEF Reads
    <3>2. [x \in Partition |-> Own[x]] = Own
      BY DatabaseAssumption DEF DatabaseAssumption
    <3> QED
      BY <3>1, <3>2 DEF DBInv, Asked
  <2>2. CASE bag # NoBag
    <3>1. [x \in Partition |-> Reads(x).db] = [x \in Partition |-> bag[x].db]
      BY <2>2 DEF Reads
    <3> QED
      BY <2>2, <3>1 DEF DBInv, Asked
  <2> QED
    BY <2>1, <2>2
<1>2. DBInv => (~overlapped => \A x \in Partition : link[Reads(x).conn] # "closed")
  <2> SUFFICES ASSUME DBInv, ~overlapped, NEW x \in Partition PROVE link[Reads(x).conn] # "closed"
    OBVIOUS
  <2>1. CASE Building(Watch)
    BY <2>1 DEF DBInv, Linked, Fresh
  <2>2. CASE ~Building(Watch)
    <3>1. Reads(x).conn = connection
      BY <2>2 DEF DBInv, Fresh
    <3> QED
      BY <3>1 DEF DBInv, Linked
  <2> QED
    BY <2>1, <2>2
<1>3. DBInv => ReadsWhole
  BY <1>1, <1>2 DEF ReadsWhole
<1> QED
  BY <1>3, DBInvariant, PTL

\* At rest readers read the databases asked for last, through the connection that
\* the health watch pings (serveDatabase, reconnect).
THEOREM ReadsWhatIsServed == DBSpec => []ReadsServed
<1>1. DBInv => ReadsServed
  BY DEF DBInv, Fresh, ReadsServed, BuilderOfBag
<1> QED
  BY <1>1, DBInvariant, PTL

-----------------------------------------------------------------------------
(* The start of a pod *)

LEMMA StartTypeInit == StartInit => StartTypeOK
BY PodStartAssumption
   DEF PodStartAssumption, StartInit, StartTypeOK, Server, Pods!PodTypeOK, Pods!Phases

LEMMA StartTypeStep == StartTypeOK /\ [StartNext]_startVars => StartTypeOK'
<1> SUFFICES ASSUME StartTypeOK, [StartNext]_startVars PROVE StartTypeOK'
  OBVIOUS
<1> USE DEF StartTypeOK, Pods!PodTypeOK, Pods!Phases, Goto, SetStatus, store
<1>1. ASSUME NEW p \in Container, StartBuild(p) \/ EndBuild(p) PROVE StartTypeOK'
  BY <1>1 DEF StartBuild, EndBuild
<1>2. ASSUME NEW p \in Container, Throw(p) PROVE StartTypeOK'
  BY <1>2 DEF Throw, LatchedError
<1>3. ASSUME NEW p \in Container, Launch(p) PROVE StartTypeOK'
  BY <1>3 DEF Launch, Spawn
<1>4. ASSUME NEW p \in Container, Look(p) PROVE StartTypeOK'
  <2>0. current[p] \in Server
    OBVIOUS
  <2>1. current[p] < Servers => current[p] + 1 \in Server
    BY ONLY <2>0, PodStartAssumption DEF PodStartAssumption, Server
  <2>2. \/ UNCHANGED current
        \/ current[p] < Servers /\ current' = [current EXCEPT ![p] = @ + 1]
    BY <1>4 DEF Look, NextServer
  <2>3. current' \in [Container -> Server]
    BY <2>1, <2>2
  <2>4. start' \in [Container -> {"off", "build", "launch", "wait", "ran", "end"}]
    BY <1>4 DEF Look, NextServer
  <2> QED
    BY <1>4, <2>3, <2>4 DEF Look
<1>5. ASSUME NEW p \in Container, End(p) PROVE StartTypeOK'
  BY <1>5 DEF End
<1>6. ASSUME NEW p \in Container, NEW k \in Server, SeeExit(p, k) PROVE StartTypeOK'
  BY <1>6 DEF SeeExit, LatchedError
<1>7. ASSUME NEW p \in Container, NEW k \in Server, Boot(p, k) \/ Listen(p, k) PROVE StartTypeOK'
  <2>1. CASE Boot(p, k)
    BY <2>1 DEF Boot
  <2>2. CASE Listen(p, k)
    BY <2>2 DEF Listen
  <2> QED
    BY <1>7, <2>1, <2>2
<1>8. ASSUME NEW p \in Container, NEW k \in Server, ServerFails(p, k) \/ ServerEnds(p, k)
      PROVE  StartTypeOK'
  <2>1. CASE ServerFails(p, k)
    BY <2>1 DEF ServerFails
  <2>2. CASE ServerEnds(p, k)
    BY <2>2 DEF ServerEnds
  <2> QED
    BY <1>8, <2>1, <2>2
<1>9. ASSUME NEW p \in Container, LatchError(p) PROVE StartTypeOK'
  BY <1>9 DEF LatchError, LatchedError
<1>10. ASSUME NEW p \in Container, Restart(p) PROVE StartTypeOK'
  BY <1>10, PodStartAssumption DEF PodStartAssumption, Restart, EmptyStore, Server
<1>11. CASE UNCHANGED startVars
  BY <1>11 DEF startVars
<1> QED
  BY <1>1, <1>2, <1>3, <1>4, <1>5, <1>6, <1>7, <1>8, <1>9, <1>10, <1>11
     DEF StartNext, StartStep, BootStep

\* The type invariant of the start, for every number of servers.
THEOREM StartTypeCorrect == StartSpec => []StartTypeOK
BY StartTypeInit, StartTypeStep, PTL DEF StartSpec

-----------------------------------------------------------------------------
LEMMA LastServer == \A c, k \in Server : ~(c < Servers) => k < c \/ k = c
BY PodStartAssumption DEF PodStartAssumption, Server

LEMMA UpToNext == \A c, k \in Server : k < c + 1 => k < c \/ k = c
BY PodStartAssumption DEF PodStartAssumption, Server

\* Servers start one after the other: those before the current one have listened,
\* those after it are off, and one that listened will not clear the latch again.
Ordered(p) ==
    /\ start[p] \in {"off", "build"} => current[p] = 1
    /\ \A k \in Server : k < current[p] => k \in listened[p]
    /\ \A k \in Server :
        server[p][k] # "off" =>
            k < current[p] \/ (k = current[p] /\ start[p] \in {"wait", "ran", "end"})
    /\ \A k \in listened[p] : server[p][k] \in {"listening", "failed", "ended"}
    /\ \A k \in exited[p] : server[p][k] = "failed"
    /\ start[p] = "wait" /\ ~latch[p] => current[p] \in listened[p]
    /\ start[p] = "ran" \/ startContainerStatus[p] => listened[p] = Server

OrderInv == \A p \in Container : Ordered(p)

\* Where the start is, the store says so, and an error is not covered before the
\* last look.
Stored(p) ==
    /\ start[p] = "off" => containerStatus[p] \in {"none", "error"}
    /\ start[p] = "build" => containerStatus[p] \in {"build", "error"}
    /\ start[p] \in {"launch", "wait", "ran"} => containerStatus[p] \in {"init", "error"}
    /\ startContainerStatus[p] => start[p] = "end"
    /\ faulty[p] => /\ start[p] \in {"launch", "wait", "end"}
                    /\ start[p] # "end" => containerStatus[p] = "error"
                    /\ ~startContainerStatus[p]

StoreInv == \A p \in Container : Stored(p)

LEMMA OrderStep == StartTypeOK /\ StoreInv /\ OrderInv /\ [StartNext]_startVars => OrderInv'
<1> SUFFICES ASSUME StartTypeOK, StoreInv, OrderInv, [StartNext]_startVars,
                    NEW q \in Container
             PROVE  Ordered(q)'
  BY DEF OrderInv
<1> USE DEF StartTypeOK, Pods!PodTypeOK, OrderInv, Ordered, Goto, SetStatus, store
<1>0. Servers \in Nat /\ Servers >= 1 /\ Server = 1..Servers
  BY PodStartAssumption DEF PodStartAssumption, Server
<1>1. ASSUME NEW p \in Container, StartBuild(p) \/ EndBuild(p) PROVE Ordered(q)'
  BY <1>1 DEF StartBuild, EndBuild
<1>2. ASSUME NEW p \in Container, Throw(p) PROVE Ordered(q)'
  BY <1>2 DEF Throw, LatchedError
<1>3. ASSUME NEW p \in Container, Launch(p) PROVE Ordered(q)'
  BY <1>0, <1>3 DEF Launch, Spawn
<1>4. ASSUME NEW p \in Container, Look(p) PROVE Ordered(q)'
  <2>1. CASE p # q
    BY <1>4, <2>1 DEF Look, NextServer
  <2>2. CASE p = q /\ start'[p] = "end" /\ UNCHANGED current
    BY <1>4, <2>2 DEF Look
  <2>3. CASE p = q /\ ~latch[p] /\ current[p] < Servers /\ NextServer(p)
    <3>1. /\ start[p] = "wait" /\ start'[p] = "launch"
          /\ UNCHANGED <<server, listened, exited, startContainerStatus>>
          /\ current[p] \in listened[p]
      BY <1>4, <2>3 DEF Look, NextServer
    <3>0. current[p] \in Server
      OBVIOUS
    <3>2. current'[p] = current[p] + 1 /\ current[p] \in Nat /\ Server \subseteq Nat
      BY <1>0, <2>3, <3>0 DEF NextServer
    <3>3. ~startContainerStatus[p]
      BY <3>1 DEF StoreInv, Stored
    <3>4. \A k \in Server : k < current[p] + 1 => k < current[p] \/ k = current[p]
      BY ONLY <3>0, <3>2, UpToNext
    <3>5. \A k \in Server : k < current'[p] => k \in listened'[p]
      BY <3>1, <3>2, <3>4
    <3>6. \A k \in Server : server'[p][k] # "off" => k < current'[p]
      BY <3>1, <3>2
    <3> QED
      BY <2>3, <3>1, <3>3, <3>5, <3>6
  <2>4. CASE p = q /\ ~latch[p] /\ ~(current[p] < Servers) /\ NextServer(p)
    <3>1. /\ start[p] = "wait" /\ start'[p] = "ran" /\ UNCHANGED current
          /\ UNCHANGED <<server, listened, exited, startContainerStatus>>
          /\ current[p] \in listened[p]
      BY <1>4, <2>4 DEF Look, NextServer
    <3>0. current[p] \in Server
      OBVIOUS
    <3>00. ~(current[p] < Servers)
      BY <2>4
    <3>2. \A k \in Server : k < current[p] \/ k = current[p]
      BY ONLY <3>00, <3>0, LastServer
    <3>3. \A k \in Server : k \in listened[p]
      BY <3>1, <3>2
    <3>4. listened[p] \subseteq Server
      OBVIOUS
    <3>5. listened[p] = Server
      BY ONLY <3>3, <3>4
    <3> QED
      BY <2>4, <3>1, <3>5
  <2> QED
    BY <1>4, <2>1, <2>2, <2>3, <2>4 DEF Look, NextServer
<1>5. ASSUME NEW p \in Container, End(p) PROVE Ordered(q)'
  BY <1>5 DEF End
<1>6. ASSUME NEW p \in Container, NEW k \in Server, SeeExit(p, k) PROVE Ordered(q)'
  BY <1>6 DEF SeeExit, LatchedError
<1>7. ASSUME NEW p \in Container, NEW k \in Server, Boot(p, k) PROVE Ordered(q)'
  BY <1>0, <1>7 DEF Boot
<1>8. ASSUME NEW p \in Container, NEW k \in Server, Listen(p, k) PROVE Ordered(q)'
  <2>1. k = current[p] /\ start[p] \in {"wait", "ran", "end"}
    BY <1>8 DEF Listen
  <2> QED
    BY <1>0, <1>8, <2>1 DEF Listen
<1>9. ASSUME NEW p \in Container, NEW k \in Server, ServerFails(p, k) \/ ServerEnds(p, k)
      PROVE  Ordered(q)'
  <2>1. CASE ServerFails(p, k)
    BY <1>0, <2>1 DEF ServerFails, Up
  <2>2. CASE ServerEnds(p, k)
    BY <1>0, <2>2 DEF ServerEnds, Up
  <2> QED
    BY <1>9, <2>1, <2>2
<1>10. ASSUME NEW p \in Container, LatchError(p) PROVE Ordered(q)'
  BY <1>10 DEF LatchError, LatchedError
<1>11. ASSUME NEW p \in Container, Restart(p) PROVE Ordered(q)'
  BY <1>0, <1>11 DEF Restart, EmptyStore
<1>12. CASE UNCHANGED startVars
  BY <1>12 DEF startVars
<1> QED
  BY <1>1, <1>2, <1>3, <1>4, <1>5, <1>6, <1>7, <1>8, <1>9, <1>10, <1>11, <1>12
     DEF StartNext, StartStep, BootStep

LEMMA StoreStep == StartTypeOK /\ StoreInv /\ OrderInv /\ [StartNext]_startVars => StoreInv'
<1> SUFFICES ASSUME StartTypeOK, StoreInv, OrderInv, [StartNext]_startVars,
                    NEW q \in Container
             PROVE  Stored(q)'
  BY DEF StoreInv
<1> USE DEF StartTypeOK, Pods!PodTypeOK, Pods!Phases, StoreInv, Stored, Goto, SetStatus, store
<1>1. ASSUME NEW p \in Container, StartBuild(p) PROVE Stored(q)'
  BY <1>1 DEF StartBuild
<1>2. ASSUME NEW p \in Container, EndBuild(p) PROVE Stored(q)'
  BY <1>2 DEF EndBuild
<1>3. ASSUME NEW p \in Container, Throw(p) PROVE Stored(q)'
  BY <1>3 DEF Throw, LatchedError
<1>4. ASSUME NEW p \in Container, Launch(p) PROVE Stored(q)'
  BY <1>4 DEF Launch, Spawn
<1>5. ASSUME NEW p \in Container, Look(p) PROVE Stored(q)'
  BY <1>5 DEF Look, NextServer
<1>6. ASSUME NEW p \in Container, End(p) PROVE Stored(q)'
  BY <1>6 DEF End
<1>7. ASSUME NEW p \in Container, LatchError(p) \/ (\E k \in Server : SeeExit(p, k))
      PROVE  Stored(q)'
  BY <1>7 DEF SeeExit, LatchError, LatchedError
<1>8. ASSUME NEW p \in Container, NEW k \in Server,
             Boot(p, k) \/ Listen(p, k) \/ ServerFails(p, k) \/ ServerEnds(p, k)
      PROVE  Stored(q)'
  BY <1>8 DEF Boot, Listen, ServerFails, ServerEnds
<1>9. ASSUME NEW p \in Container, Restart(p) PROVE Stored(q)'
  BY <1>9 DEF Restart, EmptyStore
<1>10. CASE UNCHANGED startVars
  BY <1>10 DEF startVars
<1> QED
  BY <1>1, <1>2, <1>3, <1>4, <1>5, <1>6, <1>7, <1>8, <1>9, <1>10
     DEF StartNext, StartStep, BootStep

StartInv == StartTypeOK /\ OrderInv /\ StoreInv

LEMMA StartInvariant == StartSpec => []StartInv
<1>1. StartInit => OrderInv /\ StoreInv
  BY PodStartAssumption
     DEF PodStartAssumption, StartInit, OrderInv, Ordered, StoreInv, Stored, Server
<1> QED
  BY <1>1, StartTypeInit, StartTypeStep, OrderStep, StoreStep, PTL DEF StartSpec, StartInv

\* A pod signs off only once every server of its container is through buildRuntime,
\* and not over an error latched between the build and the last look of the start,
\* whichever process latched it (start.js, awaitDeployMonitor).
THEOREM SignsOffWhatListens == StartSpec => []SignedOff
<1>1. StartInv => SignedOff
  BY DEF StartInv, OrderInv, Ordered, StoreInv, Stored, SignedOff
<1> QED
  BY <1>1, StartInvariant, PTL

-----------------------------------------------------------------------------
\* Every step of a start is a step of PodStatus, or leaves the store alone.
LEMMA StartStepMaps ==
    StartInv /\ [StartNext]_startVars => [Pods!PodNext]_(Pods!podVars)
<1> SUFFICES ASSUME StartInv, [StartNext]_startVars
             PROVE  Pods!PodNext \/ UNCHANGED Pods!podVars
  OBVIOUS
<1> USE DEF StartInv, StoreInv, Stored, SetStatus, store, Pods!podVars, Pods!PodNext,
            Pods!SetRuntimeStatus
<1>1. ASSUME NEW p \in Container, StartBuild(p) PROVE Pods!Begin(p)
  BY <1>1 DEF StartBuild, Pods!Begin
<1>2. ASSUME NEW p \in Container, EndBuild(p) PROVE Pods!Built(p)
  BY <1>2 DEF EndBuild, Pods!Built
<1>3. ASSUME NEW p \in Container, Throw(p) PROVE Pods!Fault(p)
  BY <1>3 DEF Throw, LatchedError, Pods!Fault
<1>4. ASSUME NEW p \in Container, End(p) PROVE Pods!SignOff(p)
  BY <1>4 DEF End, Pods!SignOff
<1>5. ASSUME NEW p \in Container, LatchError(p) \/ (\E k \in Server : SeeExit(p, k))
      PROVE  Pods!Fault(p)
  BY <1>5 DEF SeeExit, LatchError, LatchedError, Pods!Fault
<1>6. ASSUME NEW p \in Container, Restart(p) PROVE Pods!Restarted(p)
  BY <1>6 DEF Restart, EmptyStore, Pods!Restarted
<1>7. ASSUME NEW p \in Container, Launch(p) \/ Look(p) PROVE UNCHANGED Pods!podVars
  BY <1>7 DEF Launch, Spawn, Look
<1>8. ASSUME NEW p \in Container, NEW k \in Server,
             Boot(p, k) \/ Listen(p, k) \/ ServerFails(p, k) \/ ServerEnds(p, k)
      PROVE  UNCHANGED Pods!podVars
  BY <1>8 DEF Boot, Listen, ServerFails, ServerEnds
<1>9. CASE UNCHANGED startVars
  BY <1>9 DEF startVars
<1> QED
  BY <1>1, <1>2, <1>3, <1>4, <1>5, <1>6, <1>7, <1>8, <1>9 DEF StartNext, StartStep, BootStep

\* What Rollout takes a pod for is what the start of a pod does: every behaviour
\* of the detailed start is one of PodStatus.
THEOREM StartImplementsPodStatus == StartSpec => ImplementsPodStatus
<1>1. StartInit => Pods!PodInit
  BY DEF StartInit, Pods!PodInit
<1> QED
  BY <1>1, StartInvariant, StartStepMaps, PTL
     DEF StartSpec, ImplementsPodStatus, Pods!PodSpec

-----------------------------------------------------------------------------
(* The monitor of a rollout *)

LEMMA RolloutTypeInit == RolloutInit => RolloutTypeOK
<1> USE DEF RolloutInit, PodInit, RolloutTypeOK, PodTypeOK, Phases
<1>1. 1 \in 1..MaxIterations
  BY RolloutAssumption DEF RolloutAssumption
<1>2. RolloutInit => PodTypeOK /\ ready \in [Pod -> BOOLEAN]
  OBVIOUS
<1> QED
  BY <1>1, <1>2

LEMMA RolloutTypeStep == RolloutTypeOK /\ [RolloutNext]_rolloutVars => RolloutTypeOK'
<1> SUFFICES ASSUME RolloutTypeOK, [RolloutNext]_rolloutVars PROVE RolloutTypeOK'
  OBVIOUS
<1> USE DEF RolloutTypeOK, PodTypeOK, Phases
<1>1. ASSUME NEW p \in Pod, Phase(p) PROVE RolloutTypeOK'
  BY <1>1 DEF Phase, Begin, Built, Fault, SetRuntimeStatus
<1>2. ASSUME NEW p \in Pod, Runs(p) PROVE RolloutTypeOK'
  BY <1>2 DEF Runs, SignOff, SetRuntimeStatus
<1>3. ASSUME NEW p \in Pod, Probe(p) PROVE RolloutTypeOK'
  BY <1>3 DEF Probe, podVars
<1>4. ASSUME NEW p \in Pod, Restarts(p) PROVE RolloutTypeOK'
  BY <1>4 DEF Restarts, Restarted, SetRuntimeStatus
<1>5. ASSUME NEW p \in Pod, Read(p) \/ ReadFails(p) \/ ReadFatal(p) PROVE RolloutTypeOK'
  BY <1>5 DEF Read, ReadFails, ReadFatal, Fails, podVars
<1>6. CASE List \/ ListFatal \/ Promote \/ Refuse
  BY <1>6 DEF List, ListFatal, Promote, Refuse, Fails, podVars
<1>7. CASE Judge
  BY <1>7, RolloutAssumption DEF RolloutAssumption, Judge, Again, podVars
<1>8. CASE UNCHANGED rolloutVars
  BY <1>8 DEF rolloutVars
<1> QED
  BY <1>1, <1>2, <1>3, <1>4, <1>5, <1>6, <1>7, <1>8 DEF RolloutNext

\* The type invariant of the monitor and the pods it reads.
THEOREM RolloutTypeCorrect == RolloutSpec => []RolloutTypeOK
BY RolloutTypeInit, RolloutTypeStep, PTL DEF RolloutSpec

-----------------------------------------------------------------------------
RanInv ==
    /\ \A p \in Pod : status[p] = "running" => p \in ranSince
    /\ monitor = "read" /\ allRead => \A p \in Pod \ toRead : p \in cached => p \in ranSince
    /\ PromotedRan

LEMMA RanStep == RolloutTypeOK /\ RanInv /\ [RolloutNext]_rolloutVars => RanInv'
<1> SUFFICES ASSUME RolloutTypeOK, RanInv, [RolloutNext]_rolloutVars PROVE RanInv'
  OBVIOUS
<1> USE DEF RolloutTypeOK, PodTypeOK, RanInv, PromotedRan
<1>1. ASSUME NEW p \in Pod, Phase(p) PROVE RanInv'
  BY <1>1 DEF Phase, Begin, Built, Fault, SetRuntimeStatus
<1>2. ASSUME NEW p \in Pod, Runs(p) PROVE RanInv'
  BY <1>2 DEF Runs, SignOff, SetRuntimeStatus
<1>3. ASSUME NEW p \in Pod, Probe(p) PROVE RanInv'
  BY <1>3 DEF Probe, podVars
<1>4. ASSUME NEW p \in Pod, Restarts(p) PROVE RanInv'
  BY <1>4 DEF Restarts, Restarted, SetRuntimeStatus
<1>5. ASSUME NEW p \in Pod, Read(p) PROVE RanInv'
  BY <1>5 DEF Read, podVars
<1>6. ASSUME NEW p \in Pod, ReadFails(p) \/ ReadFatal(p) PROVE RanInv'
  BY <1>6 DEF ReadFails, ReadFatal, Fails, podVars
<1>7. CASE List
  BY <1>7 DEF List, podVars
<1>8. CASE ListFatal \/ Promote \/ Refuse
  BY <1>8 DEF ListFatal, Promote, Refuse, Fails, podVars
<1>9. CASE Judge
  BY <1>9 DEF Judge, Again, podVars
<1>10. CASE UNCHANGED rolloutVars
  BY <1>10 DEF rolloutVars
<1> QED
  BY <1>1, <1>2, <1>3, <1>4, <1>5, <1>6, <1>7, <1>8, <1>9, <1>10 DEF RolloutNext

\* Traffic moves only to pods that each were running at some moment of the last
\* iteration of the monitor (monitorReadyRunner, switchTraffic).
THEOREM PromotesWhatRan == RolloutSpec => []PromotedRan
<1>1. RolloutInit => RanInv
  BY DEF RolloutInit, PodInit, RanInv, PromotedRan
<1>2. RanInv => PromotedRan
  BY DEF RanInv
<1> QED
  BY <1>1, <1>2, RolloutTypeInit, RolloutTypeStep, RanStep, PTL DEF RolloutSpec
=============================================================================
