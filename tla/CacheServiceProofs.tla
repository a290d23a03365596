------------------------- MODULE CacheServiceProofs -------------------------
(***************************************************************************)
(* Proofs about CacheService, for every set of processes, reads and        *)
(* invalidations, however often connections drop and keys are evicted.     *)
(* LinkInv (a call has one command out, or none) and TypeInv carry the     *)
(* rest: FreshInv (what may be stored under the current version was loaded *)
(* after it was set), JoinInv (a run in a map knows every invalidation of  *)
(* its process), and, where the invalidations of a process do not overlap, *)
(* AppliedInv and OwnInv (what a read knows to be applied it reads).       *)
(***************************************************************************)
EXTENDS CacheService, SequenceTheorems, FiniteSetTheorems, TLAPS

\* The states in which a command of the call is out.
Waiting == {"applying", "reading", "taking", "getting", "storing"}

\* The calls with a command on its way on the connection of p, and the answers
\* on their way back.
Out(p) == {transit[p][i] : i \in 1..Len(transit[p])}
Back(p) == {answered[p][i] : i \in 1..Len(answered[p])}

LinkInv ==
    /\ \A p \in Proc : \A i, j \in 1..Len(transit[p]) :
          transit[p][i] = transit[p][j] => i = j
    /\ \A p \in Proc : \A i, j \in 1..Len(answered[p]) :
          answered[p][i].to = answered[p][j].to => i = j
    /\ \A p \in Proc : \A c \in Out(p) : ProcOf[c] = p /\ pc[c] \in Waiting
    /\ \A p \in Proc : \A a \in Back(p) :
          ProcOf[a.to] = p /\ pc[a.to] \in Waiting /\ a.to \notin Out(p)
    /\ \A c \in failed : pc[c] \in Waiting /\ ~up[ProcOf[c]]
    /\ \A p \in Proc : ~up[p] => transit[p] = <<>> /\ answered[p] = <<>>

\* A call may yet set a version once more, or twice more.
MaySetTwo ==
    {c \in Call : \/ pc[c] \in {"idle", "written"}
                  \/ pc[c] = "applying" /\ c \in Out(ProcOf[c])}
MaySetOne ==
    MaySetTwo \cup {c \in Call : \/ pc[c] \in {"applying", "entered", "reading"}
                                 \/ pc[c] = "taking" /\ c \in Out(ProcOf[c])}
MayWrite == {i \in Invalidator : pc[i] = "idle"}

Budget ==
    /\ lastVersion + Cardinality(MaySetOne) + Cardinality(MaySetTwo) <= 1 + 2 * Cardinality(Call)
    /\ db + Cardinality(MayWrite) <= 1 + Cardinality(Invalidator)

\* Which values an answer may have, by the command it is for.
AnswerOK(a) ==
    /\ pc[a.to] \in {"applying", "taking"} => a.gets \in Version
    /\ pc[a.to] = "reading" => a.gets \in Version \cup {NoVersion}
    /\ pc[a.to] = "getting" => a.gets \in Value \cup {NoValue}

\* Where a call may be, and which run it may share.
PlaceInv ==
    /\ \A i \in Invalidator : pc[i] \in {"idle", "written", "applying", "done"}
    /\ \A c \in Reader : pc[c] # "written"
    /\ \A c \in Call : pc[c] \in {"versioned", "getting"} => ver[c] \in Version
    /\ \A c \in Call : pc[c] = "storing" => key[c] \in Version
    /\ \A c \in Call : pc[c] \in {"sharing", "awaiting"} <=> joined[c] # None
    /\ \A c \in Call : joined[c] # None => ProcOf[joined[c]] = ProcOf[c]
    /\ \A c \in Call : pc[c] = "sharing" =>
          pc[joined[c]] \notin {"idle", "written", "applying", "entered", "sharing"}
    /\ \A c \in Call : pc[c] = "awaiting" =>
          pc[joined[c]] \in {"loading", "loaded", "storing", "done", "threw"}
    /\ \A p \in Proc : versionReads[p] # None => ProcOf[versionReads[p]] = p
    /\ \A p \in Proc : \A r \in inflight[p] : ProcOf[r] = p

TypeInv ==
    /\ TypeOK
    /\ Budget
    /\ \A p \in Proc : \A a \in Back(p) : AnswerOK(a)
    /\ PlaceInv

\* What is cached under version v, or is about to be, is not older than x.
Fresh(v, x) ==
    /\ values[v] # NoValue => values[v] >= x
    /\ \A r \in Call : pc[r] \in {"loaded", "storing"} /\ key[r] = v => value[r] >= x

FreshInv ==
    /\ version \in {NoVersion, lastVersion}
    /\ renewed <= db
    /\ \A v \in Version : v > lastVersion => values[v] = NoValue
    /\ \A c \in Call : ver[c] <= lastVersion /\ key[c] <= lastVersion
    /\ \A p \in Proc : \A a \in Back(p) :
          pc[a.to] \in {"applying", "reading", "taking"} => a.gets <= lastVersion
    /\ Fresh(lastVersion, renewed)

\* The runs of p that a read of p may join.
Shared(p) == {r \in Call : versionReads[p] = r \/ r \in inflight[p]}

JoinInv ==
    /\ \A p \in Proc : \A r \in Shared(p) : \A i \in Invalidator :
          ProcOf[i] = p /\ Called(i) => i \in known[r]
    /\ \A c \in Call : known[c] \subseteq CallsSoFar
    /\ \A c \in Call : \A i \in past[c] : Ended(i)
    /\ \A c \in Call : pc[c] \in {"reading", "taking"} => past[c] \subseteq known[c]
    /\ NoStaleJoin

\* The fresh version of each invalidation of p was set.
AllApplied(p) == \A i \in Invalidator : ProcOf[i] = p /\ Called(i) => value[i] <= renewed

AppliedInv ==
    /\ \A i \in Invalidator : value[i] <= db
    /\ \A p \in Proc : missed[p] \/ AllApplied(p)
    /\ \A p \in Proc : \A a \in Back(p) : pc[a.to] = "applying" => AllApplied(p)

\* A version read of r that is under way, or gave a version, gives one under
\* which nothing is older than x.
ReadsSince(r, x) ==
    IF pc[r] \in {"reading", "taking"}
    THEN /\ x <= renewed
         /\ \A a \in Back(ProcOf[r]) : a.to = r /\ a.gets # NoVersion => Fresh(a.gets, x)
    ELSE ver[r] # NoVersion => Fresh(ver[r], x)

\* What a run knew to be called when it started, it reads.
RunInv ==
    \A r \in Call : \A i \in known[r] : ProcOf[i] = ProcOf[r] =>
        /\ pc[r] \in {"reading", "taking"} => ReadsSince(r, value[i])
        /\ pc[r] \in {"loaded", "storing"} => value[r] >= value[i]

OwnInv ==
    \A c \in Reader : \A i \in past[c] : ProcOf[i] = ProcOf[c] =>
        /\ pc[c] \in {"versioned", "getting"} => Fresh(ver[c], value[i])
        /\ pc[c] = "sharing" => ReadsSince(joined[c], value[i])
        /\ pc[c] = "getting" => \A a \in Back(ProcOf[c]) :
              a.to = c /\ a.gets # NoValue => a.gets >= value[i]
        /\ pc[c] \in {"loaded", "storing", "done"} => value[c] >= value[i]
        /\ pc[c] = "awaiting" /\ pc[joined[c]] \in {"loaded", "storing", "done"} =>
              value[joined[c]] >= value[i]

-----------------------------------------------------------------------------
(* The connections *)

\* What is in a queue of distinct members when one is added or the first is taken.
LEMMA AppendFacts ==
    ASSUME NEW S, NEW s \in Seq(S), NEW e \in S
    PROVE  /\ Append(s, e) \in Seq(S)
           /\ Append(s, e) # <<>>
           /\ \A i \in 1..Len(Append(s, e)) :
                 \/ i \in 1..Len(s) /\ Append(s, e)[i] = s[i]
                 \/ i = Len(s) + 1 /\ Append(s, e)[i] = e
<1>1. /\ Append(s, e) \in Seq(S)
      /\ Len(Append(s, e)) = Len(s) + 1
      /\ \A i \in 1..Len(s) : Append(s, e)[i] = s[i]
      /\ Append(s, e)[Len(s) + 1] = e
      /\ Append(s, e) # <<>>
  BY AppendProperties
<1>2. Len(s) \in Nat
  BY LenProperties
<1> QED
  BY <1>1, <1>2

LEMMA TailFacts ==
    ASSUME NEW S, NEW s \in Seq(S), s # <<>>
    PROVE  /\ Tail(s) \in Seq(S)
           /\ 1 \in 1..Len(s) /\ Head(s) = s[1] /\ Head(s) \in S
           /\ \A i \in 1..Len(Tail(s)) :
                 i \in Nat /\ i + 1 \in 1..Len(s) /\ i + 1 # 1 /\ Tail(s)[i] = s[i + 1]
<1>1. /\ Tail(s) \in Seq(S) /\ Head(s) \in S
      /\ Len(Tail(s)) = Len(s) - 1
      /\ \A i \in 1..Len(Tail(s)) : Tail(s)[i] = s[i + 1]
  BY HeadTailProperties
<1>2. Len(s) \in Nat \ {0}
  BY EmptySeq
<1>3. Head(s) = s[1]
  OBVIOUS
<1> QED
  BY <1>1, <1>2, <1>3

Answer == [to : Call, gets : Version \cup Value \cup {NoVersion, NoValue}]

LEMMA QueueTypes ==
    ASSUME TypeOK, NEW p \in Proc
    PROVE  /\ transit[p] \in Seq(Call) /\ Out(p) \subseteq Call
           /\ answered[p] \in Seq(Answer) /\ Back(p) \subseteq Answer
<1>1. transit[p] \in Seq(Call) /\ answered[p] \in Seq(Answer)
  BY DEF TypeOK, Answer
<1> QED
  BY <1>1, ElementOfSeq DEF Out, Back

\* How a call moves: with no command out, with one sent, with an answer, with both,
\* or with the failure of its command.
Quiet(c) == pc[c] \notin Waiting /\ (\E s \in States \ Waiting : Goto(c, s)) /\ UNCHANGED link
Sends(c) == pc[c] \notin Waiting /\ (\E s \in Waiting : Send(c, s)) /\ UNCHANGED <<up, answered, failed>>
Gets(c) ==
    /\ pc[c] \in Waiting
    /\ answered[ProcOf[c]] # <<>> /\ Head(answered[ProcOf[c]]).to = c
    /\ answered' = [answered EXCEPT ![ProcOf[c]] = Tail(@)]
    /\ UNCHANGED <<up, failed>>
Receives(c) == Gets(c) /\ (\E s \in States \ Waiting : Goto(c, s)) /\ UNCHANGED transit
AsksAgain(c) == Gets(c) /\ Send(c, "taking")
Loses(c) ==
    /\ c \in failed /\ failed' = failed \ {c}
    /\ \E s \in States \ Waiting : Goto(c, s)
    /\ UNCHANGED <<up, transit, answered>>
CallStep(c) == WriteData(c) \/ StartRead(c) \/ Proceed(c)
Moves(c) == Quiet(c) \/ Sends(c) \/ Receives(c) \/ AsksAgain(c) \/ Loses(c)

LEMMA CallMoves ==
    ASSUME TypeOK, NEW c \in Call, CallStep(c)
    PROVE  Moves(c)
<1> USE DEF Goto, Moves, States, Waiting, link
<1>1. CASE WriteData(c) \/ StartRead(c) \/ Invalidate(c)
  BY <1>1, SMTT(30) DEF WriteData, StartRead, Invalidate, Quiet, Sends, Send
<1>2. CASE Applied(c) \/ NotApplied(c)
  BY <1>2 DEF Applied, NotApplied, AfterApply, Arrives, Fails, Receives, Gets, Loses
<1>3. CASE Bypass(c) \/ JoinVersionRead(c) \/ ReadVersion(c)
  BY <1>3 DEF Bypass, JoinVersionRead, ReadVersion, FallBack, Quiet, Sends, Send
<1>4. CASE GotVersion(c) \/ VersionFailed(c)
  BY <1>4 DEF GotVersion, VersionFailed, FallBack, Arrives, Fails, Receives, Gets, Loses
<1>5. CASE VersionMissing(c)
  BY <1>5 DEF VersionMissing, Arrives, AsksAgain, Gets, Send
<1>6. CASE VersionShared(c) \/ GetValue(c)
  BY <1>6 DEF VersionShared, GetValue, FallBack, Quiet, Sends, Send
<1>7. CASE Hit(c) \/ Miss(c) \/ GetFailed(c)
  BY <1>7 DEF Hit, Miss, GetFailed, FallBack, Arrives, Fails, Receives, Gets, Loses
<1>8. CASE JoinLoad(c) \/ StartLoad(c) \/ Load(c) \/ LoadFails(c) \/ Return(c)
  BY <1>8 DEF JoinLoad, StartLoad, Load, LoadFails, Return, Quiet
<1>9. CASE Store(c)
  BY <1>9 DEF Store, Sends, Send
<1>10. CASE Stored(c)
  BY <1>10 DEF Stored, Arrives, Fails, Receives, Gets, Loses
<1>11. CASE LoadShared(c)
  BY <1>11 DEF LoadShared, Ended, Quiet
<1> QED
  BY <1>1, <1>2, <1>3, <1>4, <1>5, <1>6, <1>7, <1>8, <1>9, <1>10, <1>11 DEF CallStep, Proceed

\* What the moves of a call leave of the commands and the answers that are out.
LEMMA CallLink ==
    ASSUME TypeOK, LinkInv, NEW c \in Call, Moves(c)
    PROVE  /\ LinkInv'
           /\ \A p \in Proc : Out(p)' \subseteq Out(p) \cup {c}
           /\ \A p \in Proc : \A a \in Back(p)' : a \in Back(p) /\ a.to # c
           /\ \E s \in States : pc' = [pc EXCEPT ![c] = s]
<1> DEFINE q == ProcOf[c]
<1>0. q \in Proc
  BY CacheServiceAssumption DEF CacheServiceAssumption
<1>1. PICK s \in States : pc' = [pc EXCEPT ![c] = s] /\ (s \in Waiting <=> Sends(c) \/ AsksAgain(c))
  BY DEF Moves, Quiet, Sends, Receives, AsksAgain, Gets, Loses, Send, Goto, States, Waiting, TypeOK
<1>2. pc'[c] = s /\ \A d \in Call \ {c} : pc'[d] = pc[d]
  BY <1>1 DEF TypeOK
\* Nothing of c is left in a queue but its answer, where it takes one.
<1>3. \A p \in Proc : c \notin Out(p)
  <2> SUFFICES ASSUME NEW p \in Proc, c \in Out(p) PROVE FALSE
    OBVIOUS
  <2>1. p = q /\ pc[c] \in Waiting /\ \A a \in Back(p) : a.to # c
    BY DEF LinkInv
  <2>2. CASE Gets(c)
    <3>1. answered[q] \in Seq(Answer)
      BY <1>0, QueueTypes
    <3>2. Head(answered[q]) \in Back(q)
      BY <2>2, <3>1, TailFacts DEF Gets, Back
    <3> QED
      BY <2>1, <2>2, <3>2 DEF Gets
  <2>3. CASE c \in failed
    <3>1. transit[q] = <<>>
      BY <1>0, <2>3 DEF LinkInv
    <3> QED
      BY <2>1, <3>1 DEF Out
  <2> QED
    BY <2>1, <2>2, <2>3 DEF Moves, Quiet, Sends, Receives, AsksAgain, Loses
<1>4. /\ \A p \in Proc : \A a \in Back(p)' : a \in Back(p) /\ a.to # c
      /\ \A p \in Proc : \A i, j \in 1..Len(answered'[p]) :
            answered'[p][i].to = answered'[p][j].to => i = j
  <2>1. CASE answered' = answered /\ pc[c] \notin Waiting
    BY <2>1 DEF LinkInv, Back
  <2>2. CASE answered' = answered /\ c \in failed
    <3>1. answered[q] = <<>>
      BY <1>0, <2>2 DEF LinkInv
    <3> QED
      BY <2>2, <3>1 DEF LinkInv, Back
  <2>3. CASE Gets(c)
    <3>1. /\ answered[q] \in Seq(Answer)
          /\ answered' = [answered EXCEPT ![q] = Tail(@)]
          /\ answered[q] # <<>> /\ Head(answered[q]).to = c
      BY <1>0, <2>3, QueueTypes DEF Gets
    <3>2. answered'[q] = Tail(answered[q]) /\ \A p \in Proc \ {q} : answered'[p] = answered[p]
      BY <1>0, <3>1 DEF TypeOK
    <3>3. /\ 1 \in 1..Len(answered[q]) /\ answered[q][1].to = c
          /\ \A i \in 1..Len(answered'[q]) :
                /\ i \in Nat /\ i + 1 \in 1..Len(answered[q]) /\ i + 1 # 1
                /\ answered'[q][i] = answered[q][i + 1]
      <4> DEFINE old == answered[q]
                 new == answered'[q]
      <4> HIDE DEF old, new
      <4>1. old \in Seq(Answer) /\ old # <<>> /\ new = Tail(old) /\ Head(old).to = c
        BY <3>1, <3>2 DEF old, new
      <4>2. /\ 1 \in 1..Len(old) /\ old[1].to = c
            /\ \A i \in 1..Len(new) :
                  i \in Nat /\ i + 1 \in 1..Len(old) /\ i + 1 # 1 /\ new[i] = old[i + 1]
        BY <4>1, TailFacts
      <4> QED
        BY <4>2 DEF old, new
    <3>4. \A i \in 1..Len(answered[q]) : answered[q][i].to = c => i = 1
      BY <1>0, <3>3 DEF LinkInv
    <3>5. \A i \in 1..Len(answered'[q]) : answered'[q][i] \in Back(q) /\ answered'[q][i].to # c
      BY <3>3, <3>4 DEF Back
    <3>6. \A p \in Proc \ {q} : \A a \in Back(p) : a.to # c
      BY DEF LinkInv
    <3>7. \A i, j \in 1..Len(answered'[q]) : answered'[q][i].to = answered'[q][j].to => i = j
      <4> SUFFICES ASSUME NEW i \in 1..Len(answered'[q]), NEW j \in 1..Len(answered'[q]),
                          answered'[q][i].to = answered'[q][j].to
                   PROVE  i = j
        OBVIOUS
      <4>1. answered[q][i + 1].to = answered[q][j + 1].to
            /\ i + 1 \in 1..Len(answered[q]) /\ j + 1 \in 1..Len(answered[q])
            /\ i \in Nat /\ j \in Nat
        BY <3>3
      <4>2. i + 1 = j + 1
        BY <1>0, <4>1 DEF LinkInv
      <4> QED
        BY <4>1, <4>2
    <3>8. \A p \in Proc : \A a \in Back(p)' : a \in Back(p) /\ a.to # c
      <4>1. \A p \in Proc \ {q} : Back(p)' = Back(p)
        BY <3>2 DEF Back
      <4>2. \A a \in Back(q)' : a \in Back(q) /\ a.to # c
        BY <3>5 DEF Back
      <4> QED
        BY <3>6, <4>1, <4>2
    <3> QED
      BY <3>2, <3>7, <3>8 DEF LinkInv
  <2> QED
    BY <2>1, <2>2, <2>3 DEF Moves, Quiet, Sends, Receives, AsksAgain, Loses, link
<1>5. /\ \A p \in Proc : Out(p)' \subseteq Out(p) \cup {c}
      /\ \A p \in Proc : c \in Out(p)' => p = q /\ s \in Waiting /\ up[q]
      /\ \A p \in Proc : \A i, j \in 1..Len(transit'[p]) :
            transit'[p][i] = transit'[p][j] => i = j
      /\ \A p \in Proc : transit'[p] = <<>> \/ transit'[p] = transit[p] \/ up[p]
  <2>1. CASE UNCHANGED transit
    BY <1>3, <2>1 DEF Out, LinkInv
  <2>2. CASE up[q] /\ transit' = [transit EXCEPT ![q] = Append(@, c)] /\ s \in Waiting
    <3>1. transit'[q] = Append(transit[q], c) /\ \A p \in Proc \ {q} : transit'[p] = transit[p]
      BY <1>0, <2>2 DEF TypeOK
    <3>2. transit[q] \in Seq(Call)
      BY <1>0, QueueTypes
    <3>3. \A i \in 1..Len(transit'[q]) :
              \/ i \in 1..Len(transit[q]) /\ transit'[q][i] = transit[q][i]
              \/ i = Len(transit[q]) + 1 /\ transit'[q][i] = c
      BY <3>1, <3>2, AppendFacts
    <3>4. \A i \in 1..Len(transit[q]) : transit[q][i] # c
      BY <1>0, <1>3 DEF Out
    <3>5. \A i, j \in 1..Len(transit'[q]) : transit'[q][i] = transit'[q][j] => i = j
      BY <1>0, <3>3, <3>4 DEF LinkInv
    <3>6. \A p \in Proc : \A i, j \in 1..Len(transit'[p]) :
              transit'[p][i] = transit'[p][j] => i = j
      BY <3>1, <3>5 DEF LinkInv
    <3>7. Out(q)' \subseteq Out(q) \cup {c} /\ \A p \in Proc \ {q} : Out(p)' = Out(p)
      BY <3>1, <3>3 DEF Out
    <3> QED
      BY <1>3, <2>2, <3>1, <3>6, <3>7
  <2>3. Sends(c) \/ AsksAgain(c) => s \in Waiting
    BY <1>1
  <2> QED
    BY <2>1, <2>2, <2>3 DEF Moves, Quiet, Sends, Receives, AsksAgain, Loses, link, Send
<1>6. /\ up' = up
      /\ \A d \in failed' : d \in failed /\ d # c
      /\ \A p \in Proc : answered[p] = <<>> => answered'[p] = <<>>
  <2>1. pc[c] \notin Waiting => c \notin failed
    BY DEF LinkInv
  <2>2. Gets(c) => up[q]
    BY <1>0 DEF Gets, LinkInv
  <2>3. Gets(c) => c \notin failed
    BY <2>2 DEF LinkInv
  <2>4. Gets(c) => \A p \in Proc : answered[p] = <<>> => answered'[p] = <<>>
    BY <1>0 DEF Gets, TypeOK
  <2> QED
    BY <2>1, <2>3, <2>4 DEF Moves, Quiet, Sends, Receives, AsksAgain, Loses, link, Send, Gets
<1>7. LinkInv'
  <2>1. \A p \in Proc : \A d \in Out(p)' : ProcOf[d] = p /\ pc'[d] \in Waiting
    <3> SUFFICES ASSUME NEW p \in Proc, NEW d \in Out(p)' PROVE ProcOf[d] = p /\ pc'[d] \in Waiting
      OBVIOUS
    <3>1. CASE d = c
      BY <1>2, <1>5, <3>1
    <3>2. CASE d # c
      <4>1. d \in Out(p)
        BY <1>5, <3>2
      <4>2. d \in Call
        BY <4>1, QueueTypes
      <4> QED
        BY <1>2, <3>2, <4>1, <4>2 DEF LinkInv
    <3> QED
      BY <3>1, <3>2
  <2>2. \A p \in Proc : \A a \in Back(p)' :
            ProcOf[a.to] = p /\ pc'[a.to] \in Waiting /\ a.to \notin Out(p)'
    <3> SUFFICES ASSUME NEW p \in Proc, NEW a \in Back(p)'
                 PROVE  ProcOf[a.to] = p /\ pc'[a.to] \in Waiting /\ a.to \notin Out(p)'
      OBVIOUS
    <3>1. a \in Back(p) /\ a.to # c
      BY <1>4
    <3>2. a.to \in Call
      BY <3>1, QueueTypes DEF Answer
    <3> QED
      BY <1>2, <1>5, <3>1, <3>2 DEF LinkInv
  <2>3. \A d \in failed' : pc'[d] \in Waiting /\ ~up'[ProcOf[d]]
    BY <1>2, <1>6 DEF LinkInv, TypeOK
  <2>4. \A p \in Proc : ~up'[p] => transit'[p] = <<>> /\ answered'[p] = <<>>
    BY <1>5, <1>6 DEF LinkInv
  <2> QED
    BY <1>4, <1>5, <2>1, <2>2, <2>3, <2>4 DEF LinkInv
<1> QED
  BY <1>1, <1>4, <1>5, <1>7

\* What the provider does to execute the command of c, and its answer x.
Runs(c, x) ==
    \/ /\ pc[c] \in {"applying", "taking"} /\ x = lastVersion + 1
       /\ TakeVersion
       /\ UNCHANGED values
    \/ pc[c] = "reading" /\ x = version /\ UNCHANGED provider
    \/ pc[c] = "getting" /\ x = values[ver[c]] /\ UNCHANGED provider
    \/ /\ pc[c] = "storing" /\ x = NoValue
       /\ values' = [values EXCEPT ![key[c]] = value[c]]
       /\ UNCHANGED <<version, lastVersion, renewed>>

LEMMA ExecuteRuns ==
    ASSUME TypeOK, NEW p \in Proc, Execute(p)
    PROVE  /\ transit[p] # <<>> /\ Head(transit[p]) \in Call
           /\ transit' = [transit EXCEPT ![p] = Tail(@)]
           /\ \E x : /\ Runs(Head(transit[p]), x)
                     /\ answered' = [answered EXCEPT
                           ![p] = Append(@, [to |-> Head(transit[p]), gets |-> x])]
           /\ UNCHANGED <<db, up, failed, local, pc, call, history>>
<1>1. Head(transit[p]) \in Call
  BY QueueTypes, TailFacts DEF Execute
<1> DEFINE c == Head(transit[p])
<1>2. \E x : Runs(c, x) /\ answered' = [answered EXCEPT ![p] = Append(@, [to |-> c, gets |-> x])]
  <2>1. CASE pc[c] \in {"applying", "taking"}
    BY <2>1 DEF Execute, Runs
  <2>2. CASE pc[c] = "reading"
    BY <2>2 DEF Execute, Runs
  <2>3. CASE pc[c] = "getting"
    BY <2>3 DEF Execute, Runs
  <2>4. CASE pc[c] = "storing"
    BY <2>4 DEF Execute, Runs
  <2> QED
    BY <2>1, <2>2, <2>3, <2>4 DEF Execute
<1> QED
  BY <1>1, <1>2 DEF Execute

LEMMA ExecuteLink ==
    ASSUME TypeOK, LinkInv, NEW p \in Proc, NEW c \in Call, NEW x,
           c = Head(transit[p]), transit[p] # <<>>,
           transit' = [transit EXCEPT ![p] = Tail(@)],
           [to |-> c, gets |-> x] \in Answer,
           answered' = [answered EXCEPT ![p] = Append(@, [to |-> c, gets |-> x])],
           UNCHANGED <<up, failed, pc>>
    PROVE  /\ LinkInv'
           /\ c \in Out(p) /\ ProcOf[c] = p /\ c \notin Out(p)'
           /\ \A q \in Proc : Out(q)' \subseteq Out(q)
           /\ \A q \in Proc : \A a \in Back(q)' : a \in Back(q) \/ a = [to |-> c, gets |-> x]
<1>1. /\ transit'[p] = Tail(transit[p])
      /\ \A q \in Proc \ {p} : transit'[q] = transit[q]
      /\ answered'[p] = Append(answered[p], [to |-> c, gets |-> x])
      /\ \A q \in Proc \ {p} : answered'[q] = answered[q]
  BY DEF TypeOK
<1>2. /\ transit[p] \in Seq(Call) /\ Out(p) \subseteq Call
      /\ answered[p] \in Seq(Answer) /\ Back(p) \subseteq Answer
  BY QueueTypes
<1>3. /\ 1 \in 1..Len(transit[p]) /\ c = transit[p][1]
      /\ \A i \in 1..Len(transit'[p]) :
            /\ i \in Nat /\ i + 1 \in 1..Len(transit[p]) /\ i + 1 # 1
            /\ transit'[p][i] = transit[p][i + 1]
  <2> DEFINE old == transit[p]
             new == transit'[p]
  <2> HIDE DEF old, new
  <2>1. old \in Seq(Call) /\ old # <<>> /\ new = Tail(old) /\ c = Head(old)
    BY <1>1, <1>2 DEF old, new
  <2>2. /\ 1 \in 1..Len(old) /\ c = old[1]
        /\ \A i \in 1..Len(new) :
              i \in Nat /\ i + 1 \in 1..Len(old) /\ i + 1 # 1 /\ new[i] = old[i + 1]
    BY <2>1, TailFacts
  <2> QED
    BY <2>2 DEF old, new
<1>4. c \in Out(p)
  BY <1>3 DEF Out
<1>5. ProcOf[c] = p /\ pc[c] \in Waiting /\ \A a \in Back(p) : a.to # c
  BY <1>4 DEF LinkInv
<1>6. \A i \in 1..Len(transit'[p]) : transit'[p][i] \in Out(p) /\ transit'[p][i] # c
  <2> SUFFICES ASSUME NEW i \in 1..Len(transit'[p]) PROVE transit'[p][i] \in Out(p) /\ transit'[p][i] # c
    OBVIOUS
  <2>1. i + 1 \in 1..Len(transit[p]) /\ i + 1 # 1 /\ transit'[p][i] = transit[p][i + 1]
    BY <1>3
  <2>2. transit[p][i + 1] # transit[p][1]
    BY <1>3, <2>1 DEF LinkInv
  <2> QED
    BY <1>3, <2>1, <2>2 DEF Out
<1>7. c \notin Out(p)' /\ \A q \in Proc : Out(q)' \subseteq Out(q)
  <2>1. \A q \in Proc \ {p} : Out(q)' = Out(q)
    BY <1>1 DEF Out
  <2>2. c \notin Out(p)' /\ Out(p)' \subseteq Out(p)
    BY <1>6 DEF Out
  <2> QED
    BY <2>1, <2>2
<1>8. \A i, j \in 1..Len(transit'[p]) : transit'[p][i] = transit'[p][j] => i = j
  <2> SUFFICES ASSUME NEW i \in 1..Len(transit'[p]), NEW j \in 1..Len(transit'[p]),
                      transit'[p][i] = transit'[p][j]
               PROVE  i = j
    OBVIOUS
  <2>1. /\ transit[p][i + 1] = transit[p][j + 1]
        /\ i + 1 \in 1..Len(transit[p]) /\ j + 1 \in 1..Len(transit[p])
        /\ i \in Nat /\ j \in Nat
    BY <1>3
  <2>2. i + 1 = j + 1
    BY <2>1 DEF LinkInv
  <2> QED
    BY <2>1, <2>2
<1>9. \A i \in 1..Len(answered'[p]) :
          \/ i \in 1..Len(answered[p]) /\ answered'[p][i] = answered[p][i]
          \/ i = Len(answered[p]) + 1 /\ answered'[p][i] = [to |-> c, gets |-> x]
  BY <1>1, <1>2, AppendFacts
<1>10. \A q \in Proc : \A a \in Back(q)' : a \in Back(q) \/ a = [to |-> c, gets |-> x]
  <2>1. \A q \in Proc \ {p} : Back(q)' = Back(q)
    BY <1>1 DEF Back
  <2>2. \A a \in Back(p)' : a \in Back(p) \/ a = [to |-> c, gets |-> x]
    BY <1>9 DEF Back
  <2> QED
    BY <2>1, <2>2
<1>11. \A i, j \in 1..Len(answered'[p]) : answered'[p][i].to = answered'[p][j].to => i = j
  <2>1. \A i \in 1..Len(answered[p]) : answered[p][i].to # c
    BY <1>5 DEF Back
  <2> QED
    BY <1>9, <2>1 DEF LinkInv
<1>12. \A q \in Proc : \A a \in Back(q)' :
           ProcOf[a.to] = q /\ pc'[a.to] \in Waiting /\ a.to \notin Out(q)'
  <2> SUFFICES ASSUME NEW q \in Proc, NEW a \in Back(q)'
               PROVE  ProcOf[a.to] = q /\ pc'[a.to] \in Waiting /\ a.to \notin Out(q)'
    OBVIOUS
  <2>1. CASE a \in Back(q)
    BY <1>7, <2>1 DEF LinkInv
  <2>2. CASE a \notin Back(q)
    <3>1. a = [to |-> c, gets |-> x]
      BY <1>10, <2>2
    <3>2. q = p
      BY <1>1, <2>2 DEF Back
    <3> QED
      BY <1>5, <1>7, <3>1, <3>2
  <2> QED
    BY <2>1, <2>2
<1>13. up[p]
  BY DEF LinkInv
<1>14. LinkInv'
  <2>1. \A q \in Proc : \A i, j \in 1..Len(transit'[q]) : transit'[q][i] = transit'[q][j] => i = j
    BY <1>1, <1>8 DEF LinkInv
  <2>2. \A q \in Proc : \A i, j \in 1..Len(answered'[q]) :
            answered'[q][i].to = answered'[q][j].to => i = j
    BY <1>1, <1>11 DEF LinkInv
  <2>3. \A q \in Proc : \A d \in Out(q)' : ProcOf[d] = q /\ pc'[d] \in Waiting
    BY <1>7 DEF LinkInv
  <2>4. \A q \in Proc : ~up'[q] => transit'[q] = <<>> /\ answered'[q] = <<>>
    BY <1>1, <1>13 DEF LinkInv
  <2>5. \A d \in failed' : pc'[d] \in Waiting /\ ~up'[ProcOf[d]]
    BY DEF LinkInv
  <2> QED
    BY <1>12, <2>1, <2>2, <2>3, <2>4, <2>5 DEF LinkInv
<1> QED
  BY <1>4, <1>5, <1>7, <1>10, <1>14

LEMMA DropLink ==
    ASSUME TypeOK, LinkInv, NEW p \in Proc, Drop(p) \/ Reconnect(p)
    PROVE  /\ LinkInv'
           /\ \A q \in Proc : Out(q)' \subseteq Out(q) /\ Back(q)' \subseteq Back(q)
<1>1. CASE Drop(p)
  <2>1. /\ transit'[p] = <<>> /\ answered'[p] = <<>> /\ ~up'[p]
        /\ \A q \in Proc \ {p} : /\ transit'[q] = transit[q] /\ answered'[q] = answered[q]
                                 /\ up'[q] = up[q]
    BY <1>1 DEF Drop, TypeOK
  <2>2. \A q \in Proc \ {p} : Out(q)' = Out(q) /\ Back(q)' = Back(q)
    BY <2>1 DEF Out, Back
  <2>3. Out(p)' = {} /\ Back(p)' = {}
    BY <2>1 DEF Out, Back
  <2>4. pc' = pc /\ \A d \in failed' : d \in failed \/ (ProcOf[d] = p /\ pc[d] \in Waiting)
    BY <1>1 DEF Drop, InFlight, Waiting
  <2>5. \A d \in failed' : pc'[d] \in Waiting /\ ~up'[ProcOf[d]]
    BY <1>1, <2>1, <2>4 DEF LinkInv, Drop, TypeOK
  <2>6. /\ \A q \in Proc : \A i, j \in 1..Len(transit'[q]) : transit'[q][i] = transit'[q][j] => i = j
        /\ \A q \in Proc : \A i, j \in 1..Len(answered'[q]) :
              answered'[q][i].to = answered'[q][j].to => i = j
        /\ \A q \in Proc : ~up'[q] => transit'[q] = <<>> /\ answered'[q] = <<>>
    BY <2>1 DEF LinkInv
  <2> QED
    BY <2>2, <2>3, <2>4, <2>5, <2>6 DEF LinkInv
<1>2. CASE Reconnect(p)
  <2>1. /\ UNCHANGED <<transit, answered, failed, pc>>
        /\ up' = [up EXCEPT ![p] = TRUE]
    BY <1>2 DEF Reconnect
  <2>2. \A d \in failed : ProcOf[d] # p
    BY <1>2 DEF Reconnect, InFlight, LinkInv, TypeOK, Waiting
  <2>3. \A q \in Proc : ~up'[q] => ~up[q]
    BY <2>1 DEF TypeOK
  <2>4. \A d \in failed' : pc'[d] \in Waiting /\ ~up'[ProcOf[d]]
    BY <2>1, <2>2 DEF LinkInv, TypeOK
  <2>5. \A q \in Proc : Out(q)' = Out(q) /\ Back(q)' = Back(q)
    BY <2>1 DEF Out, Back
  <2> QED
    BY <2>1, <2>3, <2>4, <2>5 DEF LinkInv
<1> QED
  BY <1>1, <1>2

-----------------------------------------------------------------------------
(* Types *)

LEMMA CallsFinite ==
    /\ IsFiniteSet(Call) /\ Cardinality(Call) \in Nat
    /\ IsFiniteSet(Invalidator) /\ Cardinality(Invalidator) \in Nat
    /\ ProcOf \in [Call -> Proc] /\ None \notin Call
    /\ 1 \in Version /\ 1 \in Value
<1>1. IsFiniteSet(Call) /\ ProcOf \in [Call -> Proc] /\ None \notin Call
  BY CacheServiceAssumption DEF CacheServiceAssumption, None
<1>2. Invalidator \in SUBSET Call
  BY DEF Call
<1>3. Cardinality(Call) \in Nat /\ IsFiniteSet(Invalidator) /\ Cardinality(Invalidator) \in Nat
  BY <1>1, <1>2, FS_Subset, FS_CardinalityType
<1> QED
  BY <1>1, <1>3 DEF Version, Value

\* A part of the calls is not larger; without a call it is smaller.
LEMMA SmallerPart ==
    ASSUME NEW S \in SUBSET Call, NEW T \in SUBSET S
    PROVE  /\ Cardinality(S) \in Nat /\ Cardinality(T) \in Nat /\ Cardinality(T) <= Cardinality(S)
           /\ \A c \in S \ T : Cardinality(T) + 1 <= Cardinality(S)
<1>1. IsFiniteSet(S)
  BY CallsFinite, FS_Subset
<1>2. IsFiniteSet(T) /\ Cardinality(T) <= Cardinality(S)
  BY <1>1, FS_Subset
<1>3. Cardinality(S) \in Nat /\ Cardinality(T) \in Nat
  BY <1>1, <1>2, FS_CardinalityType
<1>4. ASSUME NEW c \in S \ T PROVE Cardinality(T) + 1 <= Cardinality(S)
  <2>1. Cardinality(S) # Cardinality(T)
    BY <1>1, <1>4, FS_Subset
  <2> QED
    BY <1>2, <1>3, <2>1
<1> QED
  BY <1>2, <1>3, <1>4

\* A call goes through its states in order.
LEMMA CallOrder ==
    ASSUME TypeOK, NEW c \in Call, CallStep(c)
    PROVE  /\ \A d \in Call \ {c} : pc'[d] = pc[d]
           /\ pc'[c] # "idle" /\ ~Ended(c)
           /\ pc'[c] = "written" => pc[c] = "idle"
           /\ pc'[c] = "applying" => pc[c] \in {"idle", "written"}
           /\ pc'[c] = "entered" => pc[c] \in {"idle", "applying"}
           /\ pc'[c] = "reading" => pc[c] = "entered"
           /\ pc'[c] = "taking" => pc[c] = "reading"
           /\ pc'[c] = "sharing" => pc[c] = "entered"
           /\ pc[c] \in {"loading", "loaded", "storing", "done", "threw"} =>
                 pc'[c] \in {"loaded", "storing", "done", "threw"}
<1> USE DEF Goto, TypeOK, Ended
<1>1. CASE WriteData(c) \/ StartRead(c) \/ Invalidate(c)
  BY <1>1 DEF WriteData, StartRead, Invalidate, Send
<1>2. CASE Applied(c) \/ NotApplied(c)
  BY <1>2 DEF Applied, NotApplied, AfterApply, Arrives, Fails
<1>3. CASE Bypass(c) \/ JoinVersionRead(c) \/ ReadVersion(c)
  BY <1>3 DEF Bypass, JoinVersionRead, ReadVersion, FallBack, Send
<1>4. CASE GotVersion(c) \/ VersionFailed(c)
  BY <1>4 DEF GotVersion, VersionFailed, FallBack, Arrives, Fails
<1>5. CASE VersionMissing(c)
  BY <1>5 DEF VersionMissing, Arrives, Send
<1>6. CASE VersionShared(c) \/ GetValue(c)
  BY <1>6 DEF VersionShared, GetValue, FallBack, Send
<1>7. CASE Hit(c) \/ Miss(c) \/ GetFailed(c)
  BY <1>7 DEF Hit, Miss, GetFailed, FallBack, Arrives, Fails
<1>8. CASE JoinLoad(c) \/ StartLoad(c) \/ Load(c) \/ LoadFails(c) \/ Return(c)
  BY <1>8 DEF JoinLoad, StartLoad, Load, LoadFails, Return
<1>9. CASE Store(c) \/ Stored(c)
  BY <1>9 DEF Store, Stored, Send, Arrives, Fails
<1>10. CASE LoadShared(c)
  BY <1>10 DEF LoadShared, Ended
<1> QED
  BY <1>1, <1>2, <1>3, <1>4, <1>5, <1>6, <1>7, <1>8, <1>9, <1>10 DEF CallStep, Proceed

LEMMA QueuesTyped ==
    ASSUME TypeOK, NEW c \in Call, Moves(c)
    PROVE  /\ transit' \in [Proc -> Seq(Call)] /\ answered' \in [Proc -> Seq(Answer)]
           /\ up' = up /\ failed' \in SUBSET Call /\ pc' \in [Call -> States]
<1>0. ProcOf[c] \in Proc
  BY CallsFinite
<1>1. transit' \in [Proc -> Seq(Call)]
  <2>1. CASE UNCHANGED transit
    BY <2>1 DEF TypeOK
  <2>2. CASE transit' = [transit EXCEPT ![ProcOf[c]] = Append(@, c)]
    <3>1. Append(transit[ProcOf[c]], c) \in Seq(Call)
      BY <1>0, QueueTypes, AppendFacts
    <3> QED
      BY <2>2, <3>1 DEF TypeOK
  <2> QED
    BY <2>1, <2>2 DEF Moves, Quiet, Sends, Receives, AsksAgain, Loses, link, Send
<1>2. answered' \in [Proc -> Seq(Answer)]
  <2>1. CASE UNCHANGED answered
    BY <2>1 DEF TypeOK, Answer
  <2>2. CASE Gets(c)
    <3>1. Tail(answered[ProcOf[c]]) \in Seq(Answer)
      BY <1>0, <2>2, QueueTypes, TailFacts DEF Gets
    <3> QED
      BY <2>2, <3>1 DEF Gets, TypeOK, Answer
  <2> QED
    BY <2>1, <2>2 DEF Moves, Quiet, Sends, Receives, AsksAgain, Loses, link
<1>3. up' = up /\ failed' \in SUBSET Call
  BY DEF TypeOK, Moves, Quiet, Sends, Receives, AsksAgain, Loses, Gets, link
<1>4. PICK s \in States : pc' = [pc EXCEPT ![c] = s]
  BY DEF Moves, Quiet, Sends, Receives, AsksAgain, Loses, Send, Goto, States, Waiting
<1>5. pc' \in [Call -> States]
  BY <1>4 DEF TypeOK
<1> QED
  BY <1>1, <1>2, <1>3, <1>5

\* A call changes nothing at the provider, and nothing of another call.
LEMMA CallFrame ==
    ASSUME TypeOK, NEW c \in Call, CallStep(c)
    PROVE  /\ UNCHANGED provider
           /\ \/ db' = db
              \/ c \in MayWrite /\ db' = db + 1
           /\ \A d \in Call \ {c} : /\ pc'[d] = pc[d] /\ ver'[d] = ver[d] /\ key'[d] = key[d]
                                    /\ value'[d] = value[d] /\ joined'[d] = joined[d]
                                    /\ past'[d] = past[d] /\ known'[d] = known[d]
<1> USE DEF Goto, TypeOK, call, history
<1>1. CASE WriteData(c)
  BY <1>1 DEF WriteData, MayWrite
<1>2. CASE StartRead(c) \/ Invalidate(c)
  BY <1>2 DEF StartRead, Invalidate, Send
<1>3. CASE Applied(c) \/ NotApplied(c)
  BY <1>3 DEF Applied, NotApplied, AfterApply
<1>4. CASE Bypass(c) \/ JoinVersionRead(c) \/ ReadVersion(c)
  BY <1>4 DEF Bypass, JoinVersionRead, ReadVersion, FallBack, Send
<1>5. CASE GotVersion(c) \/ VersionFailed(c)
  BY <1>5 DEF GotVersion, VersionFailed, FallBack
<1>6. CASE VersionMissing(c)
  BY <1>6 DEF VersionMissing, Send
<1>7. CASE VersionShared(c) \/ GetValue(c)
  BY <1>7 DEF VersionShared, GetValue, FallBack, Send
<1>8. CASE Hit(c) \/ Miss(c) \/ GetFailed(c)
  BY <1>8 DEF Hit, Miss, GetFailed, FallBack
<1>9. CASE JoinLoad(c) \/ StartLoad(c) \/ Load(c) \/ LoadFails(c) \/ Return(c)
  BY <1>9 DEF JoinLoad, StartLoad, Load, LoadFails, Return
<1>10. CASE Store(c) \/ Stored(c) \/ LoadShared(c)
  BY <1>10 DEF Store, Stored, LoadShared, Send
<1> QED
  BY <1>1, <1>2, <1>3, <1>4, <1>5, <1>6, <1>7, <1>8, <1>9, <1>10 DEF CallStep, Proceed

LEMMA CallBudget ==
    ASSUME TypeOK, LinkInv, Budget, NEW c \in Call, CallStep(c)
    PROVE  Budget' /\ db' \in Value
<1>1. /\ \A p \in Proc : Out(p)' \subseteq Out(p) \cup {c}
      /\ ProcOf \in [Call -> Proc] /\ Cardinality(Call) \in Nat /\ Cardinality(Invalidator) \in Nat
  BY CallMoves, CallLink, CallsFinite
<1>2. MaySetTwo' \subseteq MaySetTwo /\ MaySetOne' \subseteq MaySetOne
  <2>1. \A d \in Call \ {c} : pc'[d] = pc[d] /\ (d \in Out(ProcOf[d])' => d \in Out(ProcOf[d]))
    BY <1>1, CallOrder
  <2>2. c \in MaySetTwo' => c \in MaySetTwo
    BY CallOrder DEF MaySetTwo
  <2>3. c \in MaySetOne' => c \in MaySetOne
    BY <2>2, CallOrder DEF MaySetOne, MaySetTwo
  <2>4. \A d \in Call \ {c} : d \in MaySetTwo' => d \in MaySetTwo
    BY <2>1 DEF MaySetTwo
  <2>5. \A d \in Call \ {c} : d \in MaySetOne' => d \in MaySetOne
    BY <2>1, <2>4 DEF MaySetOne
  <2>6. MaySetTwo' \subseteq Call /\ MaySetOne' \subseteq Call
    BY DEF MaySetTwo, MaySetOne
  <2> QED
    BY <2>2, <2>3, <2>4, <2>5, <2>6
<1>3. MayWrite' \subseteq MayWrite \ {c}
  BY CallOrder DEF MayWrite, Call
<1>4. MaySetOne \in SUBSET Call /\ MaySetTwo \in SUBSET Call /\ MayWrite \in SUBSET Call
  BY DEF MaySetOne, MaySetTwo, MayWrite, Call
<1>5. /\ Cardinality(MaySetOne') <= Cardinality(MaySetOne)
      /\ Cardinality(MaySetTwo') <= Cardinality(MaySetTwo)
      /\ Cardinality(MaySetOne') \in Nat /\ Cardinality(MaySetOne) \in Nat
      /\ Cardinality(MaySetTwo') \in Nat /\ Cardinality(MaySetTwo) \in Nat
  BY <1>2, <1>4, SmallerPart
<1>6. /\ Cardinality(MayWrite') \in Nat /\ Cardinality(MayWrite) \in Nat
      /\ Cardinality(MayWrite') <= Cardinality(MayWrite)
      /\ c \in MayWrite => Cardinality(MayWrite') + 1 <= Cardinality(MayWrite)
  BY <1>3, <1>4, SmallerPart
<1>7. lastVersion' = lastVersion /\ (db' = db \/ (c \in MayWrite /\ db' = db + 1))
  BY CallFrame DEF provider
<1>8. lastVersion \in Nat /\ db \in Nat \ {0}
  BY DEF TypeOK, Version, Value
<1>9. db' + Cardinality(MayWrite') <= 1 + Cardinality(Invalidator)
  <2> DEFINE m == Cardinality(MayWrite)
             n == Cardinality(MayWrite')
             k == Cardinality(Invalidator)
  <2> HIDE DEF m, n, k
  <2>1. m \in Nat /\ n \in Nat /\ k \in Nat /\ n <= m /\ db + m <= 1 + k /\ db \in Nat
    BY <1>1, <1>6, <1>8 DEF Budget, m, n, k
  <2>2. db' = db \/ (db' = db + 1 /\ n + 1 <= m)
    BY <1>6, <1>7 DEF m, n
  <2>3. db' + n <= 1 + k
    BY <2>1, <2>2
  <2> QED
    BY <2>3 DEF n, k
<1> QED
  BY <1>1, <1>5, <1>6, <1>7, <1>8, <1>9 DEF Budget, Value

\* The types of what a call keeps, and of the maps of its process.
LEMMA CallTypes ==
    ASSUME TypeOK, LinkInv, Budget, PlaceInv, NEW c \in Call, CallStep(c)
    PROVE  TypeOK'
<1> DEFINE Kept ==
             /\ missed \in [Proc -> BOOLEAN]
             /\ ver \in [Call -> Version \cup {NoVersion}]
             /\ key \in [Call -> Version \cup {NoVersion}]
             /\ value \in [Call -> Value]
             /\ joined \in [Call -> Call \cup {None}]
             /\ past \in [Call -> SUBSET Invalidator]
             /\ known \in [Call -> SUBSET Invalidator]
           Maps ==
             /\ versionReads \in [Proc -> Call \cup {None}]
             /\ inflight \in [Proc -> SUBSET Call]
             /\ \A p \in Proc : versionReads[p] # None => pc[versionReads[p]] \in {"reading", "taking"}
             /\ \A p \in Proc : \A d \in inflight[p] : pc[d] \in {"loading", "loaded", "storing"}
<1>0. ProcOf[c] \in Proc /\ None \notin Call
  BY CallsFinite
<1>1. Kept'
  <2>0. Kept
    BY DEF TypeOK
  <2> USE DEF Goto, call, history
  <2>1. CASE WriteData(c)
    <3>1. db + 1 \in Value
      BY <2>1, CallBudget DEF WriteData
    <3> QED
      BY <2>0, <2>1, <3>1 DEF WriteData, local
  <2>2. CASE StartRead(c)
    BY <1>0, <2>0, <2>2 DEF StartRead, local
  <2>3. CASE Invalidate(c)
    BY <1>0, <2>0, <2>3 DEF Invalidate
  <2>4. CASE Applied(c) \/ NotApplied(c)
    BY <1>0, <2>0, <2>4 DEF Applied, NotApplied, local
  <2>5. CASE Bypass(c) \/ JoinVersionRead(c)
    <3>1. versionReads \in [Proc -> Call \cup {None}]
      BY DEF TypeOK
    <3> QED
      BY <1>0, <2>0, <2>5, <3>1 DEF Bypass, JoinVersionRead, FallBack, local
  <2>6. CASE ReadVersion(c)
    BY <1>0, <2>0, <2>6 DEF ReadVersion, CallsSoFar
  <2>7. CASE GotVersion(c) \/ VersionFailed(c)
    BY <1>0, <2>0, <2>7 DEF GotVersion, VersionFailed, FallBack
  <2>8. CASE VersionMissing(c) \/ VersionShared(c)
    BY <1>0, <2>0, <2>8 DEF VersionMissing, VersionShared, FallBack, local, PlaceInv
  <2>9. CASE GetValue(c)
    BY <1>0, <2>0, <2>9 DEF GetValue, FallBack, local
  <2>10. CASE Hit(c)
    BY <1>0, <2>0, <2>10 DEF Hit, local
  <2>11. CASE Miss(c) \/ GetFailed(c)
    BY <1>0, <2>0, <2>11 DEF Miss, GetFailed, FallBack, local
  <2>12. CASE JoinLoad(c)
    <3>1. inflight \in [Proc -> SUBSET Call]
      BY DEF TypeOK
    <3> QED
      BY <1>0, <2>0, <2>12, <3>1 DEF JoinLoad, Loads, local
  <2>13. CASE StartLoad(c) \/ LoadFails(c) \/ Return(c)
    BY <1>0, <2>0, <2>13 DEF StartLoad, LoadFails, Return, CallsSoFar
  <2>14. CASE Load(c) \/ LoadShared(c)
    <3>1. db \in Value
      BY DEF TypeOK
    <3> QED
      BY <1>0, <2>0, <2>14, <3>1 DEF Load, LoadShared, PlaceInv, local
  <2>15. CASE Store(c) \/ Stored(c)
    BY <1>0, <2>0, <2>15 DEF Store, Stored, local
  <2> QED
    BY <2>1, <2>2, <2>3, <2>4, <2>5, <2>6, <2>7, <2>8, <2>9, <2>10, <2>11, <2>12, <2>13, <2>14, <2>15
       DEF CallStep, Proceed
<1>2. Maps'
  <2>0. /\ Maps /\ pc \in [Call -> States]
        /\ \A p \in Proc : versionReads[p] = c => p = ProcOf[c]
        /\ \A p \in Proc : c \in inflight[p] => p = ProcOf[c]
    BY <1>0 DEF TypeOK, PlaceInv
  <2> USE DEF Goto, Send, EndVersionRead, EndLoad, Arrives, Fails
  <2>1. CASE WriteData(c) \/ StartRead(c)
    BY <1>0, <2>0, <2>1 DEF WriteData, StartRead, local
  <2>2. CASE Invalidate(c)
    BY <1>0, <2>0, <2>2 DEF Invalidate
  <2>3. CASE Applied(c) \/ NotApplied(c)
    BY <1>0, <2>0, <2>3 DEF Applied, NotApplied, AfterApply, local
  <2>4. CASE Bypass(c) \/ JoinVersionRead(c)
    BY <1>0, <2>0, <2>4 DEF Bypass, JoinVersionRead, FallBack, local
  <2>5. CASE ReadVersion(c)
    BY <1>0, <2>0, <2>5 DEF ReadVersion
  <2>6. CASE GotVersion(c) \/ VersionFailed(c)
    BY <1>0, <2>0, <2>6 DEF GotVersion, VersionFailed, FallBack
  <2>7. CASE VersionMissing(c) \/ VersionShared(c)
    BY <1>0, <2>0, <2>7 DEF VersionMissing, VersionShared, FallBack, local
  <2>8. CASE GetValue(c) \/ Hit(c) \/ Miss(c) \/ GetFailed(c)
    BY <1>0, <2>0, <2>8 DEF GetValue, Hit, Miss, GetFailed, FallBack, local
  <2>9. CASE JoinLoad(c) \/ Load(c)
    BY <1>0, <2>0, <2>9 DEF JoinLoad, Load, local
  <2>10. CASE StartLoad(c)
    BY <1>0, <2>0, <2>10 DEF StartLoad
  <2>11. CASE LoadFails(c) \/ Return(c) \/ Stored(c)
    BY <1>0, <2>0, <2>11 DEF LoadFails, Return, Stored
  <2>12. CASE Store(c) \/ LoadShared(c)
    BY <1>0, <2>0, <2>12 DEF Store, LoadShared, Ended, local
  <2> QED
    BY <2>1, <2>2, <2>3, <2>4, <2>5, <2>6, <2>7, <2>8, <2>9, <2>10, <2>11, <2>12
       DEF CallStep, Proceed
<1>3. UNCHANGED provider /\ db' \in Value
  BY CallFrame, CallBudget
<1>4. Moves(c)
  BY CallMoves
<1>5. /\ transit' \in [Proc -> Seq(Call)] /\ answered' \in [Proc -> Seq(Answer)]
      /\ up' = up /\ failed' \in SUBSET Call /\ pc' \in [Call -> States]
  BY <1>4, QueuesTyped
<1> QED
  BY <1>1, <1>2, <1>3, <1>5 DEF TypeOK, provider, Answer

\* What a call does to the maps of its process: it enters one when its run starts,
\* and an invalidation empties them.
LEMMA CallMaps ==
    ASSUME TypeOK, NEW c \in Call, CallStep(c)
    PROVE  LET p == ProcOf[c] IN
           /\ \A q \in Proc \ {p} : versionReads'[q] = versionReads[q] /\ inflight'[q] = inflight[q]
           /\ versionReads'[p] \in {versionReads[p], None, c}
           /\ inflight'[p] \subseteq inflight[p] \cup {c}
           /\ versionReads'[p] = c => versionReads[p] = c \/ pc'[c] = "reading"
           /\ c \in inflight'[p] => c \in inflight[p] \/ pc'[c] = "loading"
           /\ c \in Invalidator /\ ~Called(c) /\ Called(c)' =>
                 versionReads'[p] = None /\ inflight'[p] = {}
<1> DEFINE Maps ==
             /\ \A q \in Proc \ {ProcOf[c]} : /\ versionReads'[q] = versionReads[q]
                                              /\ inflight'[q] = inflight[q]
             /\ versionReads'[ProcOf[c]] \in {versionReads[ProcOf[c]], None, c}
             /\ inflight'[ProcOf[c]] \subseteq inflight[ProcOf[c]] \cup {c}
             /\ versionReads'[ProcOf[c]] = c => versionReads[ProcOf[c]] = c \/ pc'[c] = "reading"
             /\ c \in inflight'[ProcOf[c]] => c \in inflight[ProcOf[c]] \/ pc'[c] = "loading"
<1>0. /\ ProcOf[c] \in Proc /\ None \notin Call /\ Reader \cap Invalidator = {}
      /\ pc \in [Call -> States]
      /\ versionReads \in [Proc -> Call \cup {None}] /\ inflight \in [Proc -> SUBSET Call]
  BY CallsFinite, CacheServiceAssumption DEF TypeOK, CacheServiceAssumption
<1>1. Maps
  <2> USE DEF EndVersionRead, EndLoad, local, Goto
  <2>1. CASE WriteData(c) \/ StartRead(c) \/ Invalidate(c)
    BY <1>0, <2>1 DEF WriteData, StartRead, Invalidate
  <2>2. CASE Applied(c) \/ NotApplied(c)
    BY <1>0, <2>2 DEF Applied, NotApplied
  <2>3. CASE Bypass(c) \/ JoinVersionRead(c) \/ ReadVersion(c)
    BY <1>0, <2>3 DEF Bypass, JoinVersionRead, ReadVersion, Send
  <2>4. CASE GotVersion(c) \/ VersionFailed(c) \/ VersionMissing(c) \/ VersionShared(c)
    BY <1>0, <2>4 DEF GotVersion, VersionFailed, VersionMissing, VersionShared
  <2>5. CASE GetValue(c) \/ Hit(c) \/ Miss(c) \/ GetFailed(c)
    BY <2>5 DEF GetValue, Hit, Miss, GetFailed
  <2>6. CASE JoinLoad(c) \/ StartLoad(c) \/ Load(c) \/ LoadFails(c)
    BY <1>0, <2>6 DEF JoinLoad, StartLoad, Load, LoadFails
  <2>7. CASE Store(c) \/ Return(c) \/ Stored(c) \/ LoadShared(c)
    BY <1>0, <2>7 DEF Store, Return, Stored, LoadShared
  <2> QED
    BY <2>1, <2>2, <2>3, <2>4, <2>5, <2>6, <2>7 DEF CallStep, Proceed
<1>2. c \in Invalidator /\ ~Called(c) /\ Called(c)' =>
          versionReads'[ProcOf[c]] = None /\ inflight'[ProcOf[c]] = {}
  <2> SUFFICES ASSUME c \in Invalidator, pc[c] \in {"idle", "written"}, Called(c)'
               PROVE  versionReads'[ProcOf[c]] = None /\ inflight'[ProcOf[c]] = {}
    BY DEF Called
  <2>1. ~WriteData(c) /\ ~StartRead(c)
    BY <1>0 DEF WriteData, StartRead, Goto, Called
  <2>2. Invalidate(c)
    BY <2>1 DEF CallStep, Proceed, Applied, NotApplied, Bypass, JoinVersionRead, ReadVersion,
       GotVersion, VersionMissing, VersionFailed, VersionShared, GetValue, Hit, Miss, GetFailed,
       JoinLoad, StartLoad, Load, LoadFails, Store, Return, Stored, LoadShared, Arrives, Fails
  <2> QED
    BY <1>0, <2>2 DEF Invalidate
<1> QED
  BY <1>1, <1>2

LEMMA CallPlaces ==
    ASSUME TypeInv, LinkInv, NEW c \in Call, CallStep(c)
    PROVE  PlaceInv'
<1>0. /\ TypeOK /\ PlaceInv /\ ProcOf[c] \in Proc /\ None \notin Call
      /\ Reader \cap Invalidator = {}
      /\ pc \in [Call -> States] /\ ver \in [Call -> Version \cup {NoVersion}]
      /\ key \in [Call -> Version \cup {NoVersion}] /\ joined \in [Call -> Call \cup {None}]
      /\ versionReads \in [Proc -> Call \cup {None}] /\ inflight \in [Proc -> SUBSET Call]
      /\ \A p \in Proc : versionReads[p] # None => pc[versionReads[p]] \in {"reading", "taking"}
      /\ \A p \in Proc : \A d \in inflight[p] : pc[d] \in {"loading", "loaded", "storing"}
  BY CallsFinite, CacheServiceAssumption DEF TypeInv, TypeOK, CacheServiceAssumption
<1> DEFINE Place ==
             /\ c \in Invalidator => pc'[c] \in {"written", "applying", "done"}
             /\ c \in Reader => pc'[c] # "written"
             /\ pc'[c] \in {"versioned", "getting"} => ver'[c] \in Version
             /\ pc'[c] = "storing" => key'[c] \in Version
             /\ pc'[c] \notin {"sharing", "awaiting"} => joined'[c] = None
             /\ pc'[c] = "sharing" =>
                   /\ joined'[c] = versionReads[ProcOf[c]]
                   /\ joined'[c] \in Call /\ pc[joined'[c]] \in {"reading", "taking"}
             /\ pc'[c] = "awaiting" =>
                   /\ joined'[c] \in inflight[ProcOf[c]]
                   /\ joined'[c] \in Call /\ pc[joined'[c]] \in {"loading", "loaded", "storing"}
<1>1. Place
  <2> USE DEF Goto, PlaceInv, call, history
  <2>1. CASE WriteData(c)
    BY <1>0, <2>1 DEF WriteData
  <2>2. CASE StartRead(c)
    BY <1>0, <2>2 DEF StartRead, Send
  <2>3. CASE Invalidate(c)
    BY <1>0, <2>3 DEF Invalidate, Send
  <2>4. CASE Applied(c) \/ NotApplied(c)
    BY <1>0, <2>4 DEF Applied, NotApplied, AfterApply, Arrives, Fails
  <2>5. CASE Bypass(c) \/ JoinVersionRead(c) \/ ReadVersion(c)
    BY <1>0, <2>5 DEF Bypass, JoinVersionRead, ReadVersion, FallBack, Send
  <2>6. CASE GotVersion(c) \/ VersionFailed(c)
    BY <1>0, <2>6 DEF GotVersion, VersionFailed, FallBack, Arrives, Fails
  <2>7. CASE VersionMissing(c) \/ VersionShared(c)
    BY <1>0, <2>7 DEF VersionMissing, VersionShared, FallBack, Send, Arrives
  <2>8. CASE GetValue(c)
    BY <1>0, <2>8 DEF GetValue, FallBack, Send
  <2>9. CASE Hit(c) \/ Miss(c) \/ GetFailed(c)
    BY <1>0, <2>9 DEF Hit, Miss, GetFailed, FallBack, Arrives, Fails
  <2>10. CASE JoinLoad(c) \/ StartLoad(c)
    BY <1>0, <2>10 DEF JoinLoad, StartLoad, Loads
  <2>11. CASE Load(c) \/ LoadFails(c) \/ Return(c) \/ LoadShared(c)
    BY <1>0, <2>11 DEF Load, LoadFails, Return, LoadShared, Ended
  <2>12. CASE Store(c) \/ Stored(c)
    BY <1>0, <2>12 DEF Store, Stored, Send, Arrives, Fails
  <2> QED
    BY <2>1, <2>2, <2>3, <2>4, <2>5, <2>6, <2>7, <2>8, <2>9, <2>10, <2>11, <2>12
       DEF CallStep, Proceed
<1>2. /\ \A p \in Proc : versionReads'[p] \in {versionReads[p], None, c}
      /\ \A p \in Proc : inflight'[p] \subseteq inflight[p] \cup {c}
      /\ \A p \in Proc \ {ProcOf[c]} : versionReads'[p] = versionReads[p] /\ inflight'[p] = inflight[p]
  BY <1>0, CallMaps
<1>3. /\ \A d \in Call \ {c} : /\ pc'[d] = pc[d] /\ ver'[d] = ver[d]
                               /\ key'[d] = key[d] /\ joined'[d] = joined[d]
      /\ pc'[c] # "idle"
      /\ pc'[c] \in {"written", "applying", "entered", "sharing"} =>
            pc[c] \in {"idle", "written", "applying", "entered"}
      /\ pc[c] \in {"loading", "loaded", "storing", "done", "threw"} =>
            pc'[c] \in {"loading", "loaded", "storing", "done", "threw"}
  BY <1>0, CallFrame, CallOrder
<1>4. /\ \A i \in Invalidator : pc'[i] \in {"idle", "written", "applying", "done"}
      /\ \A d \in Reader : pc'[d] # "written"
      /\ \A d \in Call : pc'[d] \in {"versioned", "getting"} => ver'[d] \in Version
      /\ \A d \in Call : pc'[d] = "storing" => key'[d] \in Version
  BY <1>0, <1>1, <1>3 DEF PlaceInv, Call
<1>5. /\ \A d \in Call : pc'[d] \in {"sharing", "awaiting"} <=> joined'[d] # None
      /\ \A d \in Call : joined'[d] # None => ProcOf[joined'[d]] = ProcOf[d]
  BY <1>0, <1>1, <1>3 DEF PlaceInv
<1>6. \A d \in Call : pc'[d] = "sharing" =>
          pc'[joined'[d]] \notin {"idle", "written", "applying", "entered", "sharing"}
  BY <1>0, <1>1, <1>3 DEF PlaceInv
<1>7. \A d \in Call : pc'[d] = "awaiting" =>
          pc'[joined'[d]] \in {"loading", "loaded", "storing", "done", "threw"}
  BY <1>0, <1>1, <1>3 DEF PlaceInv
<1>8. /\ \A p \in Proc : versionReads'[p] # None => ProcOf[versionReads'[p]] = p
      /\ \A p \in Proc : \A r \in inflight'[p] : ProcOf[r] = p
  BY <1>0, <1>2 DEF PlaceInv
<1> QED
  BY <1>4, <1>5, <1>6, <1>7, <1>8 DEF PlaceInv

\* A call in whose step a version is set may yet set one.
LEMMA VersionLeft ==
    ASSUME TypeInv, NEW c \in Call, c \in Out(ProcOf[c]), pc[c] \in {"applying", "taking"}
    PROVE  lastVersion + 1 \in Version
<1>1. /\ MaySetOne \in SUBSET Call /\ MaySetTwo \in SUBSET Call
      /\ {} \in SUBSET MaySetOne /\ {} \in SUBSET MaySetTwo /\ c \in MaySetOne
  BY DEF MaySetOne, MaySetTwo
<1>2. /\ Cardinality({}) + 1 <= Cardinality(MaySetOne) /\ Cardinality({}) = 0
      /\ Cardinality(MaySetOne) \in Nat /\ Cardinality(MaySetTwo) \in Nat /\ Cardinality(Call) \in Nat
  BY <1>1, SmallerPart, CallsFinite, FS_EmptySet
<1>3. /\ lastVersion \in Nat \ {0}
      /\ lastVersion + Cardinality(MaySetOne) + Cardinality(MaySetTwo) <= 1 + 2 * Cardinality(Call)
  BY DEF TypeInv, TypeOK, Budget, Version
<1>4. lastVersion + 1 <= 1 + 2 * Cardinality(Call)
  BY <1>2, <1>3
<1> QED
  BY <1>2, <1>3, <1>4 DEF Version

LEMMA ExecuteStep ==
    ASSUME TypeInv, LinkInv, NEW p \in Proc, Execute(p)
    PROVE  /\ LinkInv' /\ UNCHANGED <<db, local, pc, call, history>>
           /\ transit' \in [Proc -> Seq(Call)] /\ answered' \in [Proc -> Seq(Answer)]
           /\ UNCHANGED <<up, failed>>
           /\ \A q \in Proc : Out(q)' \subseteq Out(q)
           /\ \E c \in Call : \E x \in Version \cup Value \cup {NoVersion, NoValue} :
                 /\ Runs(c, x) /\ c \in Out(p) /\ ProcOf[c] = p /\ c \notin Out(p)'
                 /\ \A q \in Proc : \A a \in Back(q)' : a \in Back(q) \/ a = [to |-> c, gets |-> x]
<1>0. TypeOK
  BY DEF TypeInv
<1>1. PICK x : /\ Runs(Head(transit[p]), x)
               /\ answered' = [answered EXCEPT
                     ![p] = Append(@, [to |-> Head(transit[p]), gets |-> x])]
  BY <1>0, ExecuteRuns
<1> DEFINE c == Head(transit[p])
<1>2. /\ c \in Call /\ transit[p] # <<>> /\ transit' = [transit EXCEPT ![p] = Tail(@)]
      /\ UNCHANGED <<db, up, failed, local, pc, call, history>>
  BY <1>0, ExecuteRuns
<1>3. transit[p] \in Seq(Call) /\ answered[p] \in Seq(Answer)
  BY <1>0, QueueTypes
<1>4. c \in Out(p) /\ Tail(transit[p]) \in Seq(Call)
  BY <1>2, <1>3, TailFacts DEF Out
<1>5. ProcOf[c] = p
  BY <1>4 DEF LinkInv
<1>6. x \in Version \cup Value \cup {NoVersion, NoValue}
  <2>1. CASE pc[c] \in {"applying", "taking"}
    BY <1>1, <1>2, <1>4, <1>5, <2>1, VersionLeft DEF Runs
  <2>2. CASE pc[c] \in {"reading", "storing"}
    BY <1>0, <1>1, <2>2 DEF Runs, TypeOK
  <2>3. CASE pc[c] = "getting"
    <3>1. ver[c] \in Version
      BY <1>2, <2>3 DEF TypeInv, PlaceInv
    <3> QED
      BY <1>0, <1>1, <2>3, <3>1 DEF Runs, TypeOK
  <2> QED
    BY <1>1, <2>1, <2>2, <2>3 DEF Runs
<1>7. [to |-> c, gets |-> x] \in Answer
  BY <1>2, <1>6 DEF Answer
<1> HIDE DEF c
<1>8. /\ LinkInv'
      /\ c \in Out(p) /\ ProcOf[c] = p /\ c \notin Out(p)'
      /\ \A q \in Proc : Out(q)' \subseteq Out(q)
      /\ \A q \in Proc : \A a \in Back(q)' : a \in Back(q) \/ a = [to |-> c, gets |-> x]
  BY <1>0, <1>1, <1>2, <1>7, ExecuteLink DEF c
<1>9. transit' \in [Proc -> Seq(Call)] /\ answered' \in [Proc -> Seq(Answer)]
  <2>1. Append(answered[p], [to |-> c, gets |-> x]) \in Seq(Answer)
    BY <1>3, <1>7, AppendFacts
  <2> QED
    BY <1>0, <1>1, <1>2, <1>4, <2>1 DEF TypeOK, Answer, c
<1> QED
  BY <1>1, <1>2, <1>6, <1>8, <1>9 DEF c

LEMMA ExecuteTypes ==
    ASSUME TypeInv, LinkInv, NEW p \in Proc, Execute(p)
    PROVE  TypeInv'
<1>0. TypeOK /\ Budget /\ PlaceInv /\ \A q \in Proc : \A a \in Back(q) : AnswerOK(a)
  BY DEF TypeInv
<1>1. PICK c \in Call, x \in Version \cup Value \cup {NoVersion, NoValue} :
         /\ Runs(c, x) /\ c \in Out(p) /\ ProcOf[c] = p /\ c \notin Out(p)'
         /\ \A q \in Proc : \A a \in Back(q)' : a \in Back(q) \/ a = [to |-> c, gets |-> x]
  BY ExecuteStep
<1>2. /\ UNCHANGED <<db, up, failed, local, pc, call, history>>
      /\ transit' \in [Proc -> Seq(Call)] /\ answered' \in [Proc -> Seq(Answer)]
      /\ \A q \in Proc : Out(q)' \subseteq Out(q)
  BY ExecuteStep
<1>3. /\ version' \in Version \cup {NoVersion} /\ lastVersion' \in Version /\ renewed' \in Value
      /\ values' \in [Version -> Value \cup {NoValue}]
  <2>1. CASE pc[c] \in {"applying", "taking"}
    BY <1>0, <1>1, <2>1, VersionLeft DEF Runs, TakeVersion, TypeOK
  <2>2. CASE pc[c] \in {"reading", "getting"}
    BY <1>0, <1>1, <2>2 DEF Runs, TypeOK, provider
  <2>3. CASE pc[c] = "storing"
    <3>1. /\ values' = [values EXCEPT ![key[c]] = value[c]]
          /\ UNCHANGED <<version, lastVersion, renewed>>
      BY <1>1, <2>3 DEF Runs
    <3>2. value[c] \in Value
      BY <1>0 DEF TypeOK
    <3> QED
      BY <1>0, <3>1, <3>2 DEF TypeOK
  <2> QED
    BY <1>1, <2>1, <2>2, <2>3 DEF Runs
<1>4. TypeOK'
  BY <1>0, <1>2, <1>3 DEF TypeOK, local, call, history, Answer
<1>5. AnswerOK([to |-> c, gets |-> x])
  <2>1. CASE pc[c] \in {"applying", "taking"}
    BY <1>1, <2>1, VersionLeft DEF Runs, AnswerOK
  <2>2. CASE pc[c] \in {"reading", "storing"}
    BY <1>0, <1>1, <2>2 DEF Runs, AnswerOK, TypeOK
  <2>3. CASE pc[c] = "getting"
    <3>1. ver[c] \in Version
      BY <1>0, <2>3 DEF PlaceInv
    <3> QED
      BY <1>0, <1>1, <2>3, <3>1 DEF Runs, AnswerOK, TypeOK
  <2> QED
    BY <1>1, <2>1, <2>2, <2>3 DEF Runs
<1>6. \A q \in Proc : \A a \in Back(q)' : AnswerOK(a)'
  BY <1>0, <1>1, <1>2, <1>5 DEF AnswerOK
<1>7. PlaceInv'
  BY <1>0, <1>2 DEF PlaceInv, local, call
<1>8. Budget'
  <2>1. /\ MaySetOne \in SUBSET Call /\ MaySetTwo \in SUBSET Call
        /\ MaySetOne' \in SUBSET MaySetOne /\ MaySetTwo' \in SUBSET MaySetTwo
    <3>1. \A d \in Call : pc'[d] = pc[d] /\ (d \in Out(ProcOf[d])' => d \in Out(ProcOf[d]))
      BY <1>2, CallsFinite
    <3>2. MaySetTwo' \subseteq MaySetTwo
      BY <3>1 DEF MaySetTwo
    <3>3. MaySetOne' \subseteq MaySetOne
      BY <3>1, <3>2 DEF MaySetOne
    <3> QED
      BY <3>2, <3>3 DEF MaySetOne, MaySetTwo
  <2>2. /\ pc[c] = "applying" => c \in MaySetTwo \ MaySetTwo'
        /\ pc[c] = "taking" => c \in MaySetOne \ MaySetOne'
    BY <1>1, <1>2 DEF MaySetOne, MaySetTwo
  <2> DEFINE m == Cardinality(MaySetOne)
             m1 == Cardinality(MaySetOne')
             n == Cardinality(MaySetTwo)
             n1 == Cardinality(MaySetTwo')
             k == Cardinality(Call)
  <2> HIDE DEF m, m1, n, n1, k
  <2>3. /\ m \in Nat /\ m1 \in Nat /\ n \in Nat /\ n1 \in Nat /\ m1 <= m /\ n1 <= n
        /\ pc[c] = "applying" => n1 + 1 <= n
        /\ pc[c] = "taking" => m1 + 1 <= m
    BY <2>1, <2>2, SmallerPart DEF m, m1, n, n1
  <2>4. k \in Nat /\ lastVersion \in Nat /\ lastVersion + m + n <= 1 + 2 * k
    BY <1>0, CallsFinite DEF Budget, TypeOK, Version, m, n, k
  <2>5. \/ lastVersion' = lastVersion + 1 /\ pc[c] \in {"applying", "taking"}
        \/ lastVersion' = lastVersion
    BY <1>1 DEF Runs, TakeVersion, provider
  <2>6. lastVersion' + m1 + n1 <= 1 + 2 * k
    BY <2>3, <2>4, <2>5
  <2>7. MayWrite' = MayWrite
    BY <1>2 DEF MayWrite
  <2> QED
    BY <1>0, <1>2, <2>6, <2>7 DEF Budget, m1, n1, k
<1> QED
  BY <1>4, <1>6, <1>7, <1>8 DEF TypeInv

LEMMA CallTyped ==
    ASSUME TypeInv, LinkInv, NEW c \in Call, CallStep(c)
    PROVE  TypeInv' /\ LinkInv'
<1>0. TypeOK /\ Budget /\ PlaceInv /\ \A p \in Proc : \A a \in Back(p) : AnswerOK(a)
  BY DEF TypeInv
<1>1. Moves(c)
  BY <1>0, CallMoves
<1>2. /\ LinkInv'
      /\ \A p \in Proc : \A a \in Back(p)' : a \in Back(p) /\ a.to # c
  BY <1>0, <1>1, CallLink
<1>3. TypeOK' /\ Budget' /\ PlaceInv'
  BY <1>0, CallTypes, CallBudget, CallPlaces
<1>4. \A p \in Proc : \A a \in Back(p)' : AnswerOK(a)'
  <2> SUFFICES ASSUME NEW p \in Proc, NEW a \in Back(p)' PROVE AnswerOK(a)'
    OBVIOUS
  <2>1. a \in Back(p) /\ a.to # c
    BY <1>2
  <2>2. a.to \in Call
    BY <1>0, <2>1, QueueTypes DEF Answer
  <2>3. pc'[a.to] = pc[a.to]
    BY <1>0, <2>1, <2>2, CallFrame
  <2>4. AnswerOK(a)
    BY <1>0, <2>1
  <2> QED
    BY <2>3, <2>4 DEF AnswerOK
<1> QED
  BY <1>2, <1>3, <1>4 DEF TypeInv

LEMMA InitTyped == Init => TypeInv /\ LinkInv
<1> SUFFICES ASSUME Init PROVE TypeInv /\ LinkInv
  OBVIOUS
<1>0. /\ 1 \in Version /\ 1 \in Value /\ ProcOf \in [Call -> Proc]
      /\ Cardinality(Call) \in Nat /\ Cardinality(Invalidator) \in Nat
  BY CallsFinite
<1>1. \A p \in Proc : Out(p) = {} /\ Back(p) = {}
  BY DEF Init, Out, Back
<1>2. LinkInv
  BY <1>1 DEF Init, LinkInv
<1>3. TypeOK
  <2>1. values \in [Version -> Value \cup {NoValue}]
    BY <1>0 DEF Init
  <2>2. transit \in [Proc -> Seq(Call)] /\ answered \in [Proc -> Seq(Answer)]
    BY EmptySeq DEF Init
  <2> QED
    BY <1>0, <2>1, <2>2 DEF Init, TypeOK, States, Answer
<1>4. Budget
  <2>1. /\ MaySetOne \in SUBSET Call /\ MaySetTwo \in SUBSET Call /\ MayWrite \in SUBSET Invalidator
        /\ Call \in SUBSET Call /\ Invalidator \in SUBSET Call
    BY DEF MaySetOne, MaySetTwo, MayWrite, Call
  <2>2. /\ Cardinality(MaySetOne) <= Cardinality(Call) /\ Cardinality(MaySetTwo) <= Cardinality(Call)
        /\ Cardinality(MayWrite) <= Cardinality(Invalidator)
        /\ Cardinality(MaySetOne) \in Nat /\ Cardinality(MaySetTwo) \in Nat
        /\ Cardinality(MayWrite) \in Nat
    BY <2>1, SmallerPart
  <2>3. lastVersion = 1 /\ db = 1
    BY DEF Init
  <2> QED
    BY <1>0, <2>2, <2>3 DEF Budget
<1>5. PlaceInv
  <2>1. /\ \A c \in Call : pc[c] = "idle" /\ joined[c] = None
        /\ \A p \in Proc : versionReads[p] = None /\ inflight[p] = {}
    BY DEF Init
  <2> QED
    BY <2>1 DEF PlaceInv, Call
<1> QED
  BY <1>1, <1>2, <1>3, <1>4, <1>5 DEF TypeInv

\* A connection that drops or comes back, and a key that expires.
LinkStep == \/ \E p \in Proc : Drop(p) \/ Reconnect(p)
            \/ Evict

LEMMA LinkTyped ==
    ASSUME TypeInv, LinkInv, LinkStep
    PROVE  /\ TypeInv' /\ LinkInv'
           /\ UNCHANGED <<db, lastVersion, renewed, local, pc, call, history>>
           /\ version' \in {version, NoVersion}
           /\ \A v \in Version : values'[v] \in {values[v], NoValue}
           /\ \A q \in Proc : Out(q)' \subseteq Out(q) /\ Back(q)' \subseteq Back(q)
<1>0. TypeOK /\ Budget /\ PlaceInv /\ \A p \in Proc : \A a \in Back(p) : AnswerOK(a)
  BY DEF TypeInv
<1>1. /\ UNCHANGED <<db, lastVersion, renewed, local, pc, call, history>>
      /\ version' \in {version, NoVersion}
      /\ \A v \in Version : values'[v] \in {values[v], NoValue}
      /\ values' \in [Version -> Value \cup {NoValue}]
      /\ up' \in [Proc -> BOOLEAN] /\ failed' \in SUBSET Call
  <2>1. ASSUME NEW p \in Proc, Drop(p) \/ Reconnect(p) PROVE <1>1!:
    BY <1>0, <2>1 DEF Drop, Reconnect, InFlight, provider, TypeOK
  <2>2. CASE Evict
    <3>1. /\ UNCHANGED <<db, lastVersion, renewed, up, failed, local, pc, call, history>>
          /\ version' \in {version, NoVersion}
          /\ values' = values \/ \E v \in Version : values' = [values EXCEPT ![v] = NoValue]
      BY <2>2 DEF Evict, link
    <3>2. values' \in [Version -> Value \cup {NoValue}]
      BY <1>0, <3>1 DEF TypeOK
    <3>3. \A v \in Version : values'[v] \in {values[v], NoValue}
      BY <1>0, <3>1 DEF TypeOK
    <3>4. up' \in [Proc -> BOOLEAN] /\ failed' \in SUBSET Call
      BY <1>0, <3>1 DEF TypeOK
    <3> QED
      BY <3>1, <3>2, <3>3, <3>4
  <2> QED
    BY <2>1, <2>2 DEF LinkStep
<1>2. /\ LinkInv' /\ \A q \in Proc : Out(q)' \subseteq Out(q) /\ Back(q)' \subseteq Back(q)
      /\ transit' \in [Proc -> Seq(Call)] /\ answered' \in [Proc -> Seq(Answer)]
  <2>1. ASSUME NEW p \in Proc, Drop(p) \/ Reconnect(p) PROVE <1>2!:
    <3>1. /\ transit' = transit \/ transit' = [transit EXCEPT ![p] = <<>>]
          /\ answered' = answered \/ answered' = [answered EXCEPT ![p] = <<>>]
      BY <2>1 DEF Drop, Reconnect
    <3>2. <<>> \in Seq(Call) /\ <<>> \in Seq(Answer)
      BY EmptySeq
    <3>3. transit \in [Proc -> Seq(Call)] /\ answered \in [Proc -> Seq(Answer)]
      BY <1>0 DEF TypeOK, Answer
    <3>4. transit' \in [Proc -> Seq(Call)] /\ answered' \in [Proc -> Seq(Answer)]
      BY <3>1, <3>2, <3>3
    <3> QED
      BY <1>0, <2>1, <3>4, DropLink
  <2>2. CASE Evict
    <3>1. UNCHANGED <<up, transit, answered, failed, pc>>
      BY <2>2 DEF Evict, link
    <3>2. \A q \in Proc : Out(q)' = Out(q) /\ Back(q)' = Back(q)
      BY <3>1 DEF Out, Back
    <3>3. LinkInv'
      BY <3>1, <3>2 DEF LinkInv
    <3>4. transit \in [Proc -> Seq(Call)] /\ answered \in [Proc -> Seq(Answer)]
      BY <1>0 DEF TypeOK, Answer
    <3> QED
      BY <3>1, <3>2, <3>3, <3>4
  <2> QED
    BY <2>1, <2>2 DEF LinkStep
<1>3. TypeOK'
  BY <1>0, <1>1, <1>2 DEF TypeOK, Answer, local, call, history
<1>4. Budget'
  <2>1. /\ MaySetOne \in SUBSET Call /\ MaySetTwo \in SUBSET Call
        /\ MaySetOne' \in SUBSET MaySetOne /\ MaySetTwo' \in SUBSET MaySetTwo
    <3>1. \A d \in Call : pc'[d] = pc[d] /\ (d \in Out(ProcOf[d])' => d \in Out(ProcOf[d]))
      BY <1>1, <1>2, CallsFinite
    <3>2. MaySetTwo' \subseteq MaySetTwo
      BY <3>1 DEF MaySetTwo
    <3>3. MaySetOne' \subseteq MaySetOne
      BY <3>1, <3>2 DEF MaySetOne
    <3> QED
      BY <3>2, <3>3 DEF MaySetOne, MaySetTwo
  <2>2. /\ Cardinality(MaySetOne') <= Cardinality(MaySetOne)
        /\ Cardinality(MaySetTwo') <= Cardinality(MaySetTwo)
        /\ Cardinality(MaySetOne') \in Nat /\ Cardinality(MaySetOne) \in Nat
        /\ Cardinality(MaySetTwo') \in Nat /\ Cardinality(MaySetTwo) \in Nat
    BY <2>1, SmallerPart
  <2>3. lastVersion \in Nat /\ Cardinality(Call) \in Nat
    BY <1>0, CallsFinite DEF TypeOK, Version
  <2>4. MayWrite' = MayWrite
    BY <1>1 DEF MayWrite
  <2> QED
    BY <1>0, <1>1, <2>2, <2>3, <2>4 DEF Budget
<1>5. PlaceInv'
  BY <1>0, <1>1 DEF PlaceInv, local, call
<1>6. \A p \in Proc : \A a \in Back(p)' : AnswerOK(a)'
  BY <1>0, <1>1, <1>2 DEF AnswerOK
<1> QED
  BY <1>1, <1>2, <1>3, <1>4, <1>5, <1>6 DEF TypeInv

\* The steps of the service: of a call, of the provider, of a connection or a key.
LEMMA NextSteps ==
    ASSUME [Next]_vars
    PROVE  \/ \E c \in Call : CallStep(c)
           \/ \E p \in Proc : Execute(p)
           \/ LinkStep
           \/ UNCHANGED vars
BY DEF Next, CallStep, LinkStep

\* The invariant that types the cache: a call has at most one command out, and the
\* versions and values stay within their bounds.
LEMMA TypeInvariant == Spec => [](TypeInv /\ LinkInv)
<1>1. Init => TypeInv /\ LinkInv
  BY InitTyped
<1>2. TypeInv /\ LinkInv /\ [Next]_vars => (TypeInv /\ LinkInv)'
  <2> SUFFICES ASSUME TypeInv, LinkInv, [Next]_vars PROVE (TypeInv /\ LinkInv)'
    OBVIOUS
  <2>1. CASE UNCHANGED vars
    <3> USE <2>1 DEF vars, provider, link, local, call, history
    <3>1. \A p \in Proc : Out(p)' = Out(p) /\ Back(p)' = Back(p)
      BY DEF Out, Back
    <3>2. LinkInv'
      BY <3>1 DEF LinkInv
    <3>3. TypeOK'
      BY DEF TypeOK, TypeInv
    <3>4. MaySetTwo' = MaySetTwo
      BY DEF Out, MaySetTwo
    <3>5. MaySetOne' = MaySetOne /\ MayWrite' = MayWrite
      BY <3>4 DEF Out, MaySetOne, MayWrite
    <3>6. Budget'
      BY <3>4, <3>5 DEF Budget, TypeInv
    <3>7. PlaceInv'
      BY DEF PlaceInv, TypeInv
    <3>8. \A p \in Proc : \A a \in Back(p)' : AnswerOK(a)'
      BY <3>1 DEF AnswerOK, TypeInv
    <3> QED
      BY <3>2, <3>3, <3>6, <3>7, <3>8 DEF TypeInv
  <2> QED
    BY <2>1, NextSteps, CallTyped, ExecuteTypes, ExecuteStep, LinkTyped
<1> QED
  BY <1>1, <1>2, PTL DEF Spec

\* Every variable of the cache has its type, whatever the calls, the drops and the
\* evictions, and a map of shared runs holds only runs that have not ended.
THEOREM CacheTypes == Spec => []TypeOK
<1>1. TypeInv => TypeOK
  BY DEF TypeInv
<1> QED
  BY <1>1, TypeInvariant, PTL

-----------------------------------------------------------------------------
(* What a call comes to know and to hold, by the state it moves to *)

HasAnswer(c, x) == \E a \in Back(ProcOf[c]) : a.to = c /\ a.gets = x

\* What a call has read or was told when it moves to state s.
Origin(c, s) ==
    /\ s = "reading" => pc[c] = "entered" /\ ~missed[ProcOf[c]] /\ known'[c] = CallsSoFar
    /\ s = "taking" => pc[c] = "reading"
    /\ s = "sharing" => /\ pc[c] = "entered" /\ ~missed[ProcOf[c]]
                        /\ joined'[c] = versionReads[ProcOf[c]] /\ joined'[c] # None
    /\ s = "versioned" =>
          /\ ver'[c] \in Version
          /\ \/ pc[c] \in {"reading", "taking"} /\ HasAnswer(c, ver'[c])
             \/ /\ pc[c] = "sharing" /\ joined[c] \in Call /\ ver'[c] = ver[joined[c]]
                /\ pc[joined[c]] \notin {"reading", "taking"}
    /\ s = "getting" => pc[c] = "versioned" /\ ver'[c] = ver[c]
    /\ s = "awaiting" => pc[c] = "wanting" /\ joined'[c] \in inflight[ProcOf[c]]
    /\ s = "loading" => pc[c] = "wanting" /\ known'[c] = CallsSoFar
    /\ s = "loaded" => pc[c] = "loading" /\ value'[c] = db /\ key'[c] = key[c]
    /\ s = "storing" => pc[c] = "loaded" /\ value'[c] = value[c] /\ key'[c] = key[c]
    /\ s = "done" => \/ c \in Invalidator
                     \/ pc[c] = "getting" /\ value'[c] \in Value /\ HasAnswer(c, value'[c])
                     \/ pc[c] \in {"loaded", "storing"} /\ value'[c] = value[c]
                     \/ /\ pc[c] = "awaiting" /\ joined[c] \in Call /\ pc[joined[c]] = "done"
                        /\ value'[c] = value[joined[c]]

\* What a call that moves to state s keeps.
Keeps(c, s) ==
    /\ pc[c] # "idle" => past'[c] = past[c]
    /\ pc[c] = "idle" => past'[c] = past[c] \/ past'[c] = {i \in Invalidator : Ended(i)}
    /\ s \notin {"reading", "loading"} => known'[c] = known[c]
    /\ c \in Invalidator /\ Called(c) => value'[c] = value[c]
    /\ c \in Invalidator => value'[c] = value[c] \/ (value'[c] = db + 1 /\ db' = db + 1)
    /\ ver'[c] \in {ver[c], NoVersion} \/ s = "versioned"
    /\ pc[c] \in {"reading", "taking"} => s \in {"taking", "versioned"} \/ ver'[c] = NoVersion
    /\ key'[c] \in {key[c], NoVersion, ver[c]}

LEMMA HeadAnswer ==
    ASSUME TypeOK, NEW c \in Call, NEW s, NEW X, Arrives(c, s, X)
    PROVE  /\ pc[c] = s
           /\ \E x \in X : HasAnswer(c, x)
           /\ \A x : X = {x} => HasAnswer(c, x)
<1> DEFINE q == answered[ProcOf[c]]
<1>1. ProcOf[c] \in Proc
  BY CallsFinite
<1>2. q \in Seq(Answer) /\ q # <<>> /\ Head(q).to = c /\ Head(q).gets \in X /\ pc[c] = s
  BY <1>1, QueueTypes DEF Arrives
<1>3. Head(q) \in Back(ProcOf[c])
  <2> HIDE DEF q
  <2>1. 1 \in 1..Len(q) /\ Head(q) = q[1]
    BY <1>2, TailFacts
  <2> QED
    BY <2>1 DEF Back, q
<1> QED
  BY <1>2, <1>3 DEF HasAnswer

LEMMA CallOrigin ==
    ASSUME TypeInv, NEW c \in Call, CallStep(c)
    PROVE  Origin(c, pc'[c]) /\ Keeps(c, pc'[c])
<1>0. /\ TypeOK /\ PlaceInv /\ ProcOf[c] \in Proc /\ None \notin Call
      /\ Reader \cap Invalidator = {} /\ ver[c] \in Version \cup {NoVersion}
      /\ c \in Invalidator => pc[c] \in {"idle", "written", "applying", "done"}
      /\ pc \in [Call -> States] /\ ver \in [Call -> Version \cup {NoVersion}]
      /\ key \in [Call -> Version \cup {NoVersion}] /\ joined \in [Call -> Call \cup {None}]
      /\ value \in [Call -> Value]
      /\ past \in [Call -> SUBSET Invalidator] /\ known \in [Call -> SUBSET Invalidator]
  BY CallsFinite, CacheServiceAssumption DEF TypeInv, TypeOK, PlaceInv, CacheServiceAssumption
<1>1. /\ pc[c] \in {"sharing", "awaiting"} => joined[c] \in Call
      /\ pc[c] = "written" => c \in Invalidator
  BY <1>0 DEF PlaceInv, Call
<1> USE DEF Goto, Origin, Keeps, Called, call, history
<1>2. CASE WriteData(c)
  BY <1>0, <1>2 DEF WriteData
<1>3. CASE StartRead(c)
  BY <1>0, <1>3 DEF StartRead, Send
<1>4. CASE Invalidate(c)
  BY <1>0, <1>1, <1>4 DEF Invalidate, Send
<1>5. CASE Applied(c) \/ NotApplied(c)
  BY <1>0, <1>5 DEF Applied, NotApplied, AfterApply, Arrives, Fails, Call
<1>6. CASE Bypass(c) \/ JoinVersionRead(c)
  BY <1>0, <1>6 DEF Bypass, JoinVersionRead, FallBack
<1>7. CASE ReadVersion(c)
  BY <1>0, <1>7 DEF ReadVersion, Send
<1>8. CASE GotVersion(c)
  <2>1. PICK v \in Version : /\ Arrives(c, "reading", {v}) \/ Arrives(c, "taking", {v})
                             /\ ver' = [ver EXCEPT ![c] = v]
    BY <1>8 DEF GotVersion
  <2>2. pc[c] \in {"reading", "taking"} /\ HasAnswer(c, v)
    BY <1>0, <2>1, HeadAnswer
  <2>3. ver'[c] = v
    BY <1>0, <2>1
  <2> QED
    BY <1>0, <1>8, <2>2, <2>3 DEF GotVersion
<1>9. CASE VersionFailed(c)
  BY <1>0, <1>9 DEF VersionFailed, FallBack, Fails
<1>10. CASE VersionMissing(c)
  BY <1>0, <1>10 DEF VersionMissing, Send, Arrives
<1>11. CASE VersionShared(c)
  BY <1>0, <1>1, <1>11 DEF VersionShared, FallBack
<1>12. CASE GetValue(c)
  <2>1. CASE Send(c, "getting") /\ UNCHANGED key
    BY <1>0, <1>12, <2>1 DEF GetValue, Send
  <2>2. CASE FallBack(c)
    BY <1>0, <1>12, <2>2 DEF GetValue, FallBack
  <2> QED
    BY <1>12, <2>1, <2>2 DEF GetValue
<1>13. CASE Hit(c)
  <2>1. PICK x \in Value : Arrives(c, "getting", {x}) /\ value' = [value EXCEPT ![c] = x]
    BY <1>13 DEF Hit
  <2>2. pc[c] = "getting" /\ HasAnswer(c, x)
    BY <1>0, <2>1, HeadAnswer
  <2>3. value'[c] = x
    BY <1>0, <2>1
  <2> QED
    BY <1>0, <1>13, <2>2, <2>3 DEF Hit
<1>14. CASE Miss(c) \/ GetFailed(c)
  BY <1>0, <1>14 DEF Miss, GetFailed, FallBack, Arrives, Fails
<1>15. CASE JoinLoad(c) \/ StartLoad(c)
  BY <1>0, <1>15 DEF JoinLoad, StartLoad, Loads
<1>16. CASE Load(c) \/ LoadFails(c) \/ Return(c)
  BY <1>0, <1>16 DEF Load, LoadFails, Return
<1>17. CASE LoadShared(c)
  BY <1>0, <1>1, <1>17 DEF LoadShared, Ended
<1>18. CASE Store(c) \/ Stored(c)
  BY <1>0, <1>18 DEF Store, Stored, Send, Arrives, Fails
<1> QED
  BY <1>2, <1>3, <1>4, <1>5, <1>6, <1>7, <1>8, <1>9, <1>10, <1>11, <1>12, <1>13, <1>14, <1>15,
     <1>16, <1>17, <1>18 DEF CallStep, Proceed

-----------------------------------------------------------------------------
(* What is cached under a version *)

LEMMA Numbers ==
    ASSUME TypeOK
    PROVE  /\ Version \subseteq Nat /\ Value \subseteq Nat /\ NoVersion = 0 /\ NoVersion \notin Version
           /\ db \in Nat /\ db \in Value /\ renewed \in Nat /\ renewed \in Value
           /\ lastVersion \in Nat /\ lastVersion \in Version
           /\ ver \in [Call -> Version \cup {NoVersion}] /\ key \in [Call -> Version \cup {NoVersion}]
           /\ \A c \in Call : ver[c] \in Nat /\ key[c] \in Nat /\ value[c] \in Nat
           /\ value \in [Call -> Value] /\ values \in [Version -> Value \cup {NoValue}]
<1>1. Version \subseteq Nat /\ Value \subseteq Nat /\ NoVersion = 0 /\ NoVersion \notin Version
  BY DEF Version, Value, NoVersion
<1>2. /\ db \in Value /\ renewed \in Value /\ lastVersion \in Version
      /\ ver \in [Call -> Version \cup {NoVersion}] /\ key \in [Call -> Version \cup {NoVersion}]
      /\ value \in [Call -> Value] /\ values \in [Version -> Value \cup {NoValue}]
  BY DEF TypeOK
<1>3. \A c \in Call : ver[c] \in Version \cup {0} /\ key[c] \in Version \cup {0} /\ value[c] \in Value
  BY <1>1, <1>2
<1>4. db \in Nat /\ renewed \in Nat /\ lastVersion \in Nat
  BY <1>1, <1>2
<1>5. \A c \in Call : ver[c] \in Nat /\ key[c] \in Nat /\ value[c] \in Nat
  <2> SUFFICES ASSUME NEW c \in Call PROVE ver[c] \in Nat /\ key[c] \in Nat /\ value[c] \in Nat
    OBVIOUS
  <2>1. ver[c] \in Version \cup {0} /\ key[c] \in Version \cup {0} /\ value[c] \in Value
    BY <1>3
  <2>2. ver[c] \in Nat
    BY <2>1 DEF Version
  <2>3. key[c] \in Nat
    BY <2>1 DEF Version
  <2>4. value[c] \in Nat
    BY <2>1 DEF Value
  <2> QED
    BY <2>2, <2>3, <2>4
<1> QED
  BY <1>1, <1>2, <1>4, <1>5

\* Fresh(v, x)' for an x of the state before the step.
FreshNext(v, x) ==
    /\ values'[v] # NoValue => values'[v] >= x
    /\ \A r \in Call : pc'[r] \in {"loaded", "storing"} /\ key'[r] = v => value'[r] >= x

\* A value that is fresh under a version stays so: loads that start later read
\* data that is not older.
LEMMA FreshKept ==
    ASSUME TypeInv, LinkInv, [Next]_vars, NEW v \in Version, NEW x \in Value, x <= db, Fresh(v, x)
    PROVE  FreshNext(v, x)
<1>0. /\ TypeOK /\ x \in Nat /\ db \in Nat
      /\ values \in [Version -> Value \cup {NoValue}]
  BY Numbers DEF TypeInv
<1>1. ASSUME NEW c \in Call, CallStep(c) PROVE FreshNext(v, x)
  <2>1. /\ UNCHANGED values
        /\ \A d \in Call \ {c} : pc'[d] = pc[d] /\ key'[d] = key[d] /\ value'[d] = value[d]
    BY <1>0, <1>1, CallFrame DEF provider
  <2>2. pc'[c] \in {"loaded", "storing"} /\ key'[c] = v => value'[c] >= x
    BY <1>0, <1>1, CallOrigin DEF Origin, Fresh
  <2> QED
    BY <2>1, <2>2 DEF Fresh, FreshNext
<1>2. ASSUME NEW p \in Proc, Execute(p) PROVE FreshNext(v, x)
  <2>1. PICK c \in Call, y \in Version \cup Value \cup {NoVersion, NoValue} : Runs(c, y)
    BY <1>2, ExecuteStep
  <2>2. UNCHANGED <<pc, key, value>>
    BY <1>2, ExecuteStep DEF call
  <2>3. values' = values \/ (pc[c] = "storing" /\ values' = [values EXCEPT ![key[c]] = value[c]])
    BY <2>1 DEF Runs, provider
  <2>4. values'[v] # NoValue => values'[v] >= x
    BY <1>0, <2>3 DEF Fresh
  <2> QED
    BY <2>2, <2>4 DEF Fresh, FreshNext
<1>3. CASE LinkStep
  <2>1. UNCHANGED <<pc, key, value>> /\ values'[v] \in {values[v], NoValue}
    BY <1>3, LinkTyped DEF call
  <2> QED
    BY <2>1 DEF Fresh, FreshNext
<1>4. CASE UNCHANGED vars
  BY <1>4 DEF vars, provider, call, Fresh, FreshNext
<1> QED
  BY <1>1, <1>2, <1>3, <1>4, NextSteps

LEMMA InitFresh == Init => FreshInv
<1> SUFFICES ASSUME Init PROVE FreshInv
  OBVIOUS
<1>1. /\ db = 1 /\ version = 1 /\ lastVersion = 1 /\ renewed = 1
      /\ \A c \in Call : pc[c] = "idle" /\ ver[c] = NoVersion /\ key[c] = NoVersion
  BY DEF Init
<1>2. 1 \in Version /\ \A v \in Version : v \in Nat /\ values[v] \in {NoValue, 1}
                                          /\ (v > 1 => values[v] = NoValue)
  BY CallsFinite DEF Init, Version
<1>3. \A p \in Proc : Back(p) = {}
  BY DEF Init, Back
<1> QED
  BY <1>1, <1>2, <1>3 DEF FreshInv, Fresh, NoVersion, NoValue

LEMMA CallFresh ==
    ASSUME TypeInv, LinkInv, FreshInv, NEW c \in Call, CallStep(c)
    PROVE  FreshInv'
<1>0. /\ TypeOK /\ lastVersion \in Version /\ renewed \in Value /\ renewed \in Nat /\ db \in Nat
      /\ ver \in [Call -> Version \cup {NoVersion}] /\ key \in [Call -> Version \cup {NoVersion}]
      /\ Version \subseteq Nat /\ NoVersion \in Nat /\ lastVersion \in Nat
  BY Numbers DEF TypeInv
<1>1. /\ UNCHANGED <<version, values, lastVersion, renewed>> /\ db' \in {db, db + 1}
      /\ \A d \in Call \ {c} : pc'[d] = pc[d] /\ ver'[d] = ver[d] /\ key'[d] = key[d]
  BY <1>0, CallFrame DEF provider
<1>2. Origin(c, pc'[c]) /\ Keeps(c, pc'[c])
  BY CallOrigin
<1>3. \A p \in Proc : \A a \in Back(p)' : a \in Back(p) /\ pc'[a.to] = pc[a.to]
  <2> SUFFICES ASSUME NEW p \in Proc, NEW a \in Back(p)' PROVE a \in Back(p) /\ pc'[a.to] = pc[a.to]
    OBVIOUS
  <2>1. a \in Back(p) /\ a.to # c
    BY <1>0, CallMoves, CallLink
  <2>2. a.to \in Call
    BY <1>0, <2>1, QueueTypes DEF Answer
  <2> QED
    BY <1>1, <2>1, <2>2
<1>4. ver'[c] <= lastVersion
  <2>1. CASE ver'[c] \in {ver[c], NoVersion}
    BY <1>0, <2>1 DEF FreshInv, NoVersion
  <2>2. CASE pc[c] \in {"reading", "taking"} /\ HasAnswer(c, ver'[c])
    BY <2>2, CallsFinite DEF HasAnswer, FreshInv
  <2>3. CASE joined[c] \in Call /\ ver'[c] = ver[joined[c]]
    BY <2>3 DEF FreshInv
  <2> QED
    BY <1>2, <2>1, <2>2, <2>3 DEF Origin, Keeps
<1>5. key'[c] <= lastVersion
  BY <1>0, <1>2 DEF Keeps, FreshInv, NoVersion
<1>6. FreshNext(lastVersion, renewed)
  BY <1>0, FreshKept DEF FreshInv, Next, CallStep
<1>7. Fresh(lastVersion, renewed)'
  BY <1>1, <1>6 DEF Fresh, FreshNext
<1>8. \A d \in Call : ver'[d] <= lastVersion /\ key'[d] <= lastVersion
  BY <1>1, <1>4, <1>5 DEF FreshInv
<1>9. renewed <= db'
  BY <1>0, <1>1 DEF FreshInv
<1>10. \A p \in Proc : \A a \in Back(p)' :
           pc'[a.to] \in {"applying", "reading", "taking"} => a.gets <= lastVersion
  BY <1>3 DEF FreshInv
<1> QED
  BY <1>1, <1>7, <1>8, <1>9, <1>10 DEF FreshInv

LEMMA ExecuteFresh ==
    ASSUME TypeInv, LinkInv, FreshInv, NEW p \in Proc, Execute(p)
    PROVE  FreshInv'
<1>0. /\ TypeOK /\ lastVersion \in Version /\ renewed \in Value /\ renewed \in Nat /\ db \in Nat
      /\ ver \in [Call -> Version \cup {NoVersion}] /\ key \in [Call -> Version \cup {NoVersion}]
      /\ values \in [Version -> Value \cup {NoValue}]
      /\ Version \subseteq Nat /\ NoVersion \in Nat /\ lastVersion \in Nat
      /\ \A d \in Call : ver[d] \in Nat /\ key[d] \in Nat
  BY Numbers DEF TypeInv
<1>1. PICK c \in Call, x \in Version \cup Value \cup {NoVersion, NoValue} :
         /\ Runs(c, x) /\ c \in Out(p) /\ ProcOf[c] = p
         /\ \A q \in Proc : \A a \in Back(q)' : a \in Back(q) \/ a = [to |-> c, gets |-> x]
  BY ExecuteStep
<1>2. UNCHANGED <<db, pc, ver, key, value>>
  BY ExecuteStep DEF call
<1>3. \A q \in Proc : \A a \in Back(q) :
          pc[a.to] \in {"applying", "reading", "taking"} => a.gets \in Nat
  <2> SUFFICES ASSUME NEW q \in Proc, NEW a \in Back(q),
                      pc[a.to] \in {"applying", "reading", "taking"}
               PROVE  a.gets \in Nat
    OBVIOUS
  <2>1. AnswerOK(a)
    BY DEF TypeInv
  <2> QED
    BY <1>0, <2>1 DEF AnswerOK
<1>4. CASE pc[c] \in {"applying", "taking"}
  <2>1. /\ x = lastVersion + 1 /\ version' = lastVersion + 1 /\ lastVersion' = lastVersion + 1
        /\ renewed' = db /\ values' = values
    BY <1>1, <1>4 DEF Runs, TakeVersion
  <2>2. lastVersion + 1 \in Version
    BY <1>1, <1>4, VersionLeft
  <2>3. values[lastVersion + 1] = NoValue /\ \A d \in Call : key[d] # lastVersion + 1
    BY <1>0, <2>2 DEF FreshInv
  <2>4. Fresh(lastVersion, renewed)'
    BY <1>2, <2>1, <2>3 DEF Fresh
  <2>5. \A d \in Call : ver'[d] <= lastVersion' /\ key'[d] <= lastVersion'
    BY <1>0, <1>2, <2>1 DEF FreshInv
  <2>6. \A q \in Proc : \A a \in Back(q)' :
            pc'[a.to] \in {"applying", "reading", "taking"} => a.gets <= lastVersion'
    <3> SUFFICES ASSUME NEW q \in Proc, NEW a \in Back(q)',
                        pc'[a.to] \in {"applying", "reading", "taking"}
                 PROVE  a.gets <= lastVersion'
      OBVIOUS
    <3>1. CASE a \in Back(q)
      <4>1. a.gets \in Nat /\ a.gets <= lastVersion
        BY <1>2, <1>3, <3>1 DEF FreshInv
      <4> QED
        BY <1>0, <2>1, <4>1
    <3>2. CASE a = [to |-> c, gets |-> x]
      BY <1>0, <2>1, <3>2
    <3> QED
      BY <1>1, <3>1, <3>2
  <2>7. \A v \in Version : v > lastVersion' => values'[v] = NoValue
    BY <1>0, <2>1 DEF FreshInv
  <2> QED
    BY <1>0, <1>2, <2>1, <2>4, <2>5, <2>6, <2>7 DEF FreshInv
<1>5. CASE pc[c] \notin {"applying", "taking"}
  <2>1. /\ UNCHANGED <<version, lastVersion, renewed>>
        /\ pc[c] = "reading" => x = version
    BY <1>1, <1>5 DEF Runs, provider
  <2>2. Fresh(lastVersion, renewed)'
    <3>1. FreshNext(lastVersion, renewed)
      BY <1>0, FreshKept DEF FreshInv, Next
    <3> QED
      BY <2>1, <3>1 DEF Fresh, FreshNext
  <2>3. \A q \in Proc : \A a \in Back(q)' :
            pc'[a.to] \in {"applying", "reading", "taking"} => a.gets <= lastVersion'
    <3> SUFFICES ASSUME NEW q \in Proc, NEW a \in Back(q)',
                        pc'[a.to] \in {"applying", "reading", "taking"}
                 PROVE  a.gets <= lastVersion'
      OBVIOUS
    <3>1. CASE a \in Back(q)
      BY <1>2, <2>1, <3>1 DEF FreshInv
    <3>2. CASE a = [to |-> c, gets |-> x]
      BY <1>0, <1>2, <1>5, <2>1, <3>2 DEF FreshInv, NoVersion
    <3> QED
      BY <1>1, <3>1, <3>2
  <2>4. \A v \in Version : v > lastVersion => values'[v] = NoValue
    <3>1. values' = values \/ values' = [values EXCEPT ![key[c]] = value[c]]
      BY <1>1, <1>5 DEF Runs, provider
    <3>2. \A v \in Version : v > lastVersion => key[c] # v
      <4>1. key[c] <= lastVersion /\ key[c] \in Nat
        BY <1>0 DEF FreshInv
      <4> QED
        BY <1>0, <4>1
    <3> QED
      BY <1>0, <3>1, <3>2 DEF FreshInv
  <2>5. /\ version' \in {NoVersion, lastVersion'} /\ renewed' <= db'
        /\ \A d \in Call : ver'[d] <= lastVersion' /\ key'[d] <= lastVersion'
    BY <1>2, <2>1 DEF FreshInv
  <2> QED
    BY <2>1, <2>2, <2>3, <2>4, <2>5 DEF FreshInv
<1> QED
  BY <1>4, <1>5

LEMMA LinkFresh ==
    ASSUME TypeInv, LinkInv, FreshInv, LinkStep
    PROVE  FreshInv'
<1>1. /\ UNCHANGED <<db, lastVersion, renewed, pc, ver, key, value>>
      /\ version' \in {version, NoVersion}
      /\ \A v \in Version : values'[v] \in {values[v], NoValue}
      /\ \A q \in Proc : Back(q)' \subseteq Back(q)
      /\ lastVersion \in Version
  BY LinkTyped DEF call, TypeInv, TypeOK
<1>2. Fresh(lastVersion, renewed)'
  BY <1>1 DEF FreshInv, Fresh
<1> QED
  BY <1>1, <1>2 DEF FreshInv

LEMMA FreshInvariant == Spec => []FreshInv
<1>1. Init => FreshInv
  BY InitFresh
<1>2. TypeInv /\ LinkInv /\ FreshInv /\ [Next]_vars => FreshInv'
  <2> SUFFICES ASSUME TypeInv, LinkInv, FreshInv, [Next]_vars PROVE FreshInv'
    OBVIOUS
  <2>1. CASE UNCHANGED vars
    BY <2>1 DEF vars, provider, link, call, FreshInv, Fresh, Back
  <2> QED
    BY <2>1, NextSteps, CallFresh, ExecuteFresh, LinkFresh
<1> QED
  BY <1>1, <1>2, TypeInvariant, PTL DEF Spec

\* No value older than the last fresh version is ever cached under the current
\* version, whatever load, eviction or drop comes between.
THEOREM CachedValuesFresh == Spec => []CachedNotStale
<1>1. TypeInv /\ FreshInv => CachedNotStale
  BY DEF FreshInv, Fresh, CachedNotStale
<1> QED
  BY <1>1, TypeInvariant, FreshInvariant, PTL

-----------------------------------------------------------------------------
(* The runs that are shared *)

\* What has ended was called, and stays so; what was called stays called.
LEMMA CalledStays ==
    ASSUME TypeOK, NEW c \in Call, CallStep(c)
    PROVE  /\ CallsSoFar \subseteq CallsSoFar'
           /\ \A i \in Call : (Ended(i) => Ended(i)') /\ (Ended(i) => Called(i))
           /\ \A i \in Call : Called(i)' => Called(i) \/ i = c
<1>1. /\ \A d \in Call \ {c} : pc'[d] = pc[d]
      /\ pc'[c] # "idle" /\ ~Ended(c)
      /\ pc'[c] = "written" => pc[c] = "idle"
  BY CallOrder
<1>2. \A i \in Call : Called(i) => Called(i)'
  BY <1>1 DEF Called
<1>3. \A i \in Call : (Ended(i) => Ended(i)') /\ (Ended(i) => Called(i))
  BY <1>1 DEF Called, Ended
<1>4. \A i \in Call : Called(i)' => Called(i) \/ i = c
  BY <1>1 DEF Called
<1> QED
  BY <1>2, <1>3, <1>4 DEF CallsSoFar, Call

LEMMA CallJoins ==
    ASSUME TypeInv, LinkInv, JoinInv, NEW c \in Call, CallStep(c)
    PROVE  JoinInv'
<1> DEFINE q == ProcOf[c]
<1>0. /\ TypeOK /\ PlaceInv /\ q \in Proc /\ ProcOf \in [Call -> Proc] /\ None \notin Call
      /\ versionReads \in [Proc -> Call \cup {None}] /\ inflight \in [Proc -> SUBSET Call]
      /\ joined \in [Call -> Call \cup {None}]
      /\ past \in [Call -> SUBSET Invalidator] /\ known \in [Call -> SUBSET Invalidator]
  <2>1. TypeOK /\ PlaceInv
    BY DEF TypeInv
  <2>2. /\ versionReads \in [Proc -> Call \cup {None}] /\ inflight \in [Proc -> SUBSET Call]
        /\ joined \in [Call -> Call \cup {None}]
        /\ past \in [Call -> SUBSET Invalidator] /\ known \in [Call -> SUBSET Invalidator]
    BY <2>1 DEF TypeOK
  <2>3. q \in Proc /\ ProcOf \in [Call -> Proc] /\ None \notin Call
    BY CallsFinite
  <2> QED
    BY <2>1, <2>2, <2>3
<1>1. /\ CallsSoFar \subseteq CallsSoFar'
      /\ \A i \in Call : (Ended(i) => Ended(i)') /\ (Ended(i) => Called(i))
      /\ \A i \in Call : Called(i)' => Called(i) \/ i = c
  BY <1>0, CalledStays
<1>2. \A d \in Call \ {c} : joined'[d] = joined[d] /\ past'[d] = past[d] /\ known'[d] = known[d]
  BY <1>0, CallFrame
<1>3. Origin(c, pc'[c]) /\ Keeps(c, pc'[c])
  BY CallOrigin
<1>4. known'[c] = CallsSoFar \/ (known'[c] = known[c] /\ pc'[c] \notin {"reading", "loading"})
  BY <1>3 DEF Origin, Keeps
<1>5. \A p \in Proc : \A r \in Shared(p)' : \A i \in Invalidator :
          ProcOf[i] = p /\ Called(i)' => i \in known'[r]
  <2> SUFFICES ASSUME NEW p \in Proc, NEW r \in Shared(p)', NEW i \in Invalidator,
                      ProcOf[i] = p, Called(i)'
               PROVE  i \in known'[r]
    OBVIOUS
  <2>1. r \in Call /\ i \in Call
    BY DEF Shared, Call
  <2>2. Called(i)
    <3>1. CASE i = c
      <4>1. Called(c) \/ (versionReads'[p] = None /\ inflight'[p] = {})
        BY <1>0, <3>1, CallMaps
      <4> QED
        BY <1>0, <2>1, <3>1, <4>1 DEF Shared
    <3> QED
      BY <1>1, <2>1, <3>1
  <2>3. CASE known'[r] = CallsSoFar
    BY <2>2, <2>3 DEF CallsSoFar
  <2>4. CASE known'[r] = known[r] /\ (r = c => pc'[c] \notin {"reading", "loading"})
    <3>1. r \in Shared(p)
      BY <1>0, <2>1, <2>4, CallMaps DEF Shared
    <3> QED
      BY <2>2, <2>4, <3>1 DEF JoinInv
  <2> QED
    BY <1>2, <1>4, <2>1, <2>3, <2>4
<1>6. \A d \in Call : known'[d] \subseteq CallsSoFar'
  BY <1>1, <1>2, <1>4 DEF JoinInv
<1>7. \A d \in Call : \A i \in past'[d] : Ended(i)'
  <2>1. past'[c] = past[c] \/ past'[c] = {i \in Invalidator : Ended(i)}
    BY <1>3 DEF Keeps
  <2>2. \A d \in Call : \A i \in past'[d] : i \in Call /\ Ended(i)
    BY <1>0, <1>2, <2>1 DEF JoinInv, Call
  <2> QED
    BY <1>1, <2>2
<1>8. \A d \in Reader : joined'[d] # None =>
          \A i \in past'[d] : ProcOf[i] = ProcOf[d] => i \in known'[joined'[d]]
  <2> SUFFICES ASSUME NEW d \in Reader, joined'[d] # None, NEW i \in past'[d], ProcOf[i] = ProcOf[d]
               PROVE  i \in known'[joined'[d]]
    OBVIOUS
  <2>0. d \in Call
    BY DEF Call
  <2>1. CASE d # c
    <3>1. joined'[d] = joined[d] /\ i \in past[d]
      BY <1>2, <2>0, <2>1
    <3>2. joined[d] \in Call /\ i \in Invalidator /\ i \in known[joined[d]] /\ Ended(i)
      BY <1>0, <2>0, <3>1 DEF JoinInv, NoStaleJoin
    <3>3. i \in CallsSoFar
      BY <1>1, <3>2 DEF CallsSoFar, Call
    <3> QED
      BY <1>2, <1>4, <3>1, <3>2, <3>3
  <2>2. CASE d = c
    <3>1. pc'[c] \in {"sharing", "awaiting"}
      BY <2>0, <2>2, CallPlaces DEF PlaceInv
    <3>2. joined'[c] \in Shared(q) /\ joined'[c] # c /\ pc[c] # "idle"
      <4>1. CASE pc'[c] = "sharing"
        <5>1. joined'[c] = versionReads[q] /\ joined'[c] \in Call /\ pc[c] = "entered"
          BY <1>0, <1>3, <4>1 DEF Origin
        <5>2. pc[joined'[c]] \in {"reading", "taking"}
          BY <1>0, <5>1 DEF TypeOK
        <5> QED
          BY <5>1, <5>2 DEF Shared
      <4>2. CASE pc'[c] = "awaiting"
        <5>1. joined'[c] \in inflight[q] /\ joined'[c] \in Call /\ pc[c] = "wanting"
          BY <1>0, <1>3, <4>2 DEF Origin
        <5>2. pc[joined'[c]] \in {"loading", "loaded", "storing"}
          BY <1>0, <5>1 DEF TypeOK
        <5> QED
          BY <5>1, <5>2 DEF Shared
      <4> QED
        BY <3>1, <4>1, <4>2
    <3>3. i \in past[c] /\ i \in Invalidator /\ Ended(i) /\ Called(i)
      BY <1>0, <1>1, <1>3, <2>2, <3>2 DEF Keeps, JoinInv, Call
    <3>4. i \in known[joined'[c]] /\ joined'[c] \in Call
      BY <1>0, <2>2, <3>2, <3>3 DEF JoinInv, Shared
    <3> QED
      BY <1>2, <2>2, <3>2, <3>4
  <2> QED
    BY <2>1, <2>2
<1>9. \A d \in Call : pc'[d] \in {"reading", "taking"} => past'[d] \subseteq known'[d]
  <2> SUFFICES ASSUME NEW d \in Call, pc'[d] \in {"reading", "taking"}
               PROVE  past'[d] \subseteq known'[d]
    OBVIOUS
  <2>1. CASE d # c
    <3>1. pc'[d] = pc[d]
      BY <1>0, <2>1, CallFrame
    <3> QED
      BY <1>2, <2>1, <3>1 DEF JoinInv
  <2>2. CASE d = c /\ pc'[c] = "taking"
    BY <1>3, <2>2 DEF Origin, Keeps, JoinInv
  <2>3. CASE d = c /\ pc'[c] = "reading"
    <3>1. known'[c] = CallsSoFar /\ past'[c] = past[c]
      BY <1>3, <2>3 DEF Origin, Keeps
    <3>2. past[c] \subseteq CallsSoFar
      BY <1>0, <1>1 DEF JoinInv, CallsSoFar, Call
    <3> QED
      BY <2>3, <3>1, <3>2
  <2> QED
    BY <2>1, <2>2, <2>3
<1> QED
  BY <1>5, <1>6, <1>7, <1>8, <1>9 DEF JoinInv, NoStaleJoin

LEMMA JoinInvariant == Spec => []JoinInv
<1>1. Init => JoinInv
  <2> SUFFICES ASSUME Init PROVE JoinInv
    OBVIOUS
  <2>1. /\ \A p \in Proc : versionReads[p] = None /\ inflight[p] = {}
        /\ \A c \in Call : past[c] = {} /\ known[c] = {} /\ joined[c] = None
        /\ \A c \in Call : pc[c] = "idle"
        /\ None \notin Call
    BY CallsFinite DEF Init
  <2>2. \A p \in Proc : Shared(p) = {}
    BY <2>1 DEF Shared
  <2> QED
    BY <2>1, <2>2 DEF JoinInv, NoStaleJoin, Call
<1>2. TypeInv /\ LinkInv /\ JoinInv /\ [Next]_vars => JoinInv'
  <2> SUFFICES ASSUME TypeInv, LinkInv, JoinInv, [Next]_vars PROVE JoinInv'
    OBVIOUS
  <2>1. CASE \E c \in Call : CallStep(c)
    BY <2>1, CallJoins
  <2>2. CASE ~\E c \in Call : CallStep(c)
    <3>1. UNCHANGED <<pc, versionReads, inflight, joined, past, known>>
      BY <2>2, NextSteps, ExecuteStep, LinkTyped DEF local, call, history, vars
    <3>2. \A p \in Proc : Shared(p)' = Shared(p)
      BY <3>1 DEF Shared
    <3>3. CallsSoFar' = CallsSoFar /\ \A i : (Called(i)' <=> Called(i)) /\ (Ended(i)' <=> Ended(i))
      BY <3>1 DEF CallsSoFar, Called, Ended
    <3>4. NoStaleJoin'
      BY <3>1 DEF JoinInv, NoStaleJoin
    <3> QED
      BY <3>1, <3>2, <3>3, <3>4 DEF JoinInv
  <2> QED
    BY <2>1, <2>2
<1> QED
  BY <1>1, <1>2, TypeInvariant, PTL DEF Spec

\* A read that starts after an invalidation of its process has ended joins no run
\* that started before that invalidation.
THEOREM JoinsAreFresh == Spec => []NoStaleJoin
<1>1. JoinInv => NoStaleJoin
  BY DEF JoinInv
<1> QED
  BY <1>1, JoinInvariant, PTL

-----------------------------------------------------------------------------
(* The invalidations the provider missed *)

\* What a call does to `missed`: an invalidation sets it, the answer to an applied
\* one clears it, and a call that applies found it set or has just set it.
LEMMA CallMissed ==
    ASSUME TypeInv, NEW c \in Call, CallStep(c)
    PROVE  LET p == ProcOf[c] IN
           /\ \A q \in Proc \ {p} : missed'[q] = missed[q]
           /\ \/ missed'[p] = missed[p]
              \/ missed'[p] = TRUE /\ c \in Invalidator /\ Called(c)'
              \/ missed'[p] = FALSE /\ pc[c] = "applying" /\ \E x : HasAnswer(c, x)
           /\ c \in Invalidator /\ ~Called(c) /\ Called(c)' => missed'[p] = TRUE
           /\ pc'[c] = "applying" => c \in Invalidator \/ missed[p] = TRUE
<1>0. /\ TypeOK /\ ProcOf[c] \in Proc /\ Reader \cap Invalidator = {} /\ missed \in [Proc -> BOOLEAN]
      /\ pc \in [Call -> States]
      /\ c \in Invalidator => pc[c] \in {"idle", "written", "applying", "done"}
      /\ pc[c] = "written" => c \in Invalidator
  <2>1. TypeOK /\ PlaceInv
    BY DEF TypeInv
  <2>2. missed \in [Proc -> BOOLEAN] /\ pc \in [Call -> States]
    BY <2>1 DEF TypeOK
  <2> QED
    BY <2>1, <2>2, CallsFinite, CacheServiceAssumption DEF PlaceInv, Call, CacheServiceAssumption
<1> USE DEF Goto, Called, local
<1>1. CASE WriteData(c) \/ StartRead(c)
  BY <1>0, <1>1 DEF WriteData, StartRead, Send
<1>2. CASE Invalidate(c)
  BY <1>0, <1>2 DEF Invalidate, Send
<1>3. CASE Applied(c)
  <2>1. pc[c] = "applying" /\ \E x : HasAnswer(c, x)
    BY <1>0, <1>3, HeadAnswer DEF Applied
  <2> QED
    BY <1>0, <1>3, <2>1 DEF Applied, AfterApply
<1>4. CASE NotApplied(c)
  BY <1>0, <1>4 DEF NotApplied, AfterApply, Fails
<1>5. CASE ~(\/ WriteData(c) \/ StartRead(c) \/ Invalidate(c) \/ Applied(c) \/ NotApplied(c))
  <2>1. missed' = missed /\ pc[c] \notin {"idle", "written", "applying"} /\ pc'[c] # "applying"
    BY <1>0, <1>5 DEF CallStep, Proceed, Bypass, JoinVersionRead, ReadVersion,
       GotVersion, VersionMissing, VersionFailed, VersionShared, GetValue, Hit, Miss, GetFailed,
       JoinLoad, StartLoad, Load, LoadFails, Store, Return, Stored, LoadShared, Arrives, Fails,
       Ended, Send, FallBack
  <2> QED
    BY <1>0, <2>1
<1> QED
  BY <1>1, <1>2, <1>3, <1>4, <1>5

LEMMA CallApplied ==
    ASSUME TypeInv, LinkInv, FreshInv, AppliedInv, CalledAlone, NEW c \in Call, CallStep(c)
    PROVE  AppliedInv'
<1> DEFINE q == ProcOf[c]
<1>0. /\ TypeOK /\ PlaceInv /\ q \in Proc
      /\ db \in Nat /\ db' \in {db, db + 1} /\ renewed' = renewed /\ value \in [Call -> Value]
      /\ Value \subseteq Nat /\ \A i \in Call : value[i] \in Nat
      /\ missed \in [Proc -> BOOLEAN]
  <2>1. TypeOK /\ PlaceInv
    BY DEF TypeInv
  <2>2. missed \in [Proc -> BOOLEAN]
    BY <2>1 DEF TypeOK
  <2> QED
    BY <2>1, <2>2, CallsFinite, Numbers, CallFrame DEF provider
<1>1. \A d \in Call \ {c} : value'[d] = value[d] /\ pc'[d] = pc[d]
  BY <1>0, CallFrame
<1>2. Keeps(c, pc'[c])
  BY CallOrigin
<1>3. /\ \A p \in Proc \ {q} : missed'[p] = missed[p]
      /\ \/ missed'[q] = missed[q]
         \/ missed'[q] = TRUE /\ c \in Invalidator /\ Called(c)'
         \/ missed'[q] = FALSE /\ pc[c] = "applying" /\ \E x : HasAnswer(c, x)
      /\ c \in Invalidator /\ ~Called(c) /\ Called(c)' => missed'[q] = TRUE
      /\ pc'[c] = "applying" => c \in Invalidator \/ missed[q] = TRUE
  BY CallMissed
<1>4. \A i \in Call : (Called(i) => Called(i)') /\ (Called(i)' => Called(i) \/ i = c)
  BY <1>1, CallOrder, <1>0 DEF Called
<1>5. \A i \in Invalidator : i \in Call /\ (Called(i) => value'[i] = value[i])
  BY <1>1, <1>2 DEF Keeps, Call
<1>6. \A i \in Invalidator : value'[i] <= db'
  <2> SUFFICES ASSUME NEW i \in Invalidator PROVE value'[i] <= db'
    OBVIOUS
  <2>1. value[i] <= db /\ value[i] \in Nat
    BY <1>0, <1>5 DEF AppliedInv
  <2>2. value'[i] = value[i] \/ (value'[i] = db + 1 /\ db' = db + 1)
    BY <1>1, <1>2, <1>5 DEF Keeps
  <2> QED
    BY <1>0, <2>1, <2>2
\* A step that is not the call of an invalidation of p.
<1>7. ASSUME NEW p \in Proc, AllApplied(p),
             c \in Invalidator /\ ProcOf[c] = p => Called(c) \/ ~Called(c)'
      PROVE  AllApplied(p)'
  BY <1>0, <1>4, <1>5, <1>7 DEF AllApplied
<1>8. \A p \in Proc : missed'[p] \/ AllApplied(p)'
  <2> SUFFICES ASSUME NEW p \in Proc, ~missed'[p] PROVE AllApplied(p)'
    OBVIOUS
  <2>1. AllApplied(p)
    <3>1. CASE missed'[p] = missed[p]
      BY <3>1 DEF AppliedInv
    <3>2. CASE p = q /\ pc[c] = "applying" /\ \E x : HasAnswer(c, x)
      BY <1>0, <3>2 DEF HasAnswer, AppliedInv
    <3> QED
      BY <1>3, <3>1, <3>2
  <2>2. c \in Invalidator /\ ProcOf[c] = p => Called(c) \/ ~Called(c)'
    BY <1>3
  <2> QED
    BY <1>7, <2>1, <2>2
<1>9. \A p \in Proc : \A a \in Back(p)' : pc'[a.to] = "applying" => AllApplied(p)'
  <2> SUFFICES ASSUME NEW p \in Proc, NEW a \in Back(p)', pc'[a.to] = "applying"
               PROVE  AllApplied(p)'
    OBVIOUS
  <2>1. a \in Back(p) /\ a.to # c /\ a.to \in Call /\ ProcOf[a.to] = p
    BY <1>0, CallMoves, CallLink, QueueTypes DEF LinkInv, Answer
  <2>2. pc[a.to] = "applying" /\ AllApplied(p)
    BY <1>1, <2>1 DEF AppliedInv
  <2>3. c \in Invalidator /\ ProcOf[c] = p => Called(c) \/ ~Called(c)'
    BY <2>1, <2>2 DEF CalledAlone
  <2> QED
    BY <1>7, <2>2, <2>3
<1> QED
  BY <1>6, <1>8, <1>9 DEF AppliedInv

LEMMA ExecuteApplied ==
    ASSUME TypeInv, LinkInv, FreshInv, AppliedInv, NEW p \in Proc, Execute(p)
    PROVE  AppliedInv'
<1>0. /\ TypeOK /\ db \in Nat /\ renewed \in Nat /\ \A i \in Call : value[i] \in Nat
      /\ renewed <= db /\ \A i \in Invalidator : i \in Call
  BY Numbers DEF TypeInv, FreshInv, Call
<1>1. PICK c \in Call, x \in Version \cup Value \cup {NoVersion, NoValue} :
         /\ Runs(c, x) /\ ProcOf[c] = p
         /\ \A q \in Proc : \A a \in Back(q)' : a \in Back(q) \/ a = [to |-> c, gets |-> x]
  BY ExecuteStep
<1>2. UNCHANGED <<db, missed, pc, value>>
  BY ExecuteStep DEF local, call
<1>3. renewed' = renewed \/ renewed' = db
  BY <1>1 DEF Runs, TakeVersion, provider
<1>4. \A q \in Proc : AllApplied(q) => AllApplied(q)'
  BY <1>0, <1>2, <1>3 DEF AllApplied, Called
<1>5. pc[c] = "applying" => \A q \in Proc : AllApplied(q)'
  <2> SUFFICES ASSUME pc[c] = "applying", NEW q \in Proc PROVE AllApplied(q)'
    OBVIOUS
  <2>1. renewed' = db
    BY <1>1 DEF Runs, TakeVersion
  <2> QED
    BY <1>2, <2>1 DEF AllApplied, AppliedInv
<1>6. \A q \in Proc : \A a \in Back(q)' : pc'[a.to] = "applying" => AllApplied(q)'
  BY <1>1, <1>2, <1>4, <1>5 DEF AppliedInv
<1>7. \A q \in Proc : missed'[q] \/ AllApplied(q)'
  BY <1>2, <1>4 DEF AppliedInv
<1>8. \A i \in Invalidator : value'[i] <= db'
  BY <1>2 DEF AppliedInv
<1> QED
  BY <1>6, <1>7, <1>8 DEF AppliedInv

LEMMA LinkApplied ==
    ASSUME TypeInv, LinkInv, AppliedInv, LinkStep
    PROVE  AppliedInv'
<1>1. /\ UNCHANGED <<db, renewed, missed, pc, value>>
      /\ \A q \in Proc : Back(q)' \subseteq Back(q)
  BY LinkTyped DEF local, call
<1>2. \A q : AllApplied(q)' <=> AllApplied(q)
  BY <1>1 DEF AllApplied, Called
<1> QED
  BY <1>1, <1>2 DEF AppliedInv, Called

LEMMA AppliedInvariant == Spec /\ NoOverlap => []AppliedInv
<1>1. Init => AppliedInv
  <2> SUFFICES ASSUME Init PROVE AppliedInv
    OBVIOUS
  <2>1. /\ db = 1 /\ \A c \in Call : value[c] = 1 /\ pc[c] = "idle"
        /\ \A p \in Proc : ~missed[p]
        /\ \A i \in Invalidator : i \in Call
    BY DEF Init, Call
  <2>2. \A p \in Proc : Back(p) = {}
    BY DEF Init, Back
  <2>3. \A p \in Proc : AllApplied(p)
    BY <2>1 DEF AllApplied, Called
  <2> QED
    BY <2>1, <2>2, <2>3 DEF AppliedInv
<1>2. TypeInv /\ LinkInv /\ FreshInv /\ AppliedInv /\ [Next]_vars /\ [CalledAlone]_vars => AppliedInv'
  <2> SUFFICES ASSUME TypeInv, LinkInv, FreshInv, AppliedInv, [Next]_vars, [CalledAlone]_vars
               PROVE  AppliedInv'
    OBVIOUS
  <2>1. CASE UNCHANGED vars
    <3>1. UNCHANGED <<db, renewed, missed, pc, value, answered>>
      BY <2>1 DEF vars, provider, link, local, call
    <3> QED
      BY <3>1 DEF AppliedInv, AllApplied, Called, Back
  <2> QED
    BY <2>1, NextSteps, CallApplied, ExecuteApplied, LinkApplied
<1> QED
  BY <1>1, <1>2, TypeInvariant, FreshInvariant, PTL DEF Spec, NoOverlap

\* An invalidation that has ended and is not in `missed` had its fresh version set
\* after its data was written, however many invalidations a process makes and misses
\* one after the other (invalidate, applyMissed).  Where one is called while a fresh
\* version is being set this is false: that answer clears what it has just recorded.
THEOREM MissedInvalidationsKept == Spec /\ NoOverlap => []MissedKept
<1>1. AppliedInv /\ TypeInv => MissedKept
  <2> SUFFICES ASSUME AppliedInv, TypeInv, NEW i \in Invalidator, Ended(i), ~missed[ProcOf[i]]
               PROVE  value[i] <= renewed
    BY DEF MissedKept
  <2>1. ProcOf[i] \in Proc /\ Called(i)
    BY CallsFinite DEF Call, Called, Ended
  <2> QED
    BY <2>1 DEF AppliedInv, AllApplied
<1> QED
  BY <1>1, TypeInvariant, AppliedInvariant, PTL

-----------------------------------------------------------------------------
(* What a read returns *)

\* ReadsSince(r, x)' for an x of the state before the step.
ReadsNext(r, x) ==
    IF pc'[r] \in {"reading", "taking"}
    THEN /\ x <= renewed'
         /\ \A a \in Back(ProcOf[r])' : a.to = r /\ a.gets # NoVersion => FreshNext(a.gets, x)
    ELSE ver'[r] # NoVersion => FreshNext(ver'[r], x)

\* A version read keeps giving a version under which nothing is older.
LEMMA ReadsKept ==
    ASSUME TypeInv, LinkInv, FreshInv, FreshInv', [Next]_vars,
           NEW r \in Call, pc[r] \notin {"idle", "written", "applying", "entered", "sharing"},
           NEW x \in Value, x <= db, ReadsSince(r, x)
    PROVE  ReadsNext(r, x)
<1>0. /\ TypeOK /\ ProcOf[r] \in Proc /\ x \in Nat /\ renewed \in Nat /\ db \in Nat /\ renewed <= db
      /\ ver \in [Call -> Version \cup {NoVersion}]
  <2>1. TypeOK
    BY DEF TypeInv
  <2> QED
    BY <2>1, Numbers, CallsFinite DEF FreshInv
<1>1. \A v \in Version : Fresh(v, x) => FreshNext(v, x)
  BY FreshKept
<1>2. \A a \in Back(ProcOf[r]) : a.to = r /\ pc[r] \in {"reading", "taking"} /\ a.gets # NoVersion =>
          a.gets \in Version /\ FreshNext(a.gets, x)
  BY <1>0, <1>1 DEF TypeInv, AnswerOK, ReadsSince
<1>3. pc[r] \notin {"reading", "taking"} /\ ver[r] # NoVersion => FreshNext(ver[r], x)
  BY <1>0, <1>1 DEF ReadsSince
<1>4. ASSUME NEW c \in Call, CallStep(c) PROVE ReadsNext(r, x)
  <2>1. renewed' = renewed /\ \A d \in Call \ {c} : pc'[d] = pc[d] /\ ver'[d] = ver[d]
    BY <1>0, <1>4, CallFrame DEF provider
  <2>2. \A a \in Back(ProcOf[r])' : a \in Back(ProcOf[r]) /\ a.to # c
    BY <1>0, <1>4, CallMoves, CallLink
  <2>3. CASE r # c
    BY <1>2, <1>3, <2>1, <2>2, <2>3 DEF ReadsNext, ReadsSince
  <2>4. CASE r = c /\ pc'[c] \in {"reading", "taking"}
    <3>1. pc[c] = "reading"
      BY <1>4, <2>4, CallOrigin DEF Origin
    <3> QED
      BY <2>1, <2>2, <2>4, <3>1 DEF ReadsNext, ReadsSince
  <2>5. CASE r = c /\ pc'[c] \notin {"reading", "taking"} /\ ver'[c] \in {ver[c], NoVersion}
                   /\ pc[c] \notin {"reading", "taking"}
    BY <1>3, <2>5 DEF ReadsNext
  <2>6. CASE r = c /\ pc'[c] = "versioned"
    <3>1. pc[c] \in {"reading", "taking"} /\ HasAnswer(c, ver'[c]) /\ ver'[c] \in Version
      BY <1>4, <2>6, CallOrigin DEF Origin
    <3>2. FreshNext(ver'[c], x)
      BY <1>0, <1>2, <2>6, <3>1, Numbers DEF HasAnswer
    <3> QED
      BY <2>6, <3>2 DEF ReadsNext
  <2>7. CASE r = c /\ pc'[c] \notin {"reading", "taking", "versioned"} /\ pc[c] \in {"reading", "taking"}
    <3>1. ver'[c] = NoVersion
      BY <1>4, <2>7, CallOrigin DEF Keeps
    <3> QED
      BY <2>7, <3>1 DEF ReadsNext
  <2>8. ver'[c] \in {ver[c], NoVersion} \/ pc'[c] = "versioned"
    BY <1>4, CallOrigin DEF Keeps
  <2> QED
    BY <2>3, <2>4, <2>5, <2>6, <2>7, <2>8
<1>5. ASSUME NEW p \in Proc, Execute(p) PROVE ReadsNext(r, x)
  <2>1. PICK c \in Call, y \in Version \cup Value \cup {NoVersion, NoValue} :
           /\ Runs(c, y) /\ ProcOf[c] = p
           /\ \A q \in Proc : \A a \in Back(q)' : a \in Back(q) \/ a = [to |-> c, gets |-> y]
    BY <1>5, ExecuteStep
  <2>2. UNCHANGED <<pc, ver>>
    BY <1>5, ExecuteStep DEF call
  <2>3. renewed <= renewed'
    BY <1>0, <2>1 DEF Runs, TakeVersion, provider
  <2>4. CASE pc[r] \notin {"reading", "taking"}
    BY <1>3, <2>2, <2>4 DEF ReadsNext
  <2>5. CASE pc[r] \in {"reading", "taking"}
    <3>1. x <= renewed /\ renewed' \in {renewed, db}
      BY <2>1, <2>5 DEF ReadsSince, Runs, TakeVersion, provider
    <3>2. x <= renewed' /\ renewed' \in Nat
      BY <1>0, <3>1
    <3>3. c = r /\ y # NoVersion => FreshNext(y, x)
      <4> SUFFICES ASSUME c = r, y # NoVersion PROVE FreshNext(y, x)
        OBVIOUS
      <4>1. y = version' /\ y = lastVersion'
        BY <2>1, <2>5 DEF Runs, TakeVersion, provider, FreshInv
      <4>2. FreshNext(lastVersion', renewed')
        BY DEF FreshInv, Fresh, FreshNext
      <4>3. \A w \in Value : w >= renewed' => w >= x
        BY <1>0, <3>2 DEF Value
      <4>4. /\ values' \in [Version -> Value \cup {NoValue}] /\ lastVersion' \in Version
            /\ value' \in [Call -> Value]
        BY <1>5, ExecuteTypes DEF TypeInv, TypeOK
      <4> QED
        BY <4>1, <4>2, <4>3, <4>4 DEF FreshNext
    <3>4. \A a \in Back(ProcOf[r])' : a.to = r /\ a.gets # NoVersion => FreshNext(a.gets, x)
      <4> SUFFICES ASSUME NEW a \in Back(ProcOf[r])', a.to = r, a.gets # NoVersion
                   PROVE  FreshNext(a.gets, x)
        OBVIOUS
      <4>1. a \in Back(ProcOf[r]) \/ a = [to |-> c, gets |-> y]
        BY <1>0, <2>1
      <4> QED
        BY <1>2, <2>5, <3>3, <4>1
    <3> QED
      BY <2>2, <2>5, <3>2, <3>4 DEF ReadsNext
  <2> QED
    BY <2>4, <2>5
<1>6. CASE LinkStep
  <2>1. UNCHANGED <<renewed, pc, ver>> /\ \A q \in Proc : Back(q)' \subseteq Back(q)
    BY <1>6, LinkTyped DEF call
  <2> QED
    BY <1>0, <1>2, <1>3, <2>1 DEF ReadsNext, ReadsSince
<1>7. CASE UNCHANGED vars
  <2>1. UNCHANGED <<renewed, pc, ver>> /\ Back(ProcOf[r])' = Back(ProcOf[r])
    BY <1>7 DEF vars, provider, link, call, Back
  <2> QED
    BY <1>2, <1>3, <2>1 DEF ReadsNext, ReadsSince
<1> QED
  BY <1>4, <1>5, <1>6, <1>7, NextSteps

LEMMA CalledValue ==
    ASSUME TypeInv, LinkInv, [Next]_vars, NEW i \in Invalidator, Called(i)
    PROVE  i \in Call /\ value[i] \in Value /\ value'[i] = value[i] /\ Called(i)'
<1>0. TypeOK /\ i \in Call /\ value[i] \in Value
  BY DEF TypeInv, TypeOK, Call
<1>1. ASSUME NEW c \in Call, CallStep(c) PROVE value'[i] = value[i] /\ Called(i)'
  <2>1. CASE i = c
    BY <1>0, <1>1, <2>1, CallOrigin, CalledStays DEF Keeps, CallsSoFar
  <2>2. CASE i # c
    BY <1>0, <1>1, <2>2, CallFrame DEF Called
  <2> QED
    BY <2>1, <2>2
<1>2. CASE ~\E c \in Call : CallStep(c)
  <2>1. UNCHANGED <<value, pc>>
    BY <1>2, NextSteps, ExecuteStep, LinkTyped DEF call, vars
  <2> QED
    BY <1>0, <2>1 DEF Called
<1> QED
  BY <1>0, <1>1, <1>2

LEMMA RunsKept ==
    ASSUME TypeInv, LinkInv, FreshInv, FreshInv', JoinInv, AppliedInv, RunInv, [Next]_vars
    PROVE  RunInv'
<1> SUFFICES ASSUME NEW r \in Call, NEW i \in known'[r], ProcOf[i] = ProcOf[r]
             PROVE  /\ pc'[r] \in {"reading", "taking"} => ReadsSince(r, value[i])'
                    /\ pc'[r] \in {"loaded", "storing"} => value'[r] >= value'[i]
  BY DEF RunInv
<1>0. /\ TypeOK /\ ProcOf[r] \in Proc /\ db \in Nat /\ renewed \in Nat
      /\ \A d \in Call : value[d] \in Nat
      /\ known \in [Call -> SUBSET Invalidator]
  <2>1. TypeOK
    BY DEF TypeInv
  <2>2. known \in [Call -> SUBSET Invalidator]
    BY <2>1 DEF TypeOK
  <2> QED
    BY <2>1, <2>2, Numbers, CallsFinite
<1>1. ASSUME i \in known[r]
      PROVE  /\ i \in Call /\ value[i] \in Value /\ value'[i] = value[i] /\ value[i] <= db
             /\ pc[r] \in {"reading", "taking"} => ReadsSince(r, value[i])
             /\ pc[r] \in {"loaded", "storing"} => value[r] >= value[i]
             /\ pc[r] \in {"reading", "taking"} /\ pc'[r] \in {"reading", "taking"} =>
                   ReadsSince(r, value[i])'
  <2>1. i \in Invalidator /\ Called(i)
    BY <1>0, <1>1 DEF JoinInv, CallsSoFar
  <2>2. i \in Call /\ value[i] \in Value /\ value'[i] = value[i] /\ value[i] <= db
    BY <2>1, CalledValue DEF AppliedInv
  <2>3. /\ pc[r] \in {"reading", "taking"} => ReadsSince(r, value[i])
        /\ pc[r] \in {"loaded", "storing"} => value[r] >= value[i]
    BY <1>1 DEF RunInv
  <2>4. ASSUME pc[r] \in {"reading", "taking"}, pc'[r] \in {"reading", "taking"}
        PROVE  ReadsSince(r, value[i])'
    <3>1. ReadsNext(r, value[i])
      BY <2>2, <2>3, <2>4, ReadsKept
    <3> QED
      BY <2>2, <2>4, <3>1 DEF ReadsNext, ReadsSince, FreshNext, Fresh
  <2> QED
    BY <2>2, <2>3, <2>4
<1>2. ASSUME NEW c \in Call, CallStep(c), r # c
      PROVE  /\ pc'[r] \in {"reading", "taking"} => ReadsSince(r, value[i])'
             /\ pc'[r] \in {"loaded", "storing"} => value'[r] >= value'[i]
  <2>1. pc'[r] = pc[r] /\ value'[r] = value[r] /\ i \in known[r]
    BY <1>0, <1>2, CallFrame
  <2> QED
    BY <1>1, <2>1
<1>3. ASSUME CallStep(r)
      PROVE  /\ pc'[r] \in {"reading", "taking"} => ReadsSince(r, value[i])'
             /\ pc'[r] \in {"loaded", "storing"} => value'[r] >= value'[i]
  <2>0. Origin(r, pc'[r]) /\ Keeps(r, pc'[r])
    BY <1>3, CallOrigin
  <2>1. CASE pc'[r] \in {"taking", "loaded", "storing"}
    <3>1. i \in known[r]
      BY <2>0, <2>1 DEF Keeps
    <3>2. /\ pc'[r] = "taking" => pc[r] = "reading"
          /\ pc'[r] = "loaded" => value'[r] = db
          /\ pc'[r] = "storing" => pc[r] = "loaded" /\ value'[r] = value[r]
      BY <2>0 DEF Origin
    <3> QED
      BY <1>0, <1>1, <2>1, <3>1, <3>2
  <2>2. CASE pc'[r] = "reading"
    <3>1. pc[r] = "entered" /\ ~missed[ProcOf[r]] /\ i \in CallsSoFar
      BY <2>0, <2>2 DEF Origin
    <3>2. i \in Invalidator /\ Called(i) /\ value[i] <= renewed /\ value'[i] = value[i]
      BY <1>0, <3>1, CalledValue DEF CallsSoFar, AppliedInv, AllApplied
    <3>3. renewed' = renewed /\ \A a \in Back(ProcOf[r])' : a.to # r
      BY <1>0, <1>3, CallFrame, CallMoves, CallLink DEF provider
    <3> QED
      BY <2>2, <3>2, <3>3 DEF ReadsSince
  <2> QED
    BY <2>1, <2>2
<1>4. CASE ~\E c \in Call : CallStep(c)
  <2>1. UNCHANGED <<pc, value, known>>
    BY <1>4, NextSteps, ExecuteStep, LinkTyped DEF call, history, vars
  <2> QED
    BY <1>1, <2>1
<1> QED
  BY <1>2, <1>3, <1>4

LEMMA ReadsOwn ==
    ASSUME TypeInv, LinkInv, FreshInv, FreshInv', JoinInv, AppliedInv, RunInv, OwnInv, [Next]_vars
    PROVE  OwnInv'
<1> DEFINE Own(c, i) ==
             /\ pc[c] \in {"versioned", "getting"} => Fresh(ver[c], value[i])
             /\ pc[c] = "sharing" => ReadsSince(joined[c], value[i])
             /\ pc[c] = "getting" => \A a \in Back(ProcOf[c]) :
                   a.to = c /\ a.gets # NoValue => a.gets >= value[i]
             /\ pc[c] \in {"loaded", "storing", "done"} => value[c] >= value[i]
             /\ pc[c] = "awaiting" /\ pc[joined[c]] \in {"loaded", "storing", "done"} =>
                   value[joined[c]] >= value[i]
<1> SUFFICES ASSUME NEW c \in Reader, NEW i \in past'[c], ProcOf[i] = ProcOf[c]
             PROVE  Own(c, i)'
  BY DEF OwnInv
<1>0. /\ TypeOK /\ PlaceInv /\ ProcOf[c] \in Proc /\ c \in Call /\ c \notin Invalidator
      /\ db \in Nat /\ NoVersion \notin Version /\ NoValue \notin Value
      /\ values \in [Version -> Value \cup {NoValue}]
      /\ past \in [Call -> SUBSET Invalidator] /\ joined \in [Call -> Call \cup {None}]
  <2>1. TypeOK /\ PlaceInv
    BY DEF TypeInv
  <2>2. past \in [Call -> SUBSET Invalidator] /\ joined \in [Call -> Call \cup {None}]
    BY <2>1 DEF TypeOK
  <2>3. c \in Call /\ c \notin Invalidator
    BY CacheServiceAssumption DEF CacheServiceAssumption, Call
  <2>4. NoValue \notin Value
    BY DEF NoValue, Value
  <2> QED
    BY <2>1, <2>2, <2>3, <2>4, Numbers, CallsFinite
\* The value of an invalidation that has ended is the same after the step.
<1>1. ASSUME i \in past[c]
      PROVE  /\ i \in Invalidator /\ Called(i) /\ i \in Call /\ value[i] \in Value
             /\ value'[i] = value[i] /\ value[i] <= db /\ value[i] \in Nat
             /\ Own(c, i)
  <2>1. i \in Invalidator /\ Ended(i)
    BY <1>0, <1>1 DEF JoinInv
  <2>2. Called(i)
    BY <2>1 DEF Ended, Called
  <2>3. i \in Call /\ value[i] \in Value /\ value'[i] = value[i] /\ value[i] <= db
    BY <2>1, <2>2, CalledValue DEF AppliedInv
  <2>4. value[i] \in Nat
    BY <1>0, <2>3, Numbers
  <2>5. Own(c, i)
    BY <1>1 DEF OwnInv
  <2> QED
    BY <2>1, <2>2, <2>3, <2>4, <2>5
<1>2. ASSUME i \in past[c], NEW v \in Version, Fresh(v, value[i]) PROVE FreshNext(v, value[i])
  BY <1>1, <1>2, FreshKept
<1>3. ASSUME i \in past[c], NEW r \in Call, ReadsSince(r, value[i]),
             pc[r] \notin {"idle", "written", "applying", "entered", "sharing"}
      PROVE  ReadsNext(r, value[i])
  BY <1>1, <1>3, ReadsKept
\* Own(c, i)' follows from what is so of the value before the step.
<1>4. ASSUME i \in past[c],
             pc'[c] \in {"versioned", "getting"} => FreshNext(ver'[c], value[i]),
             \A r \in Call : pc'[c] = "sharing" /\ joined'[c] = r => ReadsNext(r, value[i]),
             pc'[c] = "sharing" => joined'[c] \in Call,
             pc'[c] = "getting" => \A a \in Back(ProcOf[c])' :
                a.to = c /\ a.gets # NoValue => a.gets >= value[i],
             pc'[c] \in {"loaded", "storing", "done"} => value'[c] >= value[i],
             pc'[c] = "awaiting" /\ pc'[joined'[c]] \in {"loaded", "storing", "done"} =>
                value'[joined'[c]] >= value[i]
      PROVE  Own(c, i)'
  <2>1. value'[i] = value[i]
    BY <1>1, <1>4
  <2>2. pc'[c] \in {"versioned", "getting"} => Fresh(ver[c], value[i])'
    BY <1>4, <2>1 DEF FreshNext, Fresh
  <2>3. pc'[c] = "sharing" => ReadsSince(joined[c], value[i])'
    <3> SUFFICES ASSUME NEW r \in Call, pc'[c] = "sharing", joined'[c] = r
                 PROVE  ReadsSince(r, value[i])'
      BY <1>4 DEF ReadsSince
    <3>1. ReadsNext(r, value[i])
      BY <1>4
    <3> QED
      BY <2>1, <3>1 DEF FreshNext, Fresh, ReadsNext, ReadsSince
  <2> QED
    BY <1>4, <2>1, <2>2, <2>3
\* A step that is not of c.
<1>5. ASSUME pc'[c] = pc[c], ver'[c] = ver[c], joined'[c] = joined[c], value'[c] = value[c],
             i \in past[c],
             \A a \in Back(ProcOf[c])' : a.to = c /\ pc[c] = "getting" /\ a.gets # NoValue =>
                \/ a \in Back(ProcOf[c])
                \/ a.gets = values[ver[c]],
             pc[c] = "awaiting" /\ pc'[joined[c]] \in {"loaded", "storing", "done"} =>
                value'[joined[c]] >= value[i]
      PROVE  Own(c, i)'
  <2>1. pc[c] \in {"versioned", "getting"} => ver[c] \in Version
    BY <1>0 DEF PlaceInv
  <2>2. pc[c] = "sharing" =>
           /\ joined[c] \in Call
           /\ pc[joined[c]] \notin {"idle", "written", "applying", "entered", "sharing"}
    BY <1>0 DEF PlaceInv
  <2>3. pc'[c] \in {"versioned", "getting"} => FreshNext(ver'[c], value[i])
    BY <1>1, <1>2, <1>5, <2>1
  <2>4. \A r \in Call : pc'[c] = "sharing" /\ joined'[c] = r => ReadsNext(r, value[i])
    BY <1>1, <1>3, <1>5, <2>2
  <2>5. pc'[c] = "getting" => \A a \in Back(ProcOf[c])' :
           a.to = c /\ a.gets # NoValue => a.gets >= value[i]
    BY <1>1, <1>5, <2>1 DEF Fresh
  <2>6. pc'[c] \in {"loaded", "storing", "done"} => value'[c] >= value[i]
    BY <1>1, <1>5
  <2> QED
    BY <1>1, <1>4, <1>5, <2>2, <2>3, <2>4, <2>5, <2>6
<1>6. ASSUME NEW d \in Call, CallStep(d), d # c PROVE Own(c, i)'
  <2>1. /\ pc'[c] = pc[c] /\ ver'[c] = ver[c] /\ joined'[c] = joined[c] /\ value'[c] = value[c]
        /\ i \in past[c]
    BY <1>0, <1>6, CallFrame
  <2>2. Back(ProcOf[c])' \subseteq Back(ProcOf[c])
    BY <1>0, <1>6, CallMoves, CallLink
  <2>3. ASSUME pc[c] = "awaiting", pc'[joined[c]] \in {"loaded", "storing", "done"}
        PROVE  value'[joined[c]] >= value[i]
    <3>1. joined[c] \in Call /\ pc[joined[c]] \in {"loading", "loaded", "storing", "done", "threw"}
      BY <1>0, <2>3 DEF PlaceInv
    <3>2. CASE joined[c] # d
      <4>1. pc'[joined[c]] = pc[joined[c]] /\ value'[joined[c]] = value[joined[c]]
        BY <1>0, <1>6, <3>1, <3>2, CallFrame
      <4> QED
        BY <1>1, <2>1, <2>3, <4>1
    <3>3. CASE joined[c] = d
      <4>1. d \notin Invalidator
        BY <1>0, <1>6, <3>1, <3>3, CallOrder DEF PlaceInv, Ended
      <4>2. value'[d] = db \/ (value'[d] = value[d] /\ pc[d] \in {"loaded", "storing"})
        BY <1>6, <2>3, <3>1, <3>3, <4>1, CallOrigin DEF Origin
      <4> QED
        BY <1>0, <1>1, <2>1, <2>3, <3>3, <4>2
    <3> QED
      BY <3>2, <3>3
  <2> QED
    BY <1>5, <2>1, <2>2, <2>3
<1>7. ASSUME CallStep(c) PROVE Own(c, i)'
  <2>0. Origin(c, pc'[c]) /\ Keeps(c, pc'[c]) /\ \A a \in Back(ProcOf[c])' : a.to # c
    BY <1>0, <1>7, CallOrigin, CallMoves, CallLink
  <2>1. CASE pc[c] = "idle"
    <3>1. pc'[c] \notin {"versioned", "getting", "sharing", "loaded", "storing", "done", "awaiting"}
      BY <1>0, <2>0, <2>1 DEF Origin
    <3> QED
      BY <3>1
  <2>2. CASE pc[c] # "idle"
    <3>0. i \in past[c]
      BY <2>0, <2>2 DEF Keeps
    <3>1. pc'[c] \in {"versioned", "getting"} => FreshNext(ver'[c], value[i])
      <4>1. CASE pc'[c] = "versioned" /\ pc[c] \in {"reading", "taking"}
        <5>1. ver'[c] \in Version /\ HasAnswer(c, ver'[c])
          BY <2>0, <4>1 DEF Origin
        <5>2. i \in known[c]
          BY <1>0, <3>0, <4>1 DEF JoinInv
        <5>3. Fresh(ver'[c], value[i])
          BY <1>0, <4>1, <5>1, <5>2 DEF RunInv, ReadsSince, HasAnswer
        <5> QED
          BY <1>2, <3>0, <5>1, <5>3
      <4>2. CASE pc'[c] = "versioned" /\ pc[c] \notin {"reading", "taking"}
        <5>1. /\ ver'[c] \in Version /\ pc[c] = "sharing" /\ ver'[c] = ver[joined[c]]
              /\ pc[joined[c]] \notin {"reading", "taking"}
          BY <2>0, <4>2 DEF Origin
        <5>2. Fresh(ver'[c], value[i])
          BY <1>0, <1>1, <3>0, <5>1 DEF ReadsSince
        <5> QED
          BY <1>2, <3>0, <5>1, <5>2
      <4>3. CASE pc'[c] = "getting"
        <5>1. pc[c] = "versioned" /\ ver'[c] = ver[c]
          BY <2>0, <4>3 DEF Origin
        <5>2. ver[c] \in Version /\ Fresh(ver[c], value[i])
          BY <1>0, <1>1, <3>0, <5>1 DEF PlaceInv
        <5> QED
          BY <1>2, <3>0, <5>1, <5>2
      <4> QED
        BY <4>1, <4>2, <4>3
    <3>2. pc'[c] = "sharing" => joined'[c] = versionReads[ProcOf[c]] /\ joined'[c] # None
      BY <2>0 DEF Origin
    <3>3. pc'[c] = "sharing" => joined'[c] \in Call
      BY <1>0, <3>2 DEF TypeOK
    <3>4. \A r \in Call : pc'[c] = "sharing" /\ joined'[c] = r => ReadsNext(r, value[i])
      <4> SUFFICES ASSUME NEW r \in Call, pc'[c] = "sharing", joined'[c] = r
                   PROVE  ReadsNext(r, value[i])
        OBVIOUS
      <4>1. /\ r = versionReads[ProcOf[c]] /\ r # None
            /\ pc[r] \in {"reading", "taking"} /\ r \in Shared(ProcOf[c])
        <5>1. r = versionReads[ProcOf[c]] /\ r # None
          BY <3>2
        <5>2. pc[r] \in {"reading", "taking"}
          BY <1>0, <5>1 DEF TypeOK
        <5> QED
          BY <5>1, <5>2 DEF Shared
      <4>2. i \in known[r] /\ ProcOf[r] = ProcOf[c]
        BY <1>0, <1>1, <3>0, <4>1 DEF JoinInv, PlaceInv
      <4>3. ReadsSince(r, value[i])
        BY <4>1, <4>2 DEF RunInv
      <4> QED
        BY <1>3, <3>0, <4>1, <4>3
    <3>5. pc'[c] \in {"loaded", "storing", "done"} => value'[c] >= value[i]
      <4>1. pc'[c] = "loaded" => value'[c] = db
        BY <2>0 DEF Origin
      <4>2. pc'[c] = "storing" => pc[c] = "loaded" /\ value'[c] = value[c]
        BY <2>0 DEF Origin
      <4>3. CASE pc'[c] = "done"
        <5>1. CASE pc[c] = "getting" /\ value'[c] \in Value /\ HasAnswer(c, value'[c])
          BY <1>0, <1>1, <3>0, <5>1 DEF HasAnswer
        <5>2. CASE pc[c] \in {"loaded", "storing"} /\ value'[c] = value[c]
          BY <1>1, <3>0, <5>2
        <5>3. CASE pc[c] = "awaiting" /\ pc[joined[c]] = "done" /\ value'[c] = value[joined[c]]
          BY <1>1, <3>0, <5>3
        <5> QED
          BY <1>0, <2>0, <4>3, <5>1, <5>2, <5>3 DEF Origin
      <4> QED
        BY <1>0, <1>1, <3>0, <4>1, <4>2, <4>3
    <3>6. pc'[c] = "awaiting" /\ pc'[joined'[c]] \in {"loaded", "storing", "done"} =>
             value'[joined'[c]] >= value[i]
      <4> SUFFICES ASSUME pc'[c] = "awaiting", pc'[joined'[c]] \in {"loaded", "storing", "done"}
                   PROVE  value'[joined'[c]] >= value[i]
        OBVIOUS
      <4>1. joined'[c] \in inflight[ProcOf[c]] /\ pc[c] = "wanting"
        BY <2>0 DEF Origin
      <4>2. joined'[c] \in Call /\ pc[joined'[c]] \in {"loading", "loaded", "storing"}
            /\ joined'[c] \in Shared(ProcOf[c])
        BY <1>0, <4>1 DEF TypeOK, Shared
      <4>3. /\ pc'[joined'[c]] = pc[joined'[c]] /\ value'[joined'[c]] = value[joined'[c]]
            /\ i \in known[joined'[c]] /\ ProcOf[joined'[c]] = ProcOf[c]
        BY <1>0, <1>1, <1>7, <3>0, <4>1, <4>2, CallFrame DEF JoinInv, PlaceInv
      <4> QED
        BY <4>2, <4>3 DEF RunInv
    <3> QED
      BY <1>4, <2>0, <3>0, <3>1, <3>3, <3>4, <3>5, <3>6
  <2> QED
    BY <2>1, <2>2
<1>8. CASE ~\E d \in Call : CallStep(d)
  <2>1. UNCHANGED <<pc, ver, joined, value, past>>
    BY <1>8, NextSteps, ExecuteStep, LinkTyped DEF call, history, vars
  <2>2. \A a \in Back(ProcOf[c])' : a.to = c /\ pc[c] = "getting" =>
           a \in Back(ProcOf[c]) \/ a.gets = values[ver[c]]
    <3>1. ASSUME NEW p \in Proc, Execute(p) PROVE <2>2!:
      <4>1. PICK d \in Call, y \in Version \cup Value \cup {NoVersion, NoValue} :
               /\ Runs(d, y) /\ ProcOf[d] = p
               /\ \A q \in Proc : \A a \in Back(q)' : a \in Back(q) \/ a = [to |-> d, gets |-> y]
        BY <3>1, ExecuteStep
      <4>2. d = c /\ pc[c] = "getting" => y = values[ver[c]]
        BY <4>1 DEF Runs
      <4> QED
        BY <1>0, <4>1, <4>2
    <3>2. CASE LinkStep
      BY <1>0, <3>2, LinkTyped
    <3>3. CASE UNCHANGED vars
      BY <3>3 DEF vars, link, Back
    <3> QED
      BY <1>8, <3>1, <3>2, <3>3, NextSteps
  <2>3. i \in past[c]
    BY <2>1
  <2>4. pc[c] = "awaiting" /\ pc'[joined[c]] \in {"loaded", "storing", "done"} =>
           value'[joined[c]] >= value[i]
    BY <1>1, <2>1, <2>3
  <2> QED
    BY <1>5, <2>1, <2>2, <2>3, <2>4
<1> QED
  BY <1>6, <1>7, <1>8

LEMMA OwnInvariant == Spec /\ NoOverlap => [](RunInv /\ OwnInv)
<1>1. Init => RunInv /\ OwnInv
  <2> SUFFICES ASSUME Init PROVE RunInv /\ OwnInv
    OBVIOUS
  <2>1. \A c \in Call : past[c] = {} /\ known[c] = {}
    BY DEF Init
  <2> QED
    BY <2>1 DEF RunInv, OwnInv, Call
<1>2. /\ TypeInv /\ LinkInv /\ FreshInv /\ JoinInv /\ AppliedInv /\ RunInv /\ OwnInv
      /\ FreshInv' /\ [Next]_vars
      => RunInv' /\ OwnInv'
  BY RunsKept, ReadsOwn
<1> QED
  BY <1>1, <1>2, TypeInvariant, FreshInvariant, JoinInvariant, AppliedInvariant, PTL DEF Spec

\* A read that starts after invalidations of its process have ended returns data
\* that is not older than what was written before each, whether the provider answers,
\* is lost or forgets its keys in between (getOrLoad).
THEOREM ReadsSeeOwnWrites == Spec /\ NoOverlap => []ReadsOwnWrites
<1>1. OwnInv => ReadsOwnWrites
  BY DEF OwnInv, ReadsOwnWrites
<1> QED
  BY <1>1, OwnInvariant, PTL
=============================================================================
