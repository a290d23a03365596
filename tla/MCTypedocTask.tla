---------------------------- MODULE MCTypedocTask ----------------------------
(* Small instances of TypedocTask for TLC. *)
EXTENDS TypedocTask

CONSTANTS p1, p2,           \* builders
          t1, h1, t2, h2,   \* their handles: target and heavy
          l1, l2, heavy,    \* the locks: of each target, and of the profile
          hostNet,          \* their network namespace
          v1, v2            \* versions

Builders == [h \in Handle |-> IF h \in {t1, h1} THEN p1 ELSE p2]
Targets == [p \in Process |-> IF p = p1 THEN t1 ELSE t2]
Heavies == [p \in Process |-> IF p = p1 THEN h1 ELSE h2]
OneSlotEach == [n \in Name |-> 1]
AllOnHost == [h \in Handle |-> hostNet]
OneVersionEach == [p \in Process |-> IF p = p1 THEN v1 ELSE v2]
LockOfEach == [v \in Version |-> IF v = v1 THEN l1 ELSE l2]

\* Version v1 was published before: p1 replaces it, p2 publishes where nothing was.
\* At most one builder ends early: with both ended, only their TypeDocs are left.
\* The builders are of one user, who may remove each record; and only the TypeDoc
\* of p1 may exceed its memory.
OneGoesOn == \E p \in Process : state[HeavyOf[p]] # "ended"
OneUser ==
    \A h \in Handle : state'[h] = "sweep" =>
        \A r \in seen[h] \ seen'[h], kept \in records' : ~SamePath(r, kept) \/ state[h] = "scan"
OneMayExceed == "limit" \notin marks'[p2]
MCNext == DocNext /\ OneGoesOn' /\ OneUser /\ OneMayExceed
MCInit == DocInit /\ latest.version = v1
MCSpec == MCInit /\ [][MCNext]_docVars
FairMCSpec == MCSpec /\ DocFairness
=============================================================================
