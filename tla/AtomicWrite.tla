---------------------------- MODULE AtomicWrite ----------------------------
(***************************************************************************)
(* What a file change set promises ("a group of file writes that lands     *)
(* whole or not at all"): each run asks for a group of writes, and the     *)
(* tree changes only when a group lands, by all of its writes at once.     *)
(***************************************************************************)
CONSTANTS
    Run,       \* runs of applyChangeSet
    Target,    \* files
    Content,   \* file contents
    Absent     \* the content of a file that does not exist

VARIABLES
    tree,      \* tree[t]: the content of file t, as its readers are promised it
    group,     \* group[r]: the writes run r asked for, by target
    outcome    \* outcome[r]: whether the group of r is open, landed or was dropped

Groups == UNION {[D -> Content] : D \in SUBSET Target}

Apply(g) == [t \in Target |-> IF t \in DOMAIN g THEN g[t] ELSE tree[t]]

Init ==
    /\ tree \in [Target -> Content \cup {Absent}]
    /\ group = [r \in Run |-> [t \in {} |-> Absent]]
    /\ outcome = [r \in Run |-> "idle"]

\* A run that finds nothing to write is dropped at once.
Ask(r) ==
    /\ outcome[r] = "idle"
    /\ \E g \in Groups : group' = [group EXCEPT ![r] = g]
    /\ \E o \in {"open", "dropped"} : outcome' = [outcome EXCEPT ![r] = o]
    /\ UNCHANGED tree

Land(r) ==
    /\ outcome[r] = "open"
    /\ tree' = Apply(group[r])
    /\ outcome' = [outcome EXCEPT ![r] = "landed"]
    /\ UNCHANGED group

Drop(r) ==
    /\ outcome[r] = "open"
    /\ outcome' = [outcome EXCEPT ![r] = "dropped"]
    /\ UNCHANGED <<tree, group>>

Next == \E r \in Run : Ask(r) \/ Land(r) \/ Drop(r)

Spec == Init /\ [][Next]_<<tree, group, outcome>>
=============================================================================
