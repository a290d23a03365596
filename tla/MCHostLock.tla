----------------------------- MODULE MCHostLock -----------------------------
(* Small instances of HostLock for TLC. *)
EXTENDS HostLock

CONSTANTS p1, p2, p3,           \* processes of one holder each
          client, resource,     \* a lock of one slot, and one of several
          hostNet, privateNet   \* network namespaces

TwoNames == {client, resource}
OneEach == [p \in Handle |-> p]
SeveralSlots == [n \in Name |-> IF n = resource THEN 2 ELSE 1]
TwoNets == {hostNet, privateNet}
FirstApart == [p \in Handle |-> IF p = p1 THEN privateNet ELSE hostNet]
=============================================================================
