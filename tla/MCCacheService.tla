--------------------------- MODULE MCCacheService ---------------------------
(* Small instances of CacheService for TLC. *)
EXTENDS CacheService, TLC

CONSTANTS server,         \* the process
          read1, read2,   \* reads
          write1, write2  \* writes with their invalidations

OneProcess == [x \in Call |-> server]

ReadersAlike == Permutations(Reader)

Starts(c) == pc'[c] # "idle"

\* Bounds: three calls of the four; two invalidations do not overlap.
MCNext ==
    /\ Next
    /\ \E c \in Call : ~Starts(c)
    /\ (\A i \in Invalidator : Starts(i)) => CalledAlone

MCSpec == Init /\ [][MCNext]_vars
=============================================================================
