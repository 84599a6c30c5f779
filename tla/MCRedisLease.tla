---------------------------- MODULE MCRedisLease ----------------------------
(* Small instances of RedisLease.  The configurations choose the attempts, *)
(* threads, durations and faults.                                          *)
EXTENDS RedisLease, TLC

CONSTANT Shared  \* the threads that share each handle of SharedHandles
CONSTANT SharedHandles

\* Every other handle stays with the threads that share nothing.
MCUsersOf ==
    [a \in Attempts |-> IF a \in SharedHandles THEN Shared
                        ELSE UserThreads \ Shared]

\* Handles with the same users are interchangeable, and so are the threads
\* that share a handle; only runs without liveness use that.
Symmetry == Permutations(SharedHandles)
            \cup Permutations(Attempts \ SharedHandles)
            \cup Permutations(Shared)

=============================================================================
