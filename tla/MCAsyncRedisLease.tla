------------------------- MODULE MCAsyncRedisLease --------------------------
(* Small instances of AsyncRedisLease.                                     *)
EXTENDS AsyncRedisLease, TLC

CONSTANTS Shared, SharedHandles  \* the tasks that share a handle

MCUsersOf ==
    [a \in Attempts |-> IF a \in SharedHandles THEN Shared
                        ELSE UserThreads \ (Shared \cup {Cleanup})]

\* One task runs the scope, the others use the handle beside it.
CONSTANT Scoped
MCCallsBy ==
    [t \in UserThreads \ {Cleanup} |->
        IF t = Scoped THEN {"enter", "release"} \cap Calls ELSE Calls \ {"enter"}]

=============================================================================
