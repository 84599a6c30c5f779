----------------------------- MODULE FencedLock -----------------------------
(***************************************************************************)
(* What a distributed lock of bluetape-leader promises, whatever backs it: *)
(* at most one owner token holds the lock, an owner token gets it at most  *)
(* once, and every grant comes with a fencing token larger than all the    *)
(* tokens issued before, so that a resource can refuse a former holder.    *)
(* A hold may end at any time: it is a lease.                              *)
(***************************************************************************)
EXTENDS Naturals

CONSTANTS
    Owners,  \* owner tokens
    Nobody   \* no owner

VARIABLES
    holder,  \* the owner token that holds the lock
    grant    \* the fencing token issued to each owner token; 0: none

vars == <<holder, grant>>

Init ==
    /\ holder = Nobody
    /\ grant = [a \in Owners |-> 0]

\* Any larger token will do.
Grant(a) ==
    /\ holder = Nobody
    /\ grant[a] = 0
    /\ holder' = a
    /\ \A b \in Owners : grant[b] < grant'[a]
    /\ grant' = [grant EXCEPT ![a] = grant'[a]]

End ==
    /\ holder # Nobody
    /\ holder' = Nobody
    /\ UNCHANGED grant

Next ==
    \/ \E a \in Owners : Grant(a)
    \/ End

Spec == Init /\ [][Next]_vars

=============================================================================
