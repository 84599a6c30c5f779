------------------------------ MODULE MCCircuit ------------------------------
(* A small instance of the circuit breakers.                               *)
EXTENDS AsyncCircuitBreaker, TLC

CONSTANTS strange, home, abroad

\* One call is made in another event loop than the rest.
MCLoopOf == [c \in Calls |-> IF c = strange THEN abroad ELSE home]

=============================================================================
