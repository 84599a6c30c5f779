----------------------------- MODULE MCPipeline -----------------------------
(* Retry outside and inside of the bulkhead, with a timeout between or a     *)
(* circuit breaker; the first policy of a sequence is the innermost one.     *)
EXTENDS Pipeline

MCPipelines == {<<"bulkhead", "timeout", "retry">>,
                <<"timeout", "retry", "bulkhead">>,
                <<"bulkhead", "circuit", "retry">>}

=============================================================================
