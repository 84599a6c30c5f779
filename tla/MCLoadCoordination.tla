------------------------ MODULE MCLoadCoordination --------------------------
(* A synchronous and an asynchronous process load one key.  The first       *)
(* writes a compression that the second cannot read, and its results may be *)
(* larger than the second accepts.                                          *)
EXTENDS LoadCoordination

CONSTANTS p1, p2, f1

MCProcessOf == [f \in Flights |-> IF f = f1 THEN p1 ELSE p2]
MCWriter    == [p \in Processes |-> IF p = p1 THEN "zstd" ELSE "identity"]
MCReaders   == [p \in Processes |-> {}]
MCLimit     == [p \in Processes |-> IF p = p1 THEN 2 ELSE 1]

=============================================================================
