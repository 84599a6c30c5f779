----------------------------- MODULE MCTTLCache -----------------------------
(* Small instances of TTLCache.                                            *)
EXTENDS TTLCache, TLC

CONSTANTS k1, k2

\* A loader may ask for its own key again, and the loader of the first key for
\* the second: loaders of different keys do not load in a cycle.
OneWay == {<<k1, k1>>, <<k1, k2>>, <<k2, k2>>}

\* Keys are interchangeable when no loader loads another key.
KeySymmetry == Permutations(Keys)

=============================================================================
