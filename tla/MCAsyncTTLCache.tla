--------------------------- MODULE MCAsyncTTLCache ---------------------------
(* Small instances of AsyncTTLCache.                                       *)
EXTENDS AsyncTTLCache

CONSTANTS k1, k2

\* The loader of the first key may load the second: no cycle of loaders.
OneWay == {<<k1, k2>>}

=============================================================================
