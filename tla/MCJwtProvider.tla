---------------------------- MODULE MCJwtProvider ----------------------------
(* A small instance of JwtProvider.                                        *)
EXTENDS JwtProvider, TLC

CONSTANTS k1, k2, x, other, kidA, kidB

\* k2 and x are two keys under one identifier; x is of another algorithm.
MCKidOf == k1 :> kidA @@ k2 :> kidB @@ x :> kidB
MCAlgorithmOf == k1 :> "RS256" @@ k2 :> "RS256" @@ x :> "PS256"
MCCanSign == k1 :> TRUE @@ k2 :> TRUE @@ x :> FALSE

Asked(exp, nbf, iat) == [exp |-> exp, nbf |-> nbf, iat |-> iat, fits |-> TRUE]

\* Claims without an expiry get one; a lifetime above max_ttl is rejected.
MCRequests == {Asked(None, None, None), Asked(3, None, 0)}

\* Tokens of others: noise, a payload that is no claims, and a token that
\* unknown material signed.
MCForeign ==
    {[form |-> f, kid |-> kidB, key |-> k2, claims |-> Asked(None, None, 0)] :
        f \in {"noise", "garbled"}}
    \cup
    {[form |-> "sound", kid |-> kidA, key |-> other, claims |-> Asked(None, None, 0)]}

VerifiersAlike == Permutations(Verifiers)

=============================================================================
