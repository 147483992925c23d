---------------------------- MODULE MCRedisClaims ---------------------------
(* RedisClaims for TLC. *)
EXTENDS RedisClaims

\* Up to the names of requests and fingerprints, three requests of one key
\* carry the same data or all but one do.
OneMayDiffer ==
    LET other == CHOOSE r \in Requests : TRUE
        f == CHOOSE f \in Fingerprints : TRUE IN
    \A r \in Requests \ {other} : Fp(r) = f

MCInit == Init /\ OneMayDiffer

MCSpec == MCInit /\ [][Next]_vars /\ Fairness
=============================================================================
