------------------------------ MODULE MCAccess ------------------------------
(* Access with the operations used together: logins that race, the life of *)
(* a session, and the edge's calls.                                        *)
EXTENDS Access, TLC

Mix(ops, purposes, bound, time, issued, selfHost) ==
    [ops |-> ops, purposes |-> purposes, requests |-> bound, time |-> time, issued |-> issued,
     selfHost |-> selfHost]

LoginMixes ==
    {Mix({"callback"}, {}, 3, 1, 2, selfHost) : selfHost \in BOOLEAN} \cup
    {Mix({"callback", "logout", "rotate", "use", "attest"}, {}, 4, 2, 1, FALSE)}

\* Any purposes for one envelope, one for two; and one envelope over a longer time.
EdgeMixes ==
    {Mix({"external"}, Purposes, 2, 2, 1, FALSE)} \cup
    UNION {{Mix({"external"}, {p}, 3, 3, 2, FALSE),
            Mix({"external"}, {p}, 2, 5, 1, FALSE)} : p \in Purposes}

SmallMixes == LoginMixes \cup EdgeMixes

Symmetry == Permutations(Handlers)
            \cup Permutations(Purposes) \cup Permutations(Nonces)
=============================================================================
