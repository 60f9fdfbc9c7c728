---------------------------- MODULE MCExchange -----------------------------
(* Exchange on small instances. *)
EXTENDS Exchange, TLC

Bound(p) == CASE p = "proposals" -> 6 [] p = "conversations" -> 5
                 [] p = "notion" -> 8 [] p = "uploads" -> 7
SmallRequests == [p \in Parts |-> Bound(p)]

\* The service; the two that exist, and proposals as they would be with the flush.
Service == [p \in Parts |-> {"service"}]
SmallDeployments ==
    [p \in Parts |-> {"service", "fixture"} \cup (IF p = "proposals" THEN {"repaired"} ELSE {})]

Symmetry == Permutations(Handlers) \cup Permutations(ConvIds) \cup Permutations(Proposals)
            \cup Permutations(Contents) \cup Permutations(UploadIds)
=============================================================================
