----------------------------- MODULE MCLearning -----------------------------
(* Learning on small instances. *)
EXTENDS Learning, TLC

SmallMixes == {[ops |-> {"node", "edge"}, requests |-> 4],
               [ops |-> {"assessment", "start", "reveal", "submit"}, requests |-> 4],
               [ops |-> {"node", "append", "rebuild"}, requests |-> 2]}

Symmetry == Permutations(Users) \cup Permutations(Handlers) \cup Permutations(Nodes)
            \cup Permutations(ClientIds)
=============================================================================
