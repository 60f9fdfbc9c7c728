------------------------------ MODULE MCOutbox ------------------------------
(***************************************************************************)
(* The instances of the outbox that TLC checks.                            *)
(***************************************************************************)
EXTENDS Outbox, TLC

\* The workers are interchangeable: only their own names tell them apart.
Symmetry == Permutations(Workers)
=============================================================================
