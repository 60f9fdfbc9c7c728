---------------------------- MODULE MCIngestion -----------------------------
(***************************************************************************)
(* The instances of Ingestion that TLC checks.                             *)
(***************************************************************************)
EXTENDS Ingestion, TLC

CONSTANTS s1, s2, r1, r2

\* One source with one revision, and two with one each.
OneSource == [r \in {r1} |-> s1]
TwoSources == [r \in {r1, r2} |-> IF r = r1 THEN s1 ELSE s2]

\* Workers are interchangeable.
Symmetry == Permutations(Workers)
=============================================================================
