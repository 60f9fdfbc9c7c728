---------------------------- MODULE MCDocuments -----------------------------
(***************************************************************************)
(* Instances of Documents that TLC checks.                                 *)
(***************************************************************************)
EXTENDS Documents

CONSTANTS h1, h2, k1, d1
=============================================================================
