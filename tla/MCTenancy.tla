----------------------------- MODULE MCTenancy ------------------------------
(***************************************************************************)
(* The instance of Tenancy that TLC checks: two accounts, one with a user  *)
(* and an external client, the other with a user.                          *)
(***************************************************************************)
EXTENDS Tenancy

CONSTANTS ann, bot, bob

TwoTenants == [a \in {ann, bot, bob} |-> IF a = bob THEN "b" ELSE "a"]
Kinds == [a \in {ann, bot, bob} |-> IF a = bot THEN "external_client" ELSE "user"]
=============================================================================
