-------------------------- MODULE MCCapsuleDelete ---------------------------
(* Instances of CapsuleDelete for TLC: a single-route delete beside a bulk   *)
(* one of another tenant's caller.                                           *)
EXTENDS CapsuleDelete, TLC

MCKindOf(d) == d
MCTenantOf(d) == IF d = "api" THEN "acme" ELSE "umbra"
=============================================================================
