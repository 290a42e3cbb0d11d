-------------------------- MODULE MCIdentityService --------------------------
(* Instances of IdentityService for the model checker.                     *)
EXTENDS IdentityService

CONSTANTS c1, c2
=============================================================================
