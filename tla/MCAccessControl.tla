--------------------------- MODULE MCAccessControl ---------------------------
(* Instances of AccessControl for the model checker.                       *)
EXTENDS AccessControl, TLC

CONSTANTS r1, r2, r3

SomeParts  == <<"role", "client", "attachment">>
TwoUsers   == <<"darta.clerk", "identity.admin">>

(* One the model has, one that maps to a relation it has not, one blank.   *)
SomeChecks == {<<"graphql", "can_query">>, <<"graphql", "read">>,
               <<"", "can_query">>}

RunSymmetry == Permutations(Runs)
=============================================================================
