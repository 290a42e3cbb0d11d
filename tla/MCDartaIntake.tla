--------------------------- MODULE MCDartaIntake ---------------------------
(* Instances of DartaIntake for the model checker.                         *)
EXTENDS DartaIntake, TLC

CONSTANTS c1, c2

(* Two requests of tenant t1 (one in order with three annexes, of which    *)
(* the second does not exist; one dangling), one of tenant t2 with t1's    *)
(* key, one of t2 with a key of its own, one without a key, one invalid.   *)
KeyOf     == [keyed |-> "k1", dangling |-> "k2", foreign |-> "k1", own |-> "k4",
              unkeyed |-> NoKey, invalid |-> "k3"]
TenantOf  == [keyed |-> "t1", dangling |-> "t1", foreign |-> "t2", own |-> "t2",
              unkeyed |-> "t1", invalid |-> "t1"]
AnnexesOf == [keyed |-> <<"a1", "missing", "a2">>, dangling |-> <<>>,
              foreign |-> <<>>, own |-> <<>>,
              unkeyed |-> <<"a1">>, invalid |-> <<>>]

AllRequests == {"keyed", "dangling", "foreign", "own", "unkeyed", "invalid"}
=============================================================================
