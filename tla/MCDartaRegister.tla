-------------------------- MODULE MCDartaRegister --------------------------
(* Instances of DartaRegister for the model checker.                       *)
EXTENDS DartaRegister, TLC

CONSTANTS d1, d2, d3, d4, d5, c1, c2

Municipality == "municipality"   \* a register whose ward_id is NULL
Ward         == "ward"

OneTenant    == [d \in Dartas |-> "t1"]
TwoTenants   == [d \in Dartas |-> IF d = d5 THEN "t2" ELSE "t1"]
OneWard      == [d \in Dartas |-> Ward]
OneTown      == [d \in Dartas |-> Municipality]
WardAndTown  == [d \in Dartas |-> IF d \in {d4, d5} THEN Ward ELSE Municipality]

CallerSymmetry   == Permutations(Callers)
RegisterSymmetry == Permutations(Callers) \cup Permutations(Dartas)

(* Workloads.                                                              *)
AuditedOps  == {"Submit", "Reserve", "Finalize", "DirectRegister", "Classify",
                "Route", "Scan"}
MixedOps    == {"Submit", "Reserve", "Finalize", "ApproveReview", "Accept"}
=============================================================================
