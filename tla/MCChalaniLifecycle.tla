------------------------- MODULE MCChalaniLifecycle -------------------------
(* Instances of ChalaniLifecycle for the model checker.                    *)
EXTENDS ChalaniLifecycle

(* The seed that is registered, with a number and not sent.                *)
RegisteredSeed == <<[Blank EXCEPT !.status = "REGISTERED", !.number = "56"]>>
=============================================================================
