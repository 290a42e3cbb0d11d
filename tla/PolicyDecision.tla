--------------------------- MODULE PolicyDecision ---------------------------
(***************************************************************************)
(* The policy decision point (services/pdp): CheckAuthorization asks OPA,  *)
(* where one is configured, and then OpenFGA.  It keeps no decision; what  *)
(* it keeps is the configuration read from the environment at its start.   *)
(*                                                                         *)
(* models, tuples and env are written by the scripts of module Tenants.    *)
(* Requests share nothing in the service, so one at a time stands for all  *)
(* of them.                                                                *)
(***************************************************************************)
CONSTANTS
  Relations,    \* the pairs of type and relation of the model
  Checks,       \* the pairs of object type and relation clients ask about
  NoStore,      \* an empty variable of the environment
  MayFail       \* may calls fail and the service be killed?

VARIABLES
  models,       \* the stores with a model (the models have the stores' names)
  tuples,       \* the stores that grant what is asked
  env,          \* the environment the service is started in
  opaAllows,    \* what the policy in OPA says
  pdp,          \* the service's configuration
  req,          \* the request in hand
  held          \* what has been the case at some moment of the request

own == <<opaAllows, pdp, req, held>>

NoRequest == [at |-> "none", check |-> <<"", "">>, answer |-> "-"]
Answers == {"allowed", "opa_denied", "fga_denied", "invalid", "error"}
Facts   == {"granted", "not granted", "opa allows", "opa denies"}

PdpTypeOK ==
  /\ opaAllows \in BOOLEAN
  /\ pdp.up \in BOOLEAN /\ pdp.usesOPA \in BOOLEAN
  /\ req.at \in {"none", "askOPA", "askFGA", "answered"}
  /\ req.check \in Checks \cup {<<"", "">>}
  /\ req.answer \in Answers \cup {"-"}
  /\ held \subseteq Facts

PdpInit ==
  /\ opaAllows \in BOOLEAN
  /\ pdp = [up |-> FALSE, usesOPA |-> FALSE,
            store |-> NoStore, model |-> NoStore]
  /\ req = NoRequest
  /\ held = {}

(* mapActionToRelation.                                                    *)
MapActionToRelation(action) ==
  CASE action \in {"read", "can_read", "viewer"}               -> "can_read"
    [] action \in {"update", "write", "can_write", "editor"}   -> "can_write"
    [] action \in {"delete", "owner"}                          -> "owner"
    [] OTHER                                                   -> action

-----------------------------------------------------------------------------
Now == {IF pdp.store \in tuples THEN "granted" ELSE "not granted",
        IF opaAllows THEN "opa allows" ELSE "opa denies"}
Observe == held' = IF req'.at = "none" THEN {}
                   ELSE IF req.at = "answered" THEN held
                   ELSE held \cup Now'

Answer(a) == req' = [req EXCEPT !.at = "answered", !.answer = a]

(* The configuration is read once; OPA is optional.                        *)
Start ==
  /\ ~ pdp.up
  /\ \E opa \in BOOLEAN :
       pdp' = [up |-> TRUE, usesOPA |-> opa,
               store |-> env.store, model |-> env.model]
  /\ UNCHANGED <<opaAllows, req>>

Stop ==
  /\ pdp.up
  /\ pdp' = [pdp EXCEPT !.up = FALSE]
  /\ req' = NoRequest
  /\ UNCHANGED opaAllows

(* CheckAuthorization up to its first call.                                *)
Receive ==
  /\ pdp.up
  /\ req.at \in {"none", "answered"}
  /\ \E check \in Checks :
       LET blank == check[1] = "" \/ check[2] = "" IN
       req' = [at |-> IF blank THEN "answered"
                      ELSE IF pdp.usesOPA THEN "askOPA" ELSE "askFGA",
               check |-> check,
               answer |-> IF blank THEN "invalid" ELSE "-"]
  /\ UNCHANGED <<opaAllows, pdp>>

(* A slip to catch: without an answer of OPA the request goes on.          *)
AskOPAFailingOpen ==
  /\ req.at = "askOPA"
  /\ \/ opaAllows /\ req' = [req EXCEPT !.at = "askFGA"]
     \/ MayFail /\ req' = [req EXCEPT !.at = "askFGA"]
     \/ ~ opaAllows /\ Answer("opa_denied")
  /\ UNCHANGED <<opaAllows, pdp>>

AskOPA ==
  /\ req.at = "askOPA"
  /\ \/ opaAllows /\ req' = [req EXCEPT !.at = "askFGA"]
     \/ ~ opaAllows /\ Answer("opa_denied")
     \/ MayFail /\ Answer("error")
  /\ UNCHANGED <<opaAllows, pdp>>

(* OpenFGA answers for a store with a model, for that model, and for       *)
(* relations the model has.                                                *)
Answerable ==
  /\ pdp.store \in models
  /\ pdp.model \in {NoStore, pdp.store}
  /\ <<req.check[1], MapActionToRelation(req.check[2])>> \in Relations

AskFGA ==
  /\ req.at = "askFGA"
  /\ \/ Answerable /\ pdp.store \in tuples /\ Answer("allowed")
     \/ Answerable /\ pdp.store \notin tuples /\ Answer("fga_denied")
     \/ ~ Answerable /\ Answer("error")
     \/ MayFail /\ Answer("error")
  /\ UNCHANGED <<opaAllows, pdp>>

ChangePolicy ==
  /\ opaAllows' = ~ opaAllows
  /\ UNCHANGED <<pdp, req>>

PdpStep ==
  /\ UNCHANGED <<models, tuples, env>>
  /\ \/ Receive /\ held' = Now'
     \/ (Start \/ Stop \/ AskOPA \/ AskFGA \/ ChangePolicy) /\ Observe

-----------------------------------------------------------------------------
(* Every decision was right at some moment of its request, for each of the *)
(* two back ends that was asked: failures of either never allow.  Granted  *)
(* means granted in the store the service was started with; that .env      *)
(* names another one since then is not held against it.                    *)
DecisionsAreJustified ==
  /\ req.answer = "allowed" =>
       "granted" \in held /\ (pdp.usesOPA => "opa allows" \in held)
  /\ req.answer = "fga_denied" =>
       "not granted" \in held /\ (pdp.usesOPA => "opa allows" \in held)
  /\ req.answer = "opa_denied" => "opa denies" \in held
=============================================================================
