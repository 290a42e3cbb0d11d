---------------------------- MODULE AccessControl ----------------------------
(***************************************************************************)
(* The tenant scripts and the policy decision point together: the scripts  *)
(* change .env and the stores of OpenFGA while the service answers from    *)
(* the configuration it was started with.                                  *)
(***************************************************************************)
EXTENDS Tenants

CONSTANT Checks      \* the checks clients ask the service for

VARIABLES opaAllows, pdp, req, held

PDP == INSTANCE PolicyDecision WITH
         Relations <- ModelRelations, Checks <- Checks,
         NoStore <- NoStore, MayFail <- MayFail,
         models <- models, tuples <- tuples, env <- env,
         opaAllows <- opaAllows, pdp <- pdp, req <- req, held <- held

allVars == <<vars, opaAllows, pdp, req, held>>

AllTypeOK == TypeOK /\ PDP!PdpTypeOK

AllInit == Init /\ PDP!PdpInit

(* A step of a script, seen by the request in hand.                        *)
ScriptStep ==
  /\ Next
  /\ UNCHANGED <<opaAllows, pdp, req>>
  /\ PDP!Observe

ServiceStep ==
  /\ PDP!PdpStep
  /\ UNCHANGED <<realm, account, stores, copy, run>>

AllNext == ScriptStep \/ ServiceStep

AllSpec == AllInit /\ [][AllNext]_allVars

-----------------------------------------------------------------------------
(* See PolicyDecision: decisions under scripts that change the tuples and  *)
(* the environment at any moment.                                          *)
DecisionsAreJustified == PDP!DecisionsAreJustified
=============================================================================
