------------------------- MODULE AccessControl_proof -------------------------
(***************************************************************************)
(* The decisions of the policy decision point are right whatever the       *)
(* scripts do meanwhile, for any stores, checks and runs; and the scripts  *)
(* run beside the service as they run alone.                               *)
(***************************************************************************)
EXTENDS AccessControl, Tenants_proof

Requests == [at : {"none", "askOPA", "askFGA", "answered"},
             check : Checks \cup {<<"", "">>},
             answer : PDP!Answers \cup {"-"}]
Configs  == [up : BOOLEAN, usesOPA : BOOLEAN, store : StoreIds,
             model : StoreIds]

PdpShape == req \in Requests /\ pdp \in Configs

(* What the service knows of the request in hand.                          *)
Asked ==
  /\ ~ pdp.up => req.at = "none"
  /\ req.at # "answered" => req.answer = "-"
  /\ req.at = "askFGA" /\ pdp.usesOPA => "opa allows" \in held

DInv == PdpShape /\ Asked /\ DecisionsAreJustified

-----------------------------------------------------------------------------
(* The scripts beside the service behave as Tenants says.                  *)
THEOREM ScriptsRunBeside == AllSpec => Spec
<1>1. AllInit => Init
  BY DEF AllInit
<1>2. [AllNext]_allVars => [Next]_vars
  <2>1. ServiceStep => UNCHANGED vars
    BY DEF ServiceStep, PDP!PdpStep, vars
  <2> QED
    BY <2>1 DEF AllNext, ScriptStep, allVars
<1> QED
  BY <1>1, <1>2, PTL DEF AllSpec, Spec

LEMMA AnswerIs ==
  ASSUME PdpShape, NEW a \in PDP!Answers, PDP!Answer(a)
  PROVE  /\ req' \in Requests /\ req'.at = "answered" /\ req'.answer = a
         /\ req'.check = req.check
  BY DEF PdpShape, Requests, PDP!Answer

LEMMA DInit == AllInit => DInv
<1> SUFFICES ASSUME AllInit PROVE DInv
  OBVIOUS
<1>1. /\ req = PDP!NoRequest /\ held = {}
      /\ pdp = [up |-> FALSE, usesOPA |-> FALSE,
                store |-> NoStore, model |-> NoStore]
  BY DEF AllInit, PDP!PdpInit
<1>2. PdpShape
  BY <1>1 DEF PdpShape, Requests, Configs, StoreIds, PDP!NoRequest
<1>3. Asked
  BY <1>1 DEF Asked, PDP!NoRequest
<1>4. DecisionsAreJustified
  BY <1>1 DEF DecisionsAreJustified, PDP!DecisionsAreJustified, PDP!NoRequest
<1> QED
  BY <1>2, <1>3, <1>4 DEF DInv

(* A step that leaves the request and the configuration alone.             *)
LEMMA QuietStep ==
  ASSUME DInv, UNCHANGED <<req, pdp>>, PDP!Observe \/ UNCHANGED held
  PROVE  DInv'
<1>1. req.at # "none" => held \subseteq held'
  BY DEF PDP!Observe
<1>2. req.at = "none" => req.answer = "-"
  BY DEF DInv, Asked
<1>3. PdpShape' /\ Asked'
  BY <1>1 DEF DInv, PdpShape, Asked
<1>4. DecisionsAreJustified'
  BY <1>1, <1>2 DEF DInv, DecisionsAreJustified, PDP!DecisionsAreJustified
<1> QED
  BY <1>3, <1>4 DEF DInv

LEMMA ReceiveStep ==
  ASSUME DInv, PDP!Receive
  PROVE  DInv'
<1>0. PICK check \in Checks, blank \in BOOLEAN :
        req' = [at |-> IF blank THEN "answered"
                       ELSE IF pdp.usesOPA THEN "askOPA" ELSE "askFGA",
                check |-> check,
                answer |-> IF blank THEN "invalid" ELSE "-"]
  BY Zenon DEF PDP!Receive
<1>1. /\ req'.at \in {"answered", "askOPA", "askFGA"}
      /\ req'.at = "askFGA" => ~ pdp.usesOPA
      /\ req'.answer = IF req'.at = "answered" THEN "invalid" ELSE "-"
      /\ req' \in Requests
  BY <1>0 DEF Requests, PDP!Answers
<1>2. pdp.up /\ pdp' = pdp
  BY DEF PDP!Receive
<1>3. PdpShape'
  BY <1>1, <1>2 DEF DInv, PdpShape
<1>4. Asked'
  BY <1>1, <1>2 DEF Asked
<1>5. DecisionsAreJustified'
  BY <1>1 DEF DecisionsAreJustified, PDP!DecisionsAreJustified
<1> QED
  BY <1>3, <1>4, <1>5 DEF DInv

LEMMA StartStopStep ==
  ASSUME IInv, DInv, PDP!Start \/ PDP!Stop, PDP!Observe
  PROVE  DInv'
<1>1. req'.at = "none" /\ req'.answer = "-" /\ req' \in Requests
  <2>1. CASE PDP!Start
    <3>1. ~ pdp.up /\ req' = req
      BY <2>1 DEF PDP!Start
    <3> QED
      BY <3>1 DEF DInv, PdpShape, Asked
  <2>2. CASE PDP!Stop
    <3>1. req' = PDP!NoRequest
      BY <2>2 DEF PDP!Stop
    <3> QED
      BY <3>1 DEF PDP!NoRequest, Requests
  <2> QED
    BY <2>1, <2>2
<1>2. pdp' \in Configs
  <2>1. CASE PDP!Start
    <3>1. PICK opa \in BOOLEAN :
            pdp' = [up |-> TRUE, usesOPA |-> opa,
                    store |-> env.store, model |-> env.model]
      BY <2>1 DEF PDP!Start
    <3>2. env.store \in StoreIds /\ env.model \in StoreIds
      BY DEF IInv, Shape, Environments
    <3> QED
      BY <3>1, <3>2 DEF Configs
  <2>2. CASE PDP!Stop
    <3>1. pdp' = [pdp EXCEPT !.up = FALSE] /\ pdp \in Configs
      BY <2>2 DEF PDP!Stop, DInv, PdpShape
    <3> QED
      BY <3>1 DEF Configs
  <2> QED
    BY <2>1, <2>2
<1> QED
  BY <1>1, <1>2
     DEF DInv, PdpShape, Asked, DecisionsAreJustified,
         PDP!DecisionsAreJustified

LEMMA AskOPAStep ==
  ASSUME DInv, PDP!AskOPA, PDP!Observe
  PROVE  DInv'
<1>1. /\ req.at = "askOPA" /\ pdp' = pdp /\ pdp.up /\ opaAllows' = opaAllows
  BY DEF PDP!AskOPA, DInv, Asked
<1>2. CASE opaAllows /\ req' = [req EXCEPT !.at = "askFGA"]
  <2>1. req' \in Requests /\ req'.at = "askFGA" /\ req'.answer = "-"
    BY <1>1, <1>2 DEF DInv, PdpShape, Requests, Asked
  <2>2. "opa allows" \in held'
    BY <1>1, <1>2, <2>1 DEF PDP!Observe, PDP!Now
  <2> QED
    BY <1>1, <2>1, <2>2
       DEF DInv, PdpShape, Asked, DecisionsAreJustified,
           PDP!DecisionsAreJustified
<1>3. CASE ~ opaAllows /\ PDP!Answer("opa_denied")
  <2>1. req' \in Requests /\ req'.at = "answered" /\ req'.answer = "opa_denied"
    BY <1>3, AnswerIs DEF DInv, PDP!Answers
  <2>2. "opa denies" \in held'
    BY <1>1, <1>3, <2>1 DEF PDP!Observe, PDP!Now
  <2> QED
    BY <1>1, <2>1, <2>2
       DEF DInv, PdpShape, Asked, DecisionsAreJustified,
           PDP!DecisionsAreJustified
<1>4. CASE PDP!Answer("error")
  <2>1. req' \in Requests /\ req'.at = "answered" /\ req'.answer = "error"
    BY <1>4, AnswerIs DEF DInv, PDP!Answers
  <2> QED
    BY <1>1, <2>1
       DEF DInv, PdpShape, Asked, DecisionsAreJustified,
           PDP!DecisionsAreJustified
<1> QED
  BY <1>2, <1>3, <1>4 DEF PDP!AskOPA

LEMMA AskFGAStep ==
  ASSUME DInv, PDP!AskFGA, PDP!Observe, UNCHANGED tuples
  PROVE  DInv'
<1>1. /\ req.at = "askFGA" /\ pdp' = pdp /\ pdp.up
      /\ pdp.usesOPA => "opa allows" \in held
  BY DEF PDP!AskFGA, DInv, Asked
<1>2. req'.at = "answered" => held' = held \cup PDP!Now'
  BY <1>1 DEF PDP!Observe
<1>3. CASE PDP!Answerable /\ pdp.store \in tuples /\ PDP!Answer("allowed")
  <2>1. req' \in Requests /\ req'.at = "answered" /\ req'.answer = "allowed"
    BY <1>3, AnswerIs DEF DInv, PDP!Answers
  <2>2. "granted" \in held'
    BY <1>1, <1>2, <1>3, <2>1 DEF PDP!Now
  <2> QED
    BY <1>1, <1>2, <2>1, <2>2
       DEF DInv, PdpShape, Asked, DecisionsAreJustified,
           PDP!DecisionsAreJustified
<1>4. CASE PDP!Answerable /\ pdp.store \notin tuples
             /\ PDP!Answer("fga_denied")
  <2>1. req' \in Requests /\ req'.at = "answered" /\ req'.answer = "fga_denied"
    BY <1>4, AnswerIs DEF DInv, PDP!Answers
  <2>2. "not granted" \in held'
    BY <1>1, <1>2, <1>4, <2>1 DEF PDP!Now
  <2> QED
    BY <1>1, <1>2, <2>1, <2>2
       DEF DInv, PdpShape, Asked, DecisionsAreJustified,
           PDP!DecisionsAreJustified
<1>5. CASE PDP!Answer("error")
  <2>1. req' \in Requests /\ req'.at = "answered" /\ req'.answer = "error"
    BY <1>5, AnswerIs DEF DInv, PDP!Answers
  <2> QED
    BY <1>1, <2>1
       DEF DInv, PdpShape, Asked, DecisionsAreJustified,
           PDP!DecisionsAreJustified
<1> QED
  BY <1>3, <1>4, <1>5 DEF PDP!AskFGA

(* Every request has been allowed by the back ends it is past, and the     *)
(* history of what was observed does not forget it.                        *)
THEOREM DecisionInvariant == AllSpec => []DInv
<1>1. IInv /\ DInv /\ [AllNext]_allVars => DInv'
  <2> SUFFICES ASSUME IInv, DInv, [AllNext]_allVars PROVE DInv'
    OBVIOUS
  <2>1. CASE ScriptStep
    BY <2>1, QuietStep DEF ScriptStep
  <2>2. CASE ServiceStep
    <3>1. PDP!PdpStep /\ UNCHANGED tuples
      BY <2>2 DEF ServiceStep, PDP!PdpStep
    <3>2. CASE PDP!ChangePolicy /\ PDP!Observe
      BY <3>2, QuietStep DEF PDP!ChangePolicy
    <3> QED
      BY <3>1, <3>2, ReceiveStep, StartStopStep, AskOPAStep, AskFGAStep
         DEF PDP!PdpStep
  <2>3. CASE UNCHANGED allVars
    BY <2>3, QuietStep DEF allVars
  <2> QED
    BY <2>1, <2>2, <2>3 DEF AllNext
<1> QED
  BY <1>1, DInit, ScriptsRunBeside, TenantsInvariant, PTL DEF AllSpec

(* CheckAuthorization allows and denies only what was granted or refused   *)
(* at some moment of the request, by each of the back ends it asked.       *)
THEOREM DecisionsAreAlwaysJustified == AllSpec => []DecisionsAreJustified
  BY DecisionInvariant, PTL DEF DInv

-----------------------------------------------------------------------------
(* Type correctness of scripts and service together.                       *)

Observed == opaAllows \in BOOLEAN /\ held \subseteq PDP!Facts

LEMMA NowIsFacts == PDP!Now \subseteq PDP!Facts /\ PDP!Now' \subseteq PDP!Facts
BY DEF PDP!Now, PDP!Facts

LEMMA ObservedStep == Observed /\ [AllNext]_allVars => Observed'
<1> SUFFICES ASSUME Observed, [AllNext]_allVars PROVE Observed'
  OBVIOUS
<1>1. opaAllows' \in BOOLEAN
  <2>1. UNCHANGED opaAllows \/ opaAllows' = ~ opaAllows
    BY DEF AllNext, ScriptStep, ServiceStep, allVars, PDP!PdpStep, PDP!Receive,
           PDP!Start, PDP!Stop, PDP!AskOPA, PDP!AskFGA, PDP!ChangePolicy
  <2> QED
    BY <2>1, Zenon DEF Observed
<1>2. held' \subseteq PDP!Facts
  <2>1. PDP!Observe \/ held' = PDP!Now' \/ UNCHANGED held
    BY DEF AllNext, ScriptStep, ServiceStep, allVars, PDP!PdpStep
  <2> QED
    BY <2>1, NowIsFacts DEF Observed, PDP!Observe
<1> QED
  BY <1>1, <1>2 DEF Observed

(* Scripts and service keep their types side by side: the realm, the       *)
(* stores and .env under the requests the service answers meanwhile.       *)
THEOREM AllTypesCorrect == AllSpec => []AllTypeOK
<1>1. AllInit => Observed
  BY DEF AllInit, PDP!PdpInit, Observed
<1>2. AllSpec => []Observed
  BY <1>1, ObservedStep, PTL DEF AllSpec
<1>3. TypeOK /\ PdpShape /\ Observed => AllTypeOK
  BY DEF PdpShape, Requests, Configs, Observed, AllTypeOK, PDP!PdpTypeOK
<1> QED
  BY <1>2, <1>3, DecisionInvariant, ScriptsRunBeside, TypeCorrect, PTL DEF DInv
=============================================================================
