----------------------- MODULE IdentityService_proof ------------------------
(***************************************************************************)
(* The admin token of the identity service stays fresh, for every period   *)
(* of the ticker and every life span of a token.                           *)
(*                                                                         *)
(* The invariant compares three ages.  If Keycloak has been in order for   *)
(* longer than the time since the last tick, then the renewal of that tick *)
(* has succeeded, or is about to, because a failure would have set         *)
(* healthyFor back: the token is no older than the tick.                   *)
(***************************************************************************)
EXTENDS IdentityService, TLAPS

Fresh ==
  /\ ~ keycloak => healthyFor = 0
  /\ serving /\ Resting /\ healthyFor > clock => age <= clock
  /\ serving /\ ~ Resting /\ healthyFor > Period => age <= Period

(* A service that is down has no RPC in hand.                              *)
DownIsIdle == ~ serving => \A c \in Callers : call[c].at = "idle"

IInv == TypeOK /\ Fresh /\ DownIsIdle

(* Every variable keeps its type, the age of the token the range of the    *)
(* state the service is in.                                                *)
LEMMA IdleIsCall == Idle \in Calls
BY DEF Idle, Calls, Answers

LEMMA CallStep ==
  ASSUME call \in [Callers -> Calls], NEW c \in Callers,
         Receive(c) \/ Handle(c)
  PROVE  call' \in [Callers -> Calls]
<1> USE DEF Calls, Answers, At, Answer
<1>1. CASE Receive(c)
  <2>1. ASSUME NEW op \in {"get", "create"}, NEW n \in Names,
               call' = [call EXCEPT ![c] =
                          [at |-> op, name |-> n, answer |-> "-"]]
        PROVE  call' \in [Callers -> Calls]
    BY <2>1
  <2>2. CASE call' = [call EXCEPT ![c] = [Idle EXCEPT !.at = "list"]]
    BY <2>2 DEF Idle
  <2>3. CASE call' = [call EXCEPT ![c] =
                        [Idle EXCEPT !.answer = "invalidArgument"]]
    BY <2>3 DEF Idle
  <2> QED
    BY <1>1, <2>1, <2>2, <2>3 DEF Receive
<1>2. ASSUME NEW a \in Answers,
             call' = [call EXCEPT ![c].at = "idle", ![c].answer = a]
      PROVE  call' \in [Callers -> Calls]
  BY <1>2
<1>3. CASE /\ call' = [call EXCEPT ![c].at = "read"]
           /\ call[c].at = "create"
  BY <1>3
<1>4. CASE GetUser(c)
  BY <1>2, <1>4 DEF GetUser
<1>5. CASE ListUsers(c)
  BY <1>2, <1>5 DEF ListUsers
<1>6. CASE InviteCreate(c)
  BY <1>2, <1>3, <1>6 DEF InviteCreate
<1>7. CASE InviteRead(c)
  BY <1>2, <1>7 DEF InviteRead
<1> QED
  BY <1>1, <1>4, <1>5, <1>6, <1>7 DEF Handle

LEMMA TypeStep == TypeOK /\ [Next]_vars => TypeOK'
<1> USE IdentityAssumption DEF Oldest, NoToken
<1> SUFFICES ASSUME TypeOK, [Next]_vars PROVE TypeOK'
  OBVIOUS
<1>1. CASE Start
  <2>1. 0 \in 0 .. Oldest /\ 0 \in 0 .. Period - 1
    OBVIOUS
  <2>2. serving' = TRUE /\ age' = 0 /\ clock' = 0 /\ tick' = FALSE
    BY <1>1 DEF Start
  <2>3. UNCHANGED <<keycloak, healthyFor, users, renewal, call>>
    BY <1>1 DEF Start
  <2>4. renewal = "waiting"
    BY <1>1, Zenon DEF Start, TypeOK
  <2> HIDE DEF Oldest, NoToken
  <2> QED
    BY <2>1, <2>2, <2>3, <2>4, Zenon DEF TypeOK
<1>2. CASE Stop
  <2>1. call' \in [Callers -> Calls]
    BY <1>2, IdleIsCall DEF Stop
  <2>2. 0 \in 0 .. Period - 1
    OBVIOUS
  <2>3. UNCHANGED <<keycloak, healthyFor, users>>
    BY <1>2 DEF Stop
  <2>4. /\ serving' = FALSE /\ age' = NoToken /\ clock' = 0
        /\ tick' = FALSE /\ renewal' = "waiting"
    BY <1>2 DEF Stop
  <2> HIDE DEF Oldest, NoToken
  <2> QED
    BY <2>1, <2>2, <2>3, <2>4, Zenon DEF TypeOK
<1>3. CASE Renew
  <2>1. CASE TakeTick
    BY <2>1 DEF TakeTick, TypeOK
  <2>2. CASE LoginAnswered
    BY <2>2 DEF LoginAnswered, TypeOK, time
  <2>3. CASE LoginFails
    BY <2>3 DEF LoginFails, TypeOK
  <2>4. CASE StoreToken
    BY <2>4 DEF StoreToken, TypeOK
  <2> QED
    BY <1>3, <2>1, <2>2, <2>3, <2>4 DEF Renew
<1>4. CASE Elapse
  <2>1. age' \in IF serving' THEN 0 .. Oldest ELSE {NoToken}
    BY <1>4 DEF Elapse, Older, TypeOK
  <2>2. clock' \in 0 .. Period - 1
    BY <1>4 DEF Elapse, Ticks, TypeOK
  <2>3. healthyFor' \in 0 .. Period + 1
    BY <1>4 DEF Elapse, TypeOK
  <2>4. tick' \in BOOLEAN
    BY <1>4, Zenon DEF Elapse, Ticks, TypeOK
  <2>5. UNCHANGED <<keycloak, users, serving, renewal, call>>
    BY <1>4 DEF Elapse
  <2> QED
    BY <2>1, <2>2, <2>3, <2>4, <2>5, Zenon DEF TypeOK
<1>5. CASE KeycloakStops
  <2>1. 0 \in 0 .. Period + 1
    OBVIOUS
  <2>2. keycloak' = FALSE /\ healthyFor' = 0
    BY <1>5 DEF KeycloakStops
  <2>3. UNCHANGED <<users, serving, age, clock, tick, renewal, call>>
    BY <1>5 DEF KeycloakStops
  <2> QED
    BY <2>1, <2>2, <2>3, Zenon DEF TypeOK
<1>6. CASE KeycloakReturns
  BY <1>6 DEF KeycloakReturns, time, TypeOK
<1>7. ASSUME NEW c \in Callers, Receive(c) \/ Handle(c) PROVE TypeOK'
  <2>1. call' \in [Callers -> Calls]
    BY <1>7, CallStep DEF TypeOK
  <2>2. UNCHANGED <<keycloak, serving, age, clock, tick, healthyFor, renewal>>
    BY <1>7 DEF Receive, Handle, GetUser, ListUsers, InviteCreate, InviteRead,
                time
  <2>3. users' \subseteq Names
    <3>1. CASE UNCHANGED users
      BY <3>1 DEF TypeOK
    <3>2. CASE InviteCreate(c)
      <4>1. call[c].at = "create" => call[c].name \in Names
        BY DEF TypeOK, Calls
      <4> QED
        BY <3>2, <4>1 DEF InviteCreate, At, TypeOK
    <3> QED
      BY <1>7, <3>1, <3>2
         DEF Receive, Handle, GetUser, ListUsers, InviteRead
  <2> QED
    BY <2>1, <2>2, <2>3 DEF TypeOK
<1>8. CASE UNCHANGED vars
  BY <1>8 DEF vars, TypeOK
<1> QED
  BY <1>1, <1>2, <1>3, <1>4, <1>5, <1>6, <1>7, <1>8 DEF Next

LEMMA FreshInit == Init => IInv
<1> SUFFICES ASSUME Init PROVE IInv
  OBVIOUS
<1>1. call \in [Callers -> Calls]
  BY IdleIsCall DEF Init
<1>2. TypeOK
  <2>1. 0 \in 0 .. Period + 1 /\ 0 \in 0 .. Period - 1
    BY IdentityAssumption
  <2>2. /\ keycloak \in BOOLEAN /\ users \in SUBSET Names
        /\ serving = FALSE /\ tick = FALSE /\ renewal = "waiting"
        /\ healthyFor = 0 /\ clock = 0 /\ age = NoToken
    BY DEF Init
  <2> QED
    BY <1>1, <2>1, <2>2, Zenon DEF TypeOK
<1>3. Fresh
  BY DEF Init, Fresh
<1>4. DownIsIdle
  BY DEF Init, DownIsIdle, Idle
<1> QED
  BY <1>2, <1>3, <1>4 DEF IInv

LEMMA FreshStep == IInv /\ [Next]_vars => Fresh'
<1> SUFFICES ASSUME TypeOK, Fresh, [Next]_vars PROVE Fresh'
  BY DEF IInv
<1> USE IdentityAssumption DEF Fresh, Resting
<1>0. /\ keycloak \in BOOLEAN /\ serving \in BOOLEAN /\ tick \in BOOLEAN
      /\ healthyFor \in Nat /\ clock \in Nat /\ clock < Period
      /\ serving => age \in Nat
      /\ renewal \in {"waiting", "calling", "storing"}
  BY DEF TypeOK, Oldest
<1>1. CASE Start
  BY <1>0, <1>1 DEF Start
<1>2. CASE Stop
  BY <1>0, <1>2 DEF Stop
<1>3. CASE Renew
  <2>1. CASE TakeTick
    BY <1>0, <2>1 DEF TakeTick
  <2>2. CASE LoginAnswered
    BY <1>0, <2>2 DEF LoginAnswered, time
  <2>3. CASE LoginFails
    BY <1>0, <2>3 DEF LoginFails
  <2>4. CASE StoreToken
    BY <1>0, <2>4 DEF StoreToken
  <2> QED
    BY <1>3, <2>1, <2>2, <2>3, <2>4 DEF Renew
<1>4. CASE Elapse
  <2>1. CASE ~ keycloak \/ ~ serving
    BY <1>0, <1>4, <2>1 DEF Elapse
  <2> SUFFICES ASSUME keycloak, serving PROVE Fresh'
    BY <2>1
  <2>2. /\ Resting
        /\ age' <= age + 1
        /\ healthyFor' <= healthyFor + 1
        /\ UNCHANGED <<keycloak, serving, renewal>>
    BY <1>0, <1>4 DEF Elapse, Older, Oldest
  <2>3. CASE Ticks
    <3>1. clock + 1 = Period /\ clock' = 0 /\ tick' = TRUE
      BY <1>4, <2>3 DEF Elapse, Ticks
    <3>2. age' \in Nat /\ healthyFor' \in Nat
      BY <1>0, <1>4 DEF Elapse, Older, Oldest
    <3> QED
      BY <1>0, <2>2, <3>1, <3>2
  <2>4. CASE ~ Ticks
    <3>1. clock' = clock + 1 /\ tick' = FALSE
      BY <1>4, <2>2, <2>4 DEF Elapse
    <3>2. age' \in Nat /\ healthyFor' \in Nat
      BY <1>0, <1>4 DEF Elapse, Older, Oldest
    <3> QED
      BY <1>0, <2>2, <3>1, <3>2
  <2> QED
    BY <2>3, <2>4
<1>5. CASE KeycloakStops
  BY <1>0, <1>5 DEF KeycloakStops
<1>6. CASE KeycloakReturns
  BY <1>0, <1>6 DEF KeycloakReturns, time
<1>7. ASSUME NEW c \in Callers, Receive(c) \/ Handle(c) PROVE Fresh'
  BY <1>7 DEF Receive, Handle, GetUser, ListUsers, InviteCreate, InviteRead,
              time
<1>8. CASE UNCHANGED vars
  BY <1>8 DEF vars
<1> QED
  BY <1>1, <1>2, <1>3, <1>4, <1>5, <1>6, <1>7, <1>8 DEF Next

LEMMA DownStep == TypeOK /\ DownIsIdle /\ [Next]_vars => DownIsIdle'
<1> SUFFICES ASSUME TypeOK, DownIsIdle, [Next]_vars, ~ serving'
             PROVE  \A c \in Callers : call'[c].at = "idle"
  BY DEF DownIsIdle
<1>1. CASE Stop
  BY <1>1 DEF Stop, Idle
<1>2. ASSUME NEW c \in Callers, Receive(c) \/ Handle(c) PROVE FALSE
  <2>1. serving = serving'
    BY <1>2 DEF Receive, Handle, GetUser, ListUsers, InviteCreate, InviteRead
  <2>2. CASE Receive(c)
    BY <2>1, <2>2 DEF Receive
  <2>3. CASE Handle(c)
    BY <2>1, <2>3 DEF DownIsIdle, Handle, GetUser, ListUsers, InviteCreate,
                      InviteRead, At
  <2> QED
    BY <1>2, <2>2, <2>3
<1>3. CASE Start
  BY <1>3 DEF Start
<1>4. CASE UNCHANGED <<serving, call>>
  BY <1>4 DEF DownIsIdle
<1>5. Renew \/ Elapse \/ KeycloakStops \/ KeycloakReturns \/ UNCHANGED vars
        => UNCHANGED <<serving, call>>
  BY DEF Renew, TakeTick, LoginAnswered, LoginFails, StoreToken, Elapse,
         KeycloakStops, KeycloakReturns, vars
<1> QED
  BY <1>1, <1>2, <1>3, <1>4, <1>5 DEF Next

(* How long ago the last tick was bounds the age of the token.             *)
THEOREM Invariance == Spec => []IInv
<1>1. Init => IInv
  BY FreshInit
<1>2. IInv /\ [Next]_vars => IInv'
  BY TypeStep, FreshStep, DownStep DEF IInv
<1> QED
  BY <1>1, <1>2, PTL DEF Spec

(* Every variable keeps its type, for any period and life span of tokens.  *)
THEOREM TypeCorrect == Spec => []TypeOK
  BY Invariance, PTL DEF IInv

(* One period after an outage, and from then on, the token is no older     *)
(* than a period (refreshKeycloakToken).                                   *)
THEOREM TokenAlwaysFresh == Spec => []TokenIsFresh
<1>1. IInv => TokenIsFresh
  BY IdentityAssumption
     DEF IInv, TypeOK, Fresh, Resting, TokenIsFresh, Oldest, NoToken
<1> QED
  BY <1>1, Invariance, PTL

(* In its life span a token that was renewed in time is accepted.          *)
LEMMA LivingTokenIsAccepted ==
  ASSUME IInv, serving, healthyFor > Period, renewal # "storing",
         TokenMustLive
  PROVE  Succeeds /\ ~ Fails
<1>1. keycloak
  BY IdentityAssumption DEF IInv, Fresh, TypeOK
<1>2. age < Lifetime
  <2>1. healthyFor \in Nat /\ clock \in Nat /\ clock < Period /\ age \in Nat
    BY IdentityAssumption DEF IInv, TypeOK, Oldest
  <2>2. age <= (IF Resting THEN clock ELSE Period)
    BY IdentityAssumption, <2>1 DEF IInv, Fresh
  <2> QED
    BY IdentityAssumption, <2>1, <2>2 DEF TokenMustLive
<1>3. Accepted(TRUE) /\ ~ Accepted(FALSE)
  BY <1>2 DEF Accepted
<1> QED
  BY <1>1, <1>3 DEF Succeeds, Fails

(* With Keycloak in order for longer than a period, the RPCs of a period   *)
(* succeed for the life span of a token, whatever the two lengths are      *)
(* (GetUser, ListUsers and InviteUser of the server).                      *)
THEOREM CallsInLifetimeAlwaysSucceed == Spec => CallsInLifetimeSucceed
<1>1. ASSUME IInv, NEW c \in Callers
      PROVE  HealthyCall(c)
  <2> SUFFICES ASSUME Handle(c), healthyFor > Period, renewal # "storing",
                      TokenMustLive
               PROVE  /\ At(c, "get") /\ call[c].name \in users
                           => call'[c].answer = "found"
                      /\ At(c, "list") => call'[c].answer = "listed"
                      /\ At(c, "create") /\ call[c].name \notin users
                           => call'[c].at = "read"
                      /\ At(c, "read") => call'[c].answer = "invited"
    BY DEF HealthyCall
  <2>1. call[c].at # "idle"
    BY DEF Handle, GetUser, ListUsers, InviteCreate, InviteRead, At
  <2>2. serving
    BY <1>1, <2>1 DEF IInv, DownIsIdle
  <2>3. Succeeds /\ ~ Fails
    BY <1>1, <2>2, LivingTokenIsAccepted
  <2>4. keycloak /\ call \in [Callers -> Calls]
    BY <1>1, <2>3 DEF Succeeds, IInv, TypeOK
  <2>5. CASE GetUser(c)
    BY <2>2, <2>3, <2>4, <2>5 DEF GetUser, At, Answer, Calls
  <2>6. CASE ListUsers(c)
    BY <2>2, <2>3, <2>4, <2>6 DEF ListUsers, At, Answer, Calls
  <2>7. CASE InviteCreate(c)
    BY <2>2, <2>3, <2>4, <2>7 DEF InviteCreate, At, Answer, Calls
  <2>8. CASE InviteRead(c)
    BY <2>2, <2>3, <2>4, <2>8 DEF InviteRead, At, Answer, Calls
  <2> QED
    BY <2>5, <2>6, <2>7, <2>8 DEF Handle
<1>2. IInv => [\A c \in Callers : HealthyCall(c)]_vars
  BY <1>1
<1> QED
  BY <1>2, Invariance, PTL DEF CallsInLifetimeSucceed
=============================================================================
