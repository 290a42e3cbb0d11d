--------------------------- MODULE IdentityService ---------------------------
(***************************************************************************)
(* The identity service (services/identity): its RPCs are calls of         *)
(* Keycloak with an admin token that main obtains before it serves and a   *)
(* goroutine renews at every tick of a five-minute ticker.                 *)
(*                                                                         *)
(* Time passes in units; the renewal and the calls of a Keycloak that      *)
(* answers take less than one.  Every call reads the token anew from the   *)
(* client's field, which the renewal writes without a lock.                *)
(*                                                                         *)
(* Nothing in the service relates the ticker to the life span of a token,  *)
(* which is Keycloak's: the two constants are independent, and a token may *)
(* expire long before the next tick (as those of the realm docker-compose  *)
(* logs in to do).                                                         *)
(***************************************************************************)
EXTENDS Naturals

CONSTANTS
  Callers,      \* the RPCs that may be in hand at the same time
  Names,        \* the user names (and ids) clients ask about
  Period,       \* units between two ticks of the ticker
  Lifetime      \* units after which Keycloak refuses a token

ASSUME IdentityAssumption ==
  /\ Period \in Nat \ {0}
  /\ Lifetime \in Nat \ {0}

VARIABLES
  keycloak,     \* does Keycloak answer?
  healthyFor,   \* the units it has answered every login, up to Period + 1
  users,        \* the users in its realm
  serving,      \* is the service up?
  age,          \* the units since the token in adminToken was issued
  clock,        \* the units since the last tick
  tick,         \* is a tick waiting in the ticker's channel (of one place)?
  renewal,      \* the goroutine refreshKeycloakToken
  call          \* the RPCs

time  == <<age, clock, tick, healthyFor>>
vars  == <<keycloak, healthyFor, users, serving, age, clock, tick, renewal,
           call>>

(* Bound: ages are counted up to Oldest, past a period and a life span.    *)
Oldest  == IF Period < Lifetime THEN Lifetime ELSE Period + 1
NoToken == Oldest + 1

Idle    == [at |-> "idle", name |-> "-", answer |-> "-"]
Answers == {"found", "notFound", "listed", "invited", "internal",
            "invalidArgument"}
Calls   == [at : {"idle", "list"}, name : Names \cup {"-"},
            answer : Answers \cup {"-"}]
             \cup [at : {"get", "create", "read"}, name : Names,
                   answer : {"-"}]

(* A service that is up has logged in, one that is down renews nothing.    *)
TypeOK ==
  /\ keycloak \in BOOLEAN
  /\ healthyFor \in 0 .. Period + 1
  /\ users \subseteq Names
  /\ serving \in BOOLEAN
  /\ age \in IF serving THEN 0 .. Oldest ELSE {NoToken}
  /\ clock \in 0 .. Period - 1
  /\ tick \in BOOLEAN
  /\ renewal \in IF serving THEN {"waiting", "calling", "storing"}
                 ELSE {"waiting"}
  /\ call \in [Callers -> Calls]

Init ==
  /\ keycloak \in BOOLEAN /\ healthyFor = 0
  /\ users \in SUBSET Names
  /\ serving = FALSE
  /\ age = NoToken /\ clock = 0 /\ tick = FALSE
  /\ renewal = "waiting"
  /\ call = [c \in Callers |-> Idle]

-----------------------------------------------------------------------------
(* A slip to catch: a failed first login is logged and passed over.        *)
StartAnyway ==
  /\ ~ serving
  /\ serving' = TRUE
  /\ age' = IF keycloak THEN 0 ELSE NoToken
  /\ clock' = 0 /\ tick' = FALSE
  /\ UNCHANGED <<keycloak, healthyFor, users, renewal, call>>

(* main: Login, the ticker, the server; a failed login ends the process.   *)
Start ==
  /\ ~ serving
  /\ keycloak
  /\ serving' = TRUE
  /\ age' = 0 /\ clock' = 0 /\ tick' = FALSE
  /\ UNCHANGED <<keycloak, healthyFor, users, renewal, call>>

(* The process stops, with whatever it has in hand.                        *)
Stop ==
  /\ serving
  /\ serving' = FALSE
  /\ age' = NoToken /\ clock' = 0 /\ tick' = FALSE
  /\ renewal' = "waiting"
  /\ call' = [c \in Callers |-> Idle]
  /\ UNCHANGED <<keycloak, healthyFor, users>>

-----------------------------------------------------------------------------
(* refreshKeycloakToken and Login.                                         *)

(* A slip to catch: the renewal needs a token that is still valid.         *)
TakeTickWhileValid ==
  /\ serving /\ renewal = "waiting" /\ tick
  /\ tick' = FALSE
  /\ renewal' = IF age < Lifetime THEN "calling" ELSE "waiting"
  /\ UNCHANGED <<keycloak, healthyFor, users, serving, age, clock, call>>

TakeTick ==
  /\ serving /\ renewal = "waiting" /\ tick
  /\ tick' = FALSE
  /\ renewal' = "calling"
  /\ UNCHANGED <<keycloak, healthyFor, users, serving, age, clock, call>>

LoginAnswered ==
  /\ renewal = "calling"
  /\ keycloak
  /\ renewal' = "storing"
  /\ UNCHANGED <<keycloak, users, serving, time, call>>

(* A slip to catch: the new token is not put in the client's field.        *)
StoreNothing ==
  /\ renewal = "storing"
  /\ renewal' = "waiting"
  /\ UNCHANGED <<keycloak, users, serving, time, call>>

(* An error is logged and the old token kept; a Keycloak that answers one  *)
(* login with an error counts as out of order for a moment.                *)
LoginFails ==
  /\ renewal = "calling"
  /\ renewal' = "waiting"
  /\ healthyFor' = 0
  /\ UNCHANGED <<keycloak, users, serving, age, clock, tick, call>>

(* The assignment of the field ends; calls that read it meanwhile may have *)
(* got the old token, the new one, or parts of both.                       *)
StoreToken ==
  /\ renewal = "storing"
  /\ age' = 0
  /\ renewal' = "waiting"
  /\ UNCHANGED <<keycloak, healthyFor, users, serving, clock, tick, call>>

-----------------------------------------------------------------------------
(* The RPCs.  GetUser stands for GetOrgUnit and GetRole, ListUsers for     *)
(* ListOrgUnits and ListRoles; the others answer "unimplemented" at once.  *)

At(c, place) == call[c].at = place
Answer(c, a) == call' = [call EXCEPT ![c].at = "idle", ![c].answer = a]

Receive(c) ==
  /\ serving /\ At(c, "idle")
  /\ \/ \E op \in {"get", "create"}, n \in Names :
          call' = [call EXCEPT ![c] = [at |-> op, name |-> n, answer |-> "-"]]
     \/ call' = [call EXCEPT ![c] = [Idle EXCEPT !.at = "list"]]
     \/ call' = [call EXCEPT ![c] = [Idle EXCEPT !.answer = "invalidArgument"]]
  /\ UNCHANGED <<keycloak, users, serving, time, renewal>>

(* Does the token a call reads satisfy Keycloak?                           *)
Accepted(ok) ==
  \/ renewal # "storing" /\ ok = (age < Lifetime)
  \/ renewal = "storing" /\ ok \in BOOLEAN

Succeeds == keycloak /\ Accepted(TRUE)
Fails    == ~ keycloak \/ Accepted(FALSE)

(* Every error of Keycloak is answered with "not found".                   *)
GetUser(c) ==
  /\ At(c, "get")
  /\ \/ Succeeds /\ call[c].name \in users    /\ Answer(c, "found")
     \/ Succeeds /\ call[c].name \notin users /\ Answer(c, "notFound")
     \/ Fails /\ Answer(c, "notFound")
  /\ UNCHANGED <<keycloak, users, serving, time, renewal>>

ListUsers(c) ==
  /\ At(c, "list")
  /\ \/ Succeeds /\ Answer(c, "listed")
     \/ Fails /\ Answer(c, "internal")
  /\ UNCHANGED <<keycloak, users, serving, time, renewal>>

(* InviteUser: create, refused for a name in use, then read back.  A       *)
(* Keycloak that stops may have created the user without saying so.        *)
InviteCreate(c) ==
  /\ At(c, "create")
  /\ \/ /\ Succeeds /\ call[c].name \notin users
        /\ users' = users \cup {call[c].name}
        /\ call' = [call EXCEPT ![c].at = "read"]
     \/ /\ Succeeds /\ call[c].name \in users
        /\ Answer(c, "internal")
        /\ UNCHANGED users
     \/ /\ Fails
        /\ Answer(c, "internal")
        /\ UNCHANGED users
     \/ /\ ~ keycloak /\ age < Lifetime
        /\ Answer(c, "internal")
        /\ users' = users \cup {call[c].name}
  /\ UNCHANGED <<keycloak, serving, time, renewal>>

InviteRead(c) ==
  /\ At(c, "read")
  /\ \/ Succeeds /\ Answer(c, "invited")
     \/ Fails /\ Answer(c, "internal")
  /\ UNCHANGED <<keycloak, users, serving, time, renewal>>

-----------------------------------------------------------------------------
(* The surroundings.                                                       *)

KeycloakStops ==
  /\ keycloak
  /\ keycloak' = FALSE /\ healthyFor' = 0
  /\ UNCHANGED <<users, serving, age, clock, tick, renewal, call>>

KeycloakReturns ==
  /\ ~ keycloak
  /\ keycloak' = TRUE
  /\ UNCHANGED <<users, serving, time, renewal, call>>

(* Time waits for the goroutine, except where it waits for a Keycloak that *)
(* does not answer (Login has no timeout).  A tick that finds one in the   *)
(* channel is dropped.                                                     *)
Older(a) == IF a < Oldest THEN a + 1 ELSE a

(* The unit that passes is the last of a period.                           *)
Ticks == clock + 1 = Period

(* A slip to catch: instead of the ticker, a timer set to the life span of *)
(* the token, which goes off once.                                         *)
ElapseToExpiry ==
  /\ \/ renewal = "waiting" /\ ~ tick
     \/ renewal = "calling" /\ ~ keycloak
  /\ age' = Older(age)
  /\ tick' = (tick \/ (serving /\ age' = Lifetime))
  /\ healthyFor' = IF keycloak /\ healthyFor <= Period THEN healthyFor + 1
                   ELSE healthyFor
  /\ UNCHANGED <<keycloak, users, serving, clock, renewal, call>>

Elapse ==
  /\ \/ renewal = "waiting" /\ ~ tick
     \/ renewal = "calling" /\ ~ keycloak
  /\ age' = Older(age)
  /\ clock' = IF serving /\ ~ Ticks THEN clock + 1 ELSE 0
  /\ tick' = (tick \/ (serving /\ Ticks))
  /\ healthyFor' = IF keycloak /\ healthyFor <= Period THEN healthyFor + 1
                   ELSE healthyFor
  /\ UNCHANGED <<keycloak, users, serving, renewal, call>>

Renew == TakeTick \/ LoginAnswered \/ LoginFails \/ StoreToken

Handle(c) ==
  GetUser(c) \/ ListUsers(c) \/ InviteCreate(c) \/ InviteRead(c)

Next ==
  \/ Start \/ Stop \/ Renew \/ Elapse
  \/ KeycloakStops \/ KeycloakReturns
  \/ \E c \in Callers : Receive(c) \/ Handle(c)

Spec == Init /\ [][Next]_vars

(* Time passes and the goroutine runs.  Nobody starts a service that has   *)
(* stopped: docker-compose gives it no restart policy.                     *)
Fairness ==
  /\ WF_vars(TakeTick) /\ WF_vars(LoginAnswered \/ LoginFails)
  /\ WF_vars(StoreToken) /\ WF_vars(Elapse)

FairSpec == Spec /\ Fairness

-----------------------------------------------------------------------------
(* Properties.                                                             *)

(* One period after Keycloak has come back, and from then on, the token is *)
(* never older than a period: a failed or hanging renewal is made up for   *)
(* by the next tick, and none of them is missed.                           *)
TokenIsFresh == serving /\ healthyFor > Period => age <= Period

(* With Keycloak in order for longer than a period, the RPCs of a period   *)
(* succeed for as long as a token lives: from the renewal at its tick on,  *)
(* whatever failed before it, and to its end where tokens outlive periods. *)
(* An existing user is found, a list is given, a user is created and read  *)
(* back.  What comes later in the period may be refused, and so may a call *)
(* that reads the token while it is being written.                         *)
Resting == renewal = "waiting" /\ ~ tick

TokenMustLive == (IF Resting THEN clock ELSE Period) < Lifetime

HealthyCall(c) ==
  Handle(c) /\ healthyFor > Period /\ renewal # "storing" /\ TokenMustLive
    => /\ At(c, "get") /\ call[c].name \in users
            => call'[c].answer = "found"
       /\ At(c, "list") => call'[c].answer = "listed"
       /\ At(c, "create") /\ call[c].name \notin users
            => call'[c].at = "read"
       /\ At(c, "read") => call'[c].answer = "invited"

CallsInLifetimeSucceed == [][\A c \in Callers : HealthyCall(c)]_vars

(* A lapse ends: when Keycloak answers from some time on, and its logins   *)
(* do not fail, the service has a valid token again and again, however     *)
(* long ago its last one expired.                                          *)
LapsesEnd ==
  <>[](keycloak /\ serving) /\ <>[][~ LoginFails]_vars
    => []<>(age < Lifetime)
=============================================================================
