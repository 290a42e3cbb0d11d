# ePalika in TLA+

ePalika registers the correspondence of a Nepali local government: *dartas*
(incoming letters) and *chalanis* (outgoing ones).  This directory holds TLA+
modules of its core logic, TLC configurations that check them on small
instances, and TLAPS proofs of what matters most.  Paths below are relative to
the repository.

    tlasany M.tla                       parse
    tlc -config R.cfg M.tla             check run R (PROJECT.json names its module)
    tlapm M_proof.tla                   check the proofs of M

## 1. The system

| part | where | state | operations |
|---|---|---|---|
| darta register | `services/darta-chalani` (`internal/domain/darta_service.go`, `internal/grpc/darta_server.go`, `queries/dartas.sql`, the migration) | tables `dartas`, `audit_trail` | 17 RPCs that move a letter through its life cycle, give it a number, assign it |
| darta intake | the same files, `converters.go` | `dartas`, `applicants`, `darta_annexes` | `CreateDarta` |
| chalani server | `internal/grpc/chalani_server.go`, `chalani_service.go` | tables `chalanis`, ... | written, not registered in `main.go`; half of it answers Unimplemented |
| process | `cmd/dartasvc/main.go` | pool, listener | start, graceful stop (10 s), kill |
| GraphQL gateway | `services/graphql-gateway` | none | one gRPC call per resolver, conversion of enums |
| policy decision point | `services/pdp` | the configuration read at its start | `CheckAuthorization`: asks OPA, if configured, then OpenFGA |
| identity service | `services/identity` | an admin token in memory, renewed every five minutes | proxies Keycloak; `InviteUser` in two calls |
| tenant scripts | `scripts/*.sh` | a realm in Keycloak, stores in OpenFGA, `.env` | create or delete a tenant, set up a store, in many calls of curl |
| mock chalani database | `web/packages/mock-db` | arrays in the page | 18 mutations of the chalani life cycle |
| web authentication | `web/packages/auth`, `runtime` | one store per tab, a broadcast channel | login, logout, refresh |
| web data access | `web/packages/apollo`, `query` | caches | retry (link: 2 attempts; mutations: 1 retry) |
| web state, capture | `web/packages/state-core`, `ui` | toasts; camera stream; documents | timers, effects, asynchronous uploads |
| screens, icons, generated code, policies, postman | `web/apps`, `proto`, `policies`, `postman` | none | — |

How they interact: a screen calls the gateway (or the mock database) through
Apollo; a failed call is sent again.  The gateway makes one gRPC call, and the
gRPC server runs every call in a goroutine of its own.  A handler reads and
writes the database by single SQL statements through a pool.  **No handler opens
a transaction**, so the steps of concurrent handlers interleave between
statements, and a failure or a crash between two statements leaves the first
one done.  The policy decision point and the tenant scripts meet in `.env`, which
docker-compose hands to the service at its start, and in OpenFGA, which the
scripts write and the service asks.

What is hard here, and what makes each part correct:

* *darta register* — concurrent reservations of numbers; a status checked in one
  statement and overwritten in a later one; number, status and audit entry
  written by three statements, the errors of the last two ignored; five RPCs
  that ask for no status at all.  Correct when no two letters of a register
  share a number and none is skipped, a registered letter has a number, a
  reserved one can be registered, the transition table is obeyed, the log tells
  the status, and every call answers.
* *darta intake* — the same request sent twice, also concurrently; keys of two
  tenants; annexes stored one by one.  Correct when a keyed request is entered
  once, all answers name that letter, no tenant is given another's letter, and
  the letter is complete.
* *mock database* — the guard table, the mutations that skip it (void,
  supersede), the copies a supersession makes, numbers drawn at random.  Correct
  when the audit trail is a path of the table, what was sent had been approved,
  an ended letter never moves on, a replaced one never goes out beside its
  successor, and numbers stay.
* *tenant scripts* — sequences of calls without undo, run again after an
  interruption, or twice at a time; a file rewritten whole by each.  Correct when
  no run changes the password of an account another has made, a tenant reported
  complete is, a half-made account can be told, and `.env` names no store and no
  model that was not made.
* *policy decision point* — must not allow when either back end fails.
* *identity service* — a token renewed at a period its life span knows nothing
  of, a renewal that may fail or hang, a field written without a lock.  Correct
  when, with a healthy Keycloak, every tick makes the service work for as long as
  the token lives, and no failure lasts beyond the next tick.
* *web* — a logout that answers itself between tabs, lists appended to from a
  stale closure: code no screen reaches today (section 6).

`PROJECT.json` lists these hazards at their lines.

## 2. Modules

| module | what it is |
|---|---|
| `DartaRegister` | the RPCs of `DartaServer` that change a row, one action per SQL statement |
| `SerialRegister` | the abstract register: the first free number of the series, in one step |
| `DartaIntake` | `CreateDarta`, one action per SQL statement, with requests sent again |
| `Tenants` | the operator's scripts, one action per call of curl |
| `PolicyDecision` | the policy decision point, one action per call of a back end |
| `AccessControl` | the composition of the two |
| `IdentityService` | the admin token, its renewal, and the RPCs that use it |
| `ChalaniLifecycle` | the mutations of the mock database, one action each |
| `MC...` | constants for TLC |
| `..._proof` | the theorems |

### DartaRegister

Variables are columns: `status`, `number` (0 is NULL), `classified`, `assigned`,
`metadata` (the keys of the JSON), and `audit`, the newest entry of
`audit_trail` about each letter.  `call[c]` is what the handler `c` holds in Go
variables: the RPC, the letter, the statement it is about to issue (`at`), the
status it has read (`seen`) and the number it was offered (`next`).

| code | actions |
|---|---|
| a call reaches the server | `Begin`, with the RPC's first statement |
| `UpdateDartaStatus` (Submit, Finalize, second half of DirectRegister and Classify) | `ReadStatus`, `WriteStatus`, `AuditStatus` |
| `ReserveDartaNumber` | `ReadNumber`, `GetNextNumber`, `WriteNumber`, `MarkReserved`, `AuditNumber` |
| `DirectRegisterDarta` | the five above, then `ReadStatus`... (`AfterReserve`) |
| `ReviewDarta` | `ReadReview`, `SetStatus` |
| Close, Void, ProvideClarification, FinalizeArchive, RequestClarification, Accept, IssueResponse | `SetStatus` |
| `RouteDarta` / `AssignDarta` | `Assign`, `MarkAssigned`, `AuditAssigned` |
| `ClassifyDarta` | `Classify`, then `ReadStatus`... |
| Scan, Enrich, Supersede | `WriteMetadata` |
| a statement returns an error | `StatementFails`: the handler answers, or goes on where the code ignores the error |
| the process is killed | `Crash`: every handler in flight is gone, rows stay |

Table constraints are guards: `SetStatus` answers without a change for the four
goals that the CHECK does not admit (`ARCHIVED`, `RETURNED_FOR_CLARIFICATION`,
`UNDER_PROCESSING`, `RESOLVED`), and `WriteNumber` when the UNIQUE constraint
refuses the number.  That constraint is modelled with SQL's rule for NULL: it
binds the rows of `WardRegisters` only, since the rows of a municipality have no
`ward_id`, and it ignores the tenant, which the query that offers numbers does
not (`Peers`).  A statement whose answer is lost after it has committed is, for
the rows, that statement followed by `Crash`, or by `StatementFails`.

Rows start as drafts: what an intake leaves behind.

### DartaIntake

`letters` is the table, in order of insertion; `answers[r]` collects the letters
returned for request `r`; `sent` and `faults` count sendings and faults up to
their bounds.  A request is data: its key, tenant and annexes are constants, and
the sets `Invalid` and `Dangling` say what validation and the look-ups of the
applicant and the document make of it.  `Send` is any client sending any request,
again or for the first time, while others are in flight.  `LookUp`, `Verify`,
`Insert`, `AddAnnex` and `Audit` are the statements of the domain service;
`InsertApplicant` is the statement the RPC handler issues before it, which is
always refused (see the findings).  The domain service behind it is therefore
modelled as called directly: `Entries` says which of the two is the way in.

### SerialRegister

One variable, `number`.  `Allocate(d)` gives an unnumbered letter the number `n`
such that `1 .. n-1` are in use in its series and `n` is not.  `DartaRegister`
instantiates it with `Series[d] = <<Register[d], Tenant[d]>>`; the other
variables are hidden, so that `SerialSpec` says that the many statements of a
reservation amount to one step or none.

### Tenants, PolicyDecision, AccessControl

`run[r]` is one execution of a script: which one, the call it is about to make
(`at`), the part or user it is at (`step`), what it read from `.env`, and the id
it looked up.  `realm` is the set of parts that exist (roles, client, scope,
mappers, the attachment of the scope to the client: `Built` is the order of
`create-tenant.sh`, and each part is a `CheckPart` and perhaps a `MakePart`; the
attachment is a PUT, which may be repeated, the others are refused when they
exist), `account` says of each demo user which run created it, whose password it
has and whether it has its role.  Stores of OpenFGA are named after the run that
made them.

`env` is `.env`, of which three lines matter.  Both scripts' `upsert_env_var` change one
line by rewriting the file: awk and mv in `setup-openfga.sh`, `sed -i` in
`create-tenant.sh`.  That is two steps: `Rewrite` reads the whole file and puts
the changed copy aside (`copy[r]`), `Rename` puts the copy in the file's place,
whatever that has become meanwhile.  So overlapping runs undo each other's
writes, as they do in the code.  Only a line that `grep` does not find is
appended by `create-tenant.sh`, in one step (`AppendRealm`).

| code | actions |
|---|---|
| `create-tenant.sh` | `Start`, `CheckPart`, `MakePart`, `RecordRealm` (grep) and `AppendRealm` or `EditRealm`, `RenameRealm`; `Propagate`; per user `LookUpUser`, `CreateUser`, `GetUserId`, `SetPassword`, `AssignRole` |
| `delete-tenant.sh` | `CheckRealm`, `SweepTuples`, `DeleteRealm` |
| `setup-openfga.sh` | `CreateStore`, `UploadModel`, `Seed`, `CopyForStore`, `WriteStore`, `CopyForModel`, `WriteModel` |
| `set -e`, the tests of a status, a kill | `Abort` |

A look-up that ends in an error status reads as "not there", which is what
`curl -s` and `jq` make of it; a create of something that exists is refused by
Keycloak and ends the script.  The relations of the tuples the scripts write are
kept (`TenantTuples`, `SeedTuples`) because the model of
`policies/openfga/models/model.json` has not got all of them, and OpenFGA refuses
the whole write: `create-tenant.sh` then exits, `setup-openfga.sh` goes on.

`PolicyDecision` has the service's configuration `pdp`, the request in hand
`req`, and `held`, a history variable: what was granted and what the policy said
at the moments of this request.  Requests share nothing in the service, so one at
a time stands for all.  `AccessControl` lets a `ScriptStep` or a `ServiceStep`
happen; `PDP == INSTANCE PolicyDecision WITH ...` shares `models`, `tuples` and
`env`, and every script step is observed by the request in hand.

### IdentityService

Time is counted in units: `age` of the token, `clock` since the last tick, and
`healthyFor`, how long Keycloak has answered every login (up to one period and a
unit).  `Elapse` lets a unit pass; it waits for the goroutine, except where the
goroutine waits for a Keycloak that hangs (Login has no timeout).  `TakeTick`,
`LoginAnswered`, `LoginFails` and `StoreToken` are `refreshKeycloakToken`; while
it is at `storing`, calls may read any token (`Accepted`).  `Receive`, `GetUser`,
`ListUsers`, `InviteCreate` and `InviteRead` are the RPCs.

`Period` and `Lifetime` are independent, because nothing in the code relates them.
The ticker's period is five minutes (`main.go:90`).  The life span is that of the
client the service logs in as: `docker-compose.yml:110-112` says `admin-cli` in realm
`master` with the secret `admin`, which takes `client.go:42` to `LoginAdmin`, and
such tokens live one minute unless Keycloak is told otherwise.  (The hour of
`create-tenant.sh:207` is that of another client, and the five minutes of
`postman/README.md:132` those of a new realm.)  The run has these values, five and one.

### ChalaniLifecycle

`letters` is `mockDB.chalanis`: of each letter its status, number, channel,
acknowledgement, the letter it supersedes and its audit trail.  JavaScript runs a
mutation to its end after the simulated delay, so each is one step.  `Move` is
the eleven mutations that change the status alone; `Reserve`, `Dispatch`,
`Acknowledge`, `Resend`, `Void`, `Supersede`, `Create` are the others.  `May` is
`assertTransition` over the table `Onward`; `Moved` is `recordAudit` and `patch`.

## 3. Runs

Bounds are the sizes of the sets; nothing in `DartaRegister` needs a further
one, since a letter is numbered at most once per handler that reads it without a
number.

| run | instance | shows |
|---|---|---|
| `register_concurrent` | Submit, Reserve, Finalize, approval, Accept; 2 letters of one ward, 2 handlers, faults | `TypeOK`; `RegisteredHasNumber`: no interleaving registers a letter without a number; `WardNumbersUnique`: a race of two reservations for one number, also after an earlier one |
| `register_serial` | Reserve, DirectRegister; 4 letters in three series (two of a municipality, one each of two tenants in one ward), 1 handler, faults, fair | `SerialSpec`, `NumbersAreUnique`, `NumbersHaveNoGaps`, `EveryCallAnswered` |
| `register_alone` | Submit, Reserve, Finalize, DirectRegister, Classify, Route; 2 letters of a ward, 1 handler, no faults, fair | `AuditTellsStatus`, `NumberedIsReserved`, `WritesFollowGraph`, `ReservationNumbers`, `DirectRegisterRegisters` |
| `intake_retries` | 6 requests, 4 sendings, 2 handlers, 1 fault, fair | `TypeOK`, `ReturnedLetterIsOwn`, `KeyedRequestsEnterOnce`, `LettersAreComplete`, `RequestsAreEntered` |
| `access_control` | 2 runs of any of the three scripts, 3 parts beside the realm itself (roles, client, attachment), 2 users, failures and kills; 1 service, 3 checks | `PasswordsAreKept`, `ReportedTenantIsComplete`, `HalfMadeAccountsAreKnown`, `EnvironmentNamesWhatWasMade`, `DecisionsAreJustified` |
| `identity` | 2 RPCs, 2 users, a period of 5 units and a life span of 1, as deployed, fair | `TokenIsFresh`: one period after Keycloak has come back the token is never older than a period; `CallsInLifetimeSucceed`: until the token of the period ends, its calls succeed; `LapsesEnd`: a valid token again and again |
| `chalani_lifecycle` | 1 seed (registered), 3 letters, 9 successful mutations, 2 numbers | `AuditIsAWalk`, `SentIsApproved`, `SupersededHasSuccessor`, `EndedNeverMovesOn`, `ReplacedStaysBehind`, `NumberIsKept` |

In `intake_retries` four sendings let two races of one key happen, or one race and
a sending of the other tenant and of the unkeyed request, with the fault at any
point; it may stop when the sendings are used up, so deadlock is not an error
there.  `register_concurrent` is symmetric in handlers and letters and
`access_control` in the runs; no liveness is checked under symmetry.  In
`access_control` two runs are enough for every race of two calls or of two
rewritings of `.env` and for a run after an interrupted one; of the parts two are
made once and one may be repeated; two users are there for an account left behind
while the script goes on.  In `identity` a unit is a minute: the token ends four
units before the next tick, so that every period has a lapse, with a failed or
missed renewal one of nine units or more, and ages are counted to a unit past the
period.  In `chalani_lifecycle` nine mutations take a letter from its creation
past its dispatch (six) and on; the bounds `MaxLetters` and `MaxCalls` end the
run, hence no deadlock check there.

Fairness is weak fairness of each handler's own `Step`: Go runs every
goroutine, and the database answers a statement or fails it.  Nothing is
assumed of clients: they may never call, and never call again.  A failing
statement is not fair either; `StatementFails` may take the place of a step.
In `identity` the goroutine's steps and the passing of time are weakly fair;
Keycloak's stopping and returning, the clients, the shutdown and the start of the
service are not: `docker-compose.yml:101-122` gives it no restart policy.  `LapsesEnd`
assumes besides that from some time on Keycloak answers, the service is up and no
login fails.

Five runs are expected to end in a violation.  Each checks a sentence of the
documentation, or of a comment, against what the code does:

| run | what TLC finds |
|---|---|
| `town_duplicates` | two reservations in a municipality's register read one MAX and store one number; `docs/darta/darta-lifecycle.md:137` promises prevention of duplicates |
| `tenants_collide` | the second tenant of the same year, scope and ward is offered 1 for ever |
| `stale_transition` | a submit that has passed its check takes a reserved letter back to PENDING_REVIEW |
| `reservation_stuck` | the ignored error after the number is written: the letter has a number, and no call can finalize it |
| `rpc_enters_nothing` | `CreateDarta` stores `APPLICANT_TYPE_CITIZEN` where the CHECK wants `CITIZEN`: every call fails at its first statement |

The liveness ones, `tenants_collide` and `rpc_enters_nothing`, run under the
fair specification.

Seen while modelling, not checked by a run of their own:

* Routing a closed letter makes it ASSIGNED again; the life cycle
  (`docs/darta/darta-lifecycle.md:87`) calls CLOSED immutable.
* Two concurrent reservations of *one* letter: the second stores another number
  and the first is a gap.
* ReviewDarta, Close, Void, ProvideClarification and the metadata handlers write
  no audit entry (`darta_server.go:481` is a TODO), though the life cycle asks
  for transition logs; `AuditTellsStatus` is checked for the RPCs that do.
* ProvideClarification takes a registered letter to PENDING_REVIEW, where it
  stays; the life cycle says ASSIGNED.  A stale submit revives a voided letter.
* Scan, Enrich and Supersede replace the metadata, the comment says merge.
* Route with a priority fails: the enum's name is not in the CHECK.
* Past the applicant, `CreateDarta` would also be refused for its scope
  (`SCOPE_WARD` is neither `MUNICIPALITY` nor `WARD`), and it stores the scope as
  the fiscal year.
* A tenant that uses another tenant's idempotency key is refused for ever
  (`RequestsAreEntered` is claimed for keys of one tenant).  A crash after the
  insert loses the annexes, and the retry returns the letter without them.  The
  loser of a race of one key gets an internal error instead of the letter.
* A municipality's letter that carries a ward id is numbered in a register of its
  own and prints the same formatted number as one of the municipality.
* `is_overdue` is a stored generated column that calls `NOW()`, which PostgreSQL
  does not accept; the model takes the schema as meant.
* ClassifyDarta stores the code also when the status is refused to follow.
* Overlapping runs of the scripts lose each other's lines of `.env`, and none of
  them notices: two runs of `setup-openfga.sh` that both report success can leave
  the store of one with the model of the other, and then every check of the policy
  decision point is an error; a `sed -i` of `create-tenant.sh` can put back a file
  that lacks the ids `setup-openfga.sh` has just written, or keep the model and lose
  the store; and `setup-openfga.sh` can take away the KEYCLOAK_REALM that a
  successful `create-tenant.sh` has recorded.  `EnvironmentNamesWhatWasMade` is what is
  left: no id is there before OpenFGA has taken the model it stands for.
* `create-tenant.sh` cannot finish once `.env` names a store and a model: its
  tuples use `tenant#member`, `graphql_operation` and `numbering_resource`, which
  the model has not got (`README.md:757` of the repository speaks of
  `graphql_operation` objects too).  A user it skips is listed in the summary with
  a password that was generated now and never set.  The sweep of
  `delete-tenant.sh` asks OpenFGA by GET, which finds no tuples.
* `/authorize` of the policy decision point answers `allowed: true` to everything
  (a TODO in `main.go:89`).  `mapActionToRelation` turns `read` into `can_read`,
  which no type of the model has: such a check always ends in an error.
* As it is deployed, the identity service refuses every call from one minute after
  each tick to the next one: the token of `admin-cli` in realm `master` lives a
  minute by default, and the ticker renews it every five (section 2).  `GetUser` says
  NotFound then, of users there are.
* `GetUser` of the identity service answers NotFound for every error.
  `InviteUser` that fails between its calls leaves a user its retry is refused for.
* Voided, superseded and closed chalanis can be voided or superseded again, and so
  can drafts and delivered letters: `voidChalani` and `supersedeChalani`
  (`chalani.ts:427`, `:434`) ask for no status.  The life cycle
  (`docs/chalani/chalani-lifecycle.md:79-81`) gives the three no exit and calls CLOSED
  "Archived and immutable"; it has `void` and `supersede` leave REGISTERED only (`:71`).
  `EndedNeverMovesOn` says how far that goes and no further.  A letter superseded
  twice has two successors with one number, and both may go out.
* Of the mock database: a directly registered letter has no number; the number
  and the one in the formatted number are drawn independently, and either may
  repeat; a letter never sent can be resent, and has no channel then; a successor
  starts with the number, the channel and the acknowledgement of the letter it
  replaces; `allowedActions` is never updated.

Definitions introduced by "A slip to catch" are plausible bugs, each placed
before the definition it would replace; `PROJECT.json` ("mutants") says which
property notices it.

## 4. Proofs

All theorems hold for any sets of letters, requests and handlers and any
workload, with and without faults, unless their statement says otherwise (those
of `OneHandler_proof`).  Every invariant and action property a passing run checks
is the conclusion of one.  The assumptions are

* `RegisterAssumption`: the workload consists of RPCs there are;
* `IntakeAssumption`: the types of the constants;
* `TenantsAssumption`: the types of the constants (the resources a script makes
  are a sequence that is not empty, `create-tenant.sh` has a fixed list of them),
  and that OpenFGA refuses the scripts' tuples;
* `IdentityAssumption`: the period and the life span are positive, and independent
  of each other;
* `LifecycleAssumption`: the types of the constants, and three facts about the
  seeds of `chalaniSeeds.ts` that its proofs need: none has an audit trail, none
  supersedes another, and those in a status before NUMBER_RESERVED have no number
  (`chalaniNumber: null`).

**`DartaRegister_proof`.**  `RegisteredHasNumber` is not inductive: a handler
about to mark a letter as reserved, or to register it, must know that its number
is there already.  The inductive invariant `IInv` adds `HandlersOK`:
`FollowsCode` (which RPC can be at which statement, so that only the registering
RPCs write `REGISTERED`) and `ReliesOnNumber` (a handler at `markReserved`, or at
`writeStatus` with goal `REGISTERED`, has a numbered letter; the second because
the table leads to `REGISTERED` from `NUMBER_RESERVED` only,
`RegisteredFromReserved`).  No action takes a number away, which is why the
knowledge stays true while other handlers move.  From it: `TypeCorrect` and
`RegisteredDartasAreNumbered`.  `WardRegistersHaveNoDuplicates` is inductive with
the type alone, because the constraint is asked when the number is written.

**`SerialRegister_proof`.**  The abstract register has neither duplicates nor gaps
(`SerialInvariant`) and never changes a number (`SerialNumberIsKept`).

**`OneHandler_proof`.**  What holds for one handler at a time (`Callers = {c}`);
the violation runs show that, and why, it does not for two.  Together they say
what serialising the handlers, or a transaction around each, would buy.

* `OneHandlerIsSerial`: `Spec => SerialSpec`, with faults.  The invariant
  `ReservationInv` carries the abstract invariant and `HandlersFetchedFree`: the
  number a handler was offered is still the first free one of the series, and its
  letter has none.  The offer is MAX + 1; that this is the *first* free number
  needs the absence of gaps (`NextIsFirstFree`).  Uniqueness and the absence of
  gaps then come from the abstract register, also for registers the database does
  not protect (`OneHandlerNumbersAreUnique`, `OneHandlerLeavesNoGaps`);
  `town_duplicates` shows two handlers.
* `OneHandlerFollowsGraph`: `WritesFollowGraph`, with faults and for any workload.
  What was checked still holds when it is written (`StillValid`): only `ReadStatus`
  leads to the update, and nobody else moves.  So the second handler is the whole
  cause of `stale_transition`.
* `OneHandlerAuditTellsStatus`, without faults (the errors of update and entry are
  ignored) and for the RPCs that store an entry: `UnauditedOps` names the four that
  do not.  Each step is silent, or an update that announces its entry, or that
  entry (`StepAudits`); `AuditInv` says which letter is between the two.
* `OneHandlerNumberedIsReserved`, without faults (`reservation_stuck` shows one) and
  without `ProvideClarification`, which sends a letter to PENDING_REVIEW whatever
  it has.  `NumberedInv` excepts the letter about to be marked, and adds that a
  handler about to write an early status has read a letter in an early status,
  hence one without a number (`EarlyFromEarly`).

`StepMoves` (which statement follows which) serves the last three.

**`DartaIntake_proof`.**  `KeyedRequestsAreEnteredOnce` and `AnswersAreOwn`.  The
invariant joins the unique index (`KeysAreUnique`), the claim that a handler past
its insert holds its own letter (`HandlersOK`), and `ReturnedLetterIsOwn`; any two
answers to a keyed request then carry one key, hence are one row.
`LettersAreAlwaysComplete` adds, as long as there has been no fault, `Progress`:
before its insert a handler has the whole list of annexes, after it what the
letter has and what the handler has still to do are together what is due
(`NothingIsLeftOut`), and a letter is in some handler's hand or complete
(`NothingIsForgotten`).  The sending that finds a letter made by another does
nothing to it.

**`Tenants_proof`.**  Neither password nor environment is inductive alone.  `IInv`
adds where a script can be (`Deleting`, `HasUser`), that a run past `UploadModel`
has its model, as have the ids in the copies of `.env` put aside
(`WritesWhatIsMade`), and ownership (`WorksOnOwn`): without
deletions, a run past `CreateUser` works on the account it created, because the
creation succeeds for one run only and another's failure ends that run.  `Flow`
says which place leads to which; lemmas for the groups of actions establish it.
`StepFiles` says what a step may do to `.env` and the copies: put a changed copy
aside, put one in place, or append.  From these `PasswordsAreAlwaysKept` and
`EnvironmentAlwaysNamesWhatWasMade`, for any runs, parts and users.

A second invariant, `WInv`, says how far a run has come and what must then be
there: parts below the one it is at exist, and users below the one it is at
(`PassedIsThere`, unless tenants are deleted); what it updates on an account of its
own is in order (`Made`); and the half-made accounts are in hand or left behind.
Each action is shown to be one of the `Ways` of a run (it begins, prepares, creates,
ends, or works elsewhere), and each conjunct is proved from the ways, not from
each action anew.  `ReportedTenantIsAlwaysComplete` follows without a history of
the runs: a run that has reported success found or made every user, so every user
exists, and one that lacked a password or the role would be known to be half-made
by a run that has not reported success.  `HalfMadeAccountsAreAlwaysKnown` holds with
deletions too.

**`AccessControl_proof`.**  `ScriptsRunBeside`: a step of the composition is a step
of `Tenants` or leaves its variables alone, so that `AllSpec => Spec` and every
theorem about the scripts holds beside the service.  `DecisionsAreAlwaysJustified`
needs `Asked`: a request that is at OpenFGA
with OPA in use has had OPA's consent, and the history does not forget it.
`AllTypesCorrect` joins the types of the scripts with those of the service.

**`IdentityService_proof`.**  `TokenIsFresh` needs to know how long ago the last
tick was: `IInv` says (`Fresh`) that a goroutine at rest has renewed the token at
the last tick if Keycloak has been healthy for longer than the clock shows, and
that the token is at most a period old while it is at work.
`CallsInLifetimeAlwaysSucceed` follows for any period and life span: the token a
call reads is no older than the tick, or than a period while the renewal is at
work, and that is less than a life span where the property speaks
(`LivingTokenIsAccepted`).

**`ChalaniLifecycle_proof`.**  Every mutation of a letter is shown to have the
same shape (`Effect`: one status, along the table or to VOIDED or SUPERSEDED, and
one entry; `Outcome` adds the copy of a superseded letter), and the invariants are
proved from the shape.  `EndedIsAlwaysEnded` needs the walk: the last entry of a
trail is the letter's status, and the table leads nowhere from an ended one
(`OnwardFacts`).  `ReplacedAlwaysStaysBehind` is inductive with the type: the
successor is made in the step that marks the old letter.  `SentIsAlwaysApproved`
and `NumberIsAlwaysKept` need a letter's past, which `SinceDraft` reads from its
trail: `LifeInv` says which stages a status stands for (`HasPassed`), and that a
letter before its reservation has none behind it, and a number only from the
letter it supersedes (`NumberedInTime`).  One step along the table passes one
stage (`PassedOneMore`); a copy starts with a fresh trail.

Only model-checked: what needs fairness, which is outside the prover's reach
(`EveryCallAnswered`, `ReservationNumbers`, `DirectRegisterRegisters`,
`RequestsAreEntered`, `LapsesEnd`), and the five counterexamples.

## 5. Plan

Done: the register and its abstraction, the intake, the scripts with the policy
decision point, the identity service, the chalani life cycle of the web client.
What is left, in this order:

1. Weaker restrictions for `OneHandler_proof`: the same conclusions for several
   handlers that never hold one letter, or one series, at the same time.
2. `ChalaniServer`, as a second user of `SerialRegister`, when `main.go` registers
   it.
3. The sessions of several tabs, when a screen offers a logout.
4. The whole audit trail of the darta service instead of its newest entry, when
   some code reads it.

## 6. Not modelled

* Generated code (`proto/gen`, `graphql-gateway/graph/generated.go`, `internal/db`):
  most lines of the implementation, and the reason why the
  share of lines the modules cover is small.  It marshals messages and hands
  SQL to the driver; its statements are modelled from `queries/*.sql`.
* Code that exists but is not reached: the chalani server (not registered), the
  broadcasts of a logout (no screen calls `logout`), the camera and upload
  components and the list of toasts (no screen uses them), the RPCs that answer
  Unimplemented.
* The GraphQL gateway and the screens: they keep no state of their own between a
  request and its answer.
* Queries that change nothing (lists, counts, statistics, overdue), the unused
  relations between letters, the formats of numbers, dates and messages, the rules
  of the proxy, latency, rendering.
* `sla_deadline` is part of `assigned`; columns no guard reads are left out.
  PostgreSQL is modelled as executing each statement atomically, at the default
  isolation level, with the constraints of the migration.
* Of the scripts: more than one tenant (tenants share the stores and `.env` only),
  the backup and the dry run of a deletion, the choice of passwords.
* The other resolvers of the mock database: two assignments and a counter that no
  chalani mutation asks.
