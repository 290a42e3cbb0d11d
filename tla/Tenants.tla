------------------------------- MODULE Tenants -------------------------------
(***************************************************************************)
(* The operator's scripts: scripts/create-tenant.sh, delete-tenant.sh and  *)
(* setup-openfga.sh, the realm they build in Keycloak, the stores they     *)
(* build in OpenFGA and the .env file they share.                          *)
(*                                                                         *)
(* Each call of curl is a step of its own: two runs of the scripts may     *)
(* overlap, a run may be killed between two calls, and nothing undoes what *)
(* it has done.  A lookup that gets no answer reads as "not there".  One   *)
(* tenant is modelled; tenants share the stores and .env only.             *)
(*                                                                         *)
(* To change a line of .env a script reads the whole file, writes it anew  *)
(* under another name and renames that: two steps, between which the file  *)
(* may have been replaced, and what was written to it meanwhile is lost.   *)
(***************************************************************************)
EXTENDS Naturals, Sequences

CONSTANTS
  Runs,         \* the executions of the scripts
  Scripts,      \* those the operator runs
  Resources,    \* the sequence of a realm's parts: "role" (the roles),
                \* the client, its scope, the scope's mappers, and
                \* "attachment", of the scope to the client
  Users,        \* the sequence of demo users
  MayFail       \* may calls fail and runs be killed?

(* The relations of policies/openfga/models/model.json, and those of the   *)
(* tuples the two scripts write.                                           *)
ModelRelations ==
  {"tenant"} \X {"admin", "darta_clerk", "darta_reviewer", "darta_registrar",
                 "chalani_dispatcher", "chalani_approver",
                 "numbering_officer", "identity_admin"}
    \cup {"graphql"} \X {"in_tenant", "can_query"}
    \cup {"service_darta", "service_identity"} \X {"in_tenant", "can_use"}

TenantTuples == {<<"tenant", "admin">>, <<"tenant", "member">>,
                 <<"graphql_operation", "tenant">>,
                 <<"numbering_resource", "tenant">>}

SeedTuples == {<<"tenant", "admin">>, <<"graphql", "tenant">>,
               <<"service", "tenant">>}

(* OpenFGA takes a write whole, or refuses it whole for one relation its   *)
(* model has not got.                                                      *)
Accepted(tuples) == tuples \subseteq ModelRelations

Nobody == "-"       \* no run

ASSUME TenantsAssumption ==
  /\ Scripts \subseteq {"create", "delete", "setup"}
  /\ Resources \in Seq(STRING) \ {<<>>}
  /\ "realm" \notin {Resources[i] : i \in DOMAIN Resources}
  /\ Len(Users) \in Nat \ {0}
  /\ DOMAIN Users = 1 .. Len(Users)
  /\ MayFail \in BOOLEAN
  /\ Nobody \notin Runs
  /\ ~ Accepted(TenantTuples)
  /\ ~ Accepted(SeedTuples)

NoStore == "none"   \* a variable of .env that is empty

(* Attaching what is attached already is no error, unlike creating what    *)
(* exists.                                                                 *)
Repeatable == {"attachment"}

(* What the realm is made of, in the order create-tenant.sh ensures it.    *)
Built == <<"realm">> \o Resources

VARIABLES
  realm,      \* the parts of the realm that exist
  account,    \* the realm's accounts, by user
  stores,     \* OpenFGA: the stores, each named after the run that made it
  models,     \* the stores a model was uploaded to
  tuples,     \* the stores that hold the tenant's tuples
  env,        \* .env
  copy,       \* the changed copies of .env the runs are about to rename
  run         \* the runs

vars == <<realm, account, stores, models, tuples, env, copy, run>>

UserSet  == {Users[i] : i \in DOMAIN Users}
StoreIds == Runs \cup {NoStore}

(* An account: the run that created it, which stands for its id as well,   *)
(* the run whose password it has, and whether it has its role.             *)
NoAccount == [by |-> Nobody, password |-> Nobody, role |-> FALSE]
Accounts  == [by : Runs \cup {Nobody}, password : Runs \cup {Nobody},
              role : BOOLEAN]

NotStarted == [script |-> "-", at |-> "new", step |-> 1,
               store |-> NoStore, model |-> NoStore, id |-> Nobody]
Places == {"new", "check", "make", "record", "append", "edit", "rename",
           "propagate", "lookup", "post", "getId", "password", "role",
           "sweep", "deleteRealm", "createStore", "upload", "seed",
           "copyStore", "writeStore", "copyModel", "writeModel",
           "done", "failed", "killed"}
Over   == {"done", "failed", "killed"}

(* What .env may hold: is KEYCLOAK_REALM set, FGA_STORE_ID, FGA_MODEL_ID.   *)
Environments == [realm : BOOLEAN, store : StoreIds, model : StoreIds]
EmptyFile    == [realm |-> FALSE, store |-> NoStore, model |-> NoStore]

TypeOK ==
  /\ realm \subseteq {Built[i] : i \in DOMAIN Built}
  /\ account \in [UserSet -> Accounts]
  /\ stores \subseteq Runs /\ models \subseteq stores
  /\ tuples \subseteq stores
  /\ env \in Environments /\ copy \in [Runs -> Environments]
  /\ run \in [Runs -> [script : Scripts \cup {"-"}, at : Places,
                       step : DOMAIN Built \cup DOMAIN Users,
                       store : StoreIds, model : StoreIds,
                       id : Runs \cup {Nobody}]]

Init ==
  /\ realm = {}
  /\ account = [u \in UserSet |-> NoAccount]
  /\ stores = {} /\ models = {} /\ tuples = {}
  /\ env \in {EmptyFile, [EmptyFile EXCEPT !.realm = TRUE]}
  /\ copy = [r \in Runs |-> EmptyFile]
  /\ run = [r \in Runs |-> NotStarted]

keycloak == <<realm, account>>
openfga  == <<stores, models, tuples>>
files    == <<env, copy>>

-----------------------------------------------------------------------------
At(r, place) == run[r].at = place
GoTo(r, place) == run' = [run EXCEPT ![r].at = place]
GoToStep(r, place, n) ==
  run' = [run EXCEPT ![r].at = place, ![r].step = n]

(* Rewriting .env: the whole file is read and the copy changed; the copy   *)
(* takes the place of the file, whatever that has become.  The copy of a   *)
(* run that ends in between is left lying about and read by nobody.        *)
Rewrite(r, e) == copy' = [copy EXCEPT ![r] = e] /\ UNCHANGED env
DropCopy(r)   == copy' = [copy EXCEPT ![r] = EmptyFile]
Rename(r)     == env' = copy[r] /\ DropCopy(r)

(* Starting a script sources .env.                                         *)
FirstPlace == [create |-> "check", delete |-> "check", setup |-> "createStore"]

Start(r) ==
  /\ At(r, "new")
  /\ \E s \in Scripts :
       run' = [run EXCEPT ![r] = [NotStarted EXCEPT
                 !.script = s, !.at = FirstPlace[s],
                 !.store = env.store, !.model = env.model]]
  /\ UNCHANGED <<keycloak, openfga, files>>

-----------------------------------------------------------------------------
(* create-tenant.sh: ensure the realm and its parts.                       *)

Part(r) == Built[run[r].step]

(* A slip to catch: one part too many.                                     *)
NextPartPastTheLast(r) ==
  \/ /\ Part(r) = "realm"
     /\ GoTo(r, "record")
  \/ /\ Part(r) # "realm"
     /\ run[r].step <= Len(Built)
     /\ GoToStep(r, "check", run[r].step + 1)

(* The next part; .env is written after the realm, and the tuples come     *)
(* after the last part.                                                    *)
NextPart(r) ==
  \/ /\ Part(r) = "realm"
     /\ GoTo(r, "record")
  \/ /\ Part(r) # "realm"
     /\ run[r].step < Len(Built)
     /\ GoToStep(r, "check", run[r].step + 1)
  \/ /\ Part(r) # "realm"
     /\ run[r].step = Len(Built)
     /\ GoTo(r, "propagate")

CheckPart(r) ==
  /\ At(r, "check")
  /\ run[r].script = "create"
  /\ \/ Part(r) \in realm /\ NextPart(r)
     \/ Part(r) \notin realm /\ GoTo(r, "make")
     \/ MayFail /\ GoTo(r, "make")
  /\ UNCHANGED <<keycloak, openfga, files>>

(* Keycloak refuses to create what exists already, and any part of a realm *)
(* that has been deleted.                                                  *)
MakePart(r) ==
  /\ At(r, "make")
  /\ \/ /\ Part(r) \notin realm \ Repeatable
        /\ Part(r) = "realm" \/ "realm" \in realm
        /\ realm' = realm \cup {Part(r)}
        /\ NextPart(r)
     \/ /\ \/ Part(r) \in realm \ Repeatable
           \/ Part(r) # "realm" /\ "realm" \notin realm
        /\ UNCHANGED realm
        /\ GoTo(r, "failed")
  /\ UNCHANGED <<account, openfga, files>>

(* upsert_env_var of create-tenant.sh: grep looks for the line; sed -i     *)
(* rewrites the file with it, or without it if it has gone meanwhile; where *)
(* there was none it is appended, which leaves the rest of the file alone. *)
RecordRealm(r) ==
  /\ At(r, "record")
  /\ \/ env.realm /\ GoTo(r, "edit")
     \/ ~ env.realm /\ GoTo(r, "append")
  /\ UNCHANGED <<keycloak, openfga, files>>

AppendRealm(r) ==
  /\ At(r, "append")
  /\ env' = [env EXCEPT !.realm = TRUE]
  /\ GoToStep(r, "check", run[r].step + 1)
  /\ UNCHANGED <<keycloak, openfga, copy>>

EditRealm(r) ==
  /\ At(r, "edit")
  /\ Rewrite(r, env)
  /\ GoTo(r, "rename")
  /\ UNCHANGED <<keycloak, openfga>>

RenameRealm(r) ==
  /\ At(r, "rename")
  /\ Rename(r)
  /\ GoToStep(r, "check", run[r].step + 1)
  /\ UNCHANGED <<keycloak, openfga>>

WriteRealm(r) ==
  RecordRealm(r) \/ AppendRealm(r) \/ EditRealm(r) \/ RenameRealm(r)

(* With a store and a model in .env the script writes TenantTuples, which  *)
(* OpenFGA refuses, and exits.                                             *)
Propagate(r) ==
  /\ At(r, "propagate")
  /\ \/ NoStore \in {run[r].store, run[r].model} /\ GoToStep(r, "lookup", 1)
     \/ NoStore \notin {run[r].store, run[r].model} /\ GoTo(r, "failed")
  /\ UNCHANGED <<keycloak, openfga, files>>

-----------------------------------------------------------------------------
(* create_user_with_role, for one user after the other.                    *)

User(r) == Users[run[r].step]
Exists(u) == account[u] # NoAccount

NextUser(r) ==
  \/ run[r].step < Len(Users) /\ GoToStep(r, "lookup", run[r].step + 1)
  \/ run[r].step = Len(Users) /\ GoTo(r, "done")

(* Slips to catch: an account that exists is given a password again; a     *)
(* lookup without an answer is taken for an account that exists.           *)
LookUpUserAgain(r) ==
  /\ At(r, "lookup")
  /\ \/ Exists(User(r)) /\ GoTo(r, "getId")
     \/ ~ Exists(User(r)) /\ GoTo(r, "post")
  /\ UNCHANGED <<keycloak, openfga, files>>

LookUpUserOptimistically(r) ==
  /\ At(r, "lookup")
  /\ \/ Exists(User(r)) /\ NextUser(r)
     \/ MayFail /\ NextUser(r)
     \/ ~ Exists(User(r)) /\ GoTo(r, "post")
  /\ UNCHANGED <<keycloak, openfga, files>>

LookUpUser(r) ==
  /\ At(r, "lookup")
  /\ \/ Exists(User(r)) /\ NextUser(r)
     \/ ~ Exists(User(r)) /\ GoTo(r, "post")
     \/ MayFail /\ GoTo(r, "post")
  /\ UNCHANGED <<keycloak, openfga, files>>

CreateUser(r) ==
  /\ At(r, "post")
  /\ \/ /\ ~ Exists(User(r)) /\ "realm" \in realm
        /\ account' = [account EXCEPT ![User(r)].by = r]
        /\ GoTo(r, "getId")
     \/ /\ Exists(User(r)) \/ "realm" \notin realm
        /\ UNCHANGED account
        /\ GoTo(r, "failed")
  /\ UNCHANGED <<realm, openfga, files>>

GetUserId(r) ==
  /\ At(r, "getId")
  /\ \/ /\ Exists(User(r))
        /\ run' = [run EXCEPT ![r].at = "password",
                              ![r].id = account[User(r)].by]
     \/ /\ ~ Exists(User(r))
        /\ GoTo(r, "failed")
  /\ UNCHANGED <<keycloak, openfga, files>>

(* The two updates address the account by its id.                          *)
SetPassword(r) ==
  /\ At(r, "password")
  /\ \/ /\ account[User(r)].by = run[r].id
        /\ account' = [account EXCEPT ![User(r)].password = r]
        /\ GoTo(r, "role")
     \/ /\ account[User(r)].by # run[r].id
        /\ UNCHANGED account
        /\ GoTo(r, "failed")
  /\ UNCHANGED <<realm, openfga, files>>

(* The role is looked up first: a realm made anew meanwhile may lack it.   *)
(* A slip to catch: "|| true" behind the last call of a user.              *)
AssignRoleLeniently(r) ==
  /\ At(r, "role")
  /\ \/ account' = [account EXCEPT ![User(r)].role = TRUE]
     \/ MayFail /\ UNCHANGED account
  /\ NextUser(r)
  /\ UNCHANGED <<realm, openfga, files>>

AssignRole(r) ==
  /\ At(r, "role")
  /\ \/ /\ account[User(r)].by = run[r].id /\ "role" \in realm
        /\ account' = [account EXCEPT ![User(r)].role = TRUE]
        /\ NextUser(r)
     \/ /\ account[User(r)].by # run[r].id \/ "role" \notin realm
        /\ UNCHANGED account
        /\ GoTo(r, "failed")
  /\ UNCHANGED <<realm, openfga, files>>

-----------------------------------------------------------------------------
(* delete-tenant.sh: a realm that is not found ends the run well.  Cleaning *)
(* up the tuples is an option, and its failures are passed over.           *)

CheckRealm(r) ==
  /\ At(r, "check")
  /\ run[r].script = "delete"
  /\ \/ "realm" \in realm /\ GoTo(r, "sweep")
     \/ "realm" \notin realm /\ GoTo(r, "done")
     \/ MayFail /\ GoTo(r, "done")
  /\ UNCHANGED <<keycloak, openfga, files>>

SweepTuples(r) ==
  /\ At(r, "sweep")
  /\ tuples' \in {tuples, tuples \ {run[r].store}}
  /\ GoTo(r, "deleteRealm")
  /\ UNCHANGED <<keycloak, stores, models, files>>

DeleteRealm(r) ==
  /\ At(r, "deleteRealm")
  /\ \/ /\ "realm" \in realm
        /\ realm' = {}
        /\ account' = [u \in UserSet |-> NoAccount]
        /\ GoTo(r, "done")
     \/ /\ "realm" \notin realm
        /\ UNCHANGED keycloak
        /\ GoTo(r, "failed")
  /\ UNCHANGED <<openfga, files>>

-----------------------------------------------------------------------------
(* setup-openfga.sh: every run makes a store of its own.  The seed tuples  *)
(* are refused, which the script passes over.                              *)

CreateStore(r) ==
  /\ At(r, "createStore")
  /\ stores' = stores \cup {r}
  /\ GoTo(r, "upload")
  /\ UNCHANGED <<keycloak, models, tuples, files>>

(* A slip to catch: a refused model is passed over like refused tuples.    *)
UploadModelLeniently(r) ==
  /\ At(r, "upload")
  /\ \/ models' = models \cup {r}
     \/ MayFail /\ UNCHANGED models
  /\ GoTo(r, "seed")
  /\ UNCHANGED <<keycloak, stores, tuples, files>>

UploadModel(r) ==
  /\ At(r, "upload")
  /\ models' = models \cup {r}
  /\ GoTo(r, "seed")
  /\ UNCHANGED <<keycloak, stores, tuples, files>>

Seed(r) ==
  /\ At(r, "seed")
  /\ GoTo(r, "copyStore")
  /\ UNCHANGED <<keycloak, openfga, files>>

(* upsert_env_var of setup-openfga.sh, for FGA_STORE_ID and then for       *)
(* FGA_MODEL_ID: awk copies the file, mv renames the copy.                 *)
CopyForStore(r) ==
  /\ At(r, "copyStore")
  /\ Rewrite(r, [env EXCEPT !.store = r])
  /\ GoTo(r, "writeStore")
  /\ UNCHANGED <<keycloak, openfga>>

WriteStore(r) ==
  /\ At(r, "writeStore")
  /\ Rename(r)
  /\ GoTo(r, "copyModel")
  /\ UNCHANGED <<keycloak, openfga>>

CopyForModel(r) ==
  /\ At(r, "copyModel")
  /\ Rewrite(r, [env EXCEPT !.model = r])
  /\ GoTo(r, "writeModel")
  /\ UNCHANGED <<keycloak, openfga>>

WriteModel(r) ==
  /\ At(r, "writeModel")
  /\ Rename(r)
  /\ GoTo(r, "done")
  /\ UNCHANGED <<keycloak, openfga>>

WriteIds(r) ==
  CopyForStore(r) \/ WriteStore(r) \/ CopyForModel(r) \/ WriteModel(r)

-----------------------------------------------------------------------------
(* A call that changes something fails and the script exits ("set -e" and  *)
(* the tests of the status), or the run is killed between two calls.       *)
Abort(r) ==
  /\ MayFail
  /\ run[r].at \notin Over \cup {"new"}
  /\ GoTo(r, "failed") \/ GoTo(r, "killed")
  /\ DropCopy(r)
  /\ UNCHANGED <<keycloak, openfga, env>>

(* Publishing the seed tuples of policies/openfga/seed is left to the      *)
(* operator; the store needs a model to take them.                         *)
LoadTuples ==
  \E s \in models : /\ tuples' = tuples \cup {s}
                    /\ UNCHANGED <<keycloak, stores, models, files, run>>

Step(r) ==
  \/ Start(r)
  \/ CheckPart(r) \/ MakePart(r) \/ WriteRealm(r) \/ Propagate(r)
  \/ LookUpUser(r) \/ CreateUser(r) \/ GetUserId(r)
  \/ SetPassword(r) \/ AssignRole(r)
  \/ CheckRealm(r) \/ SweepTuples(r) \/ DeleteRealm(r)
  \/ CreateStore(r) \/ UploadModel(r) \/ Seed(r) \/ WriteIds(r)
  \/ Abort(r)

Next == LoadTuples \/ \E r \in Runs : Step(r)

Spec == Init /\ [][Next]_vars

-----------------------------------------------------------------------------
(* Properties.                                                             *)

NoDeletion == \A r \in Runs : run[r].script # "delete"
Creations  == {r \in Runs : run[r].script = "create"}

(* Running create-tenant.sh again, or twice at a time, never changes the   *)
(* password of an account: unless the tenant is deleted meanwhile, an      *)
(* account has the password of the run that created it, or none.           *)
PasswordsAreKept ==
  NoDeletion =>
    \A u \in UserSet : account[u].password \in {Nobody, account[u].by}

(* A tenant that is reported complete is: when no run of create-tenant.sh  *)
(* was interrupted, failed or is still at work, and the tenant was not     *)
(* deleted, every demo user of it exists with a password and its role, in  *)
(* a realm with all its parts.                                             *)
ReportedTenantIsComplete ==
  /\ NoDeletion
  /\ Creations # {}
  /\ \A r \in Creations : At(r, "done")
  => /\ \A u \in UserSet : account[u].password # Nobody /\ account[u].role
     /\ \A i \in DOMAIN Built : Built[i] \in realm

(* An account that lacks its password or role was left by a run that ended *)
(* early, or is the one its run is at work on: a run goes on to the next   *)
(* user only when it has finished the one before, whatever other runs do.  *)
HalfMadeAccountsAreKnown ==
  \A u \in UserSet :
    LET r == account[u].by IN
    Exists(u) /\ (account[u].password = Nobody \/ ~ account[u].role)
      => \/ run[r].at \in {"failed", "killed"}
         \/ run[r].at \in {"getId", "password", "role"} /\ User(r) = u

(* Whatever run is killed, overlaps another or puts an older .env back in  *)
(* place of a newer one, a store and a model that .env names have been     *)
(* made: no id is written before OpenFGA has taken the model.  It is not   *)
(* said that .env keeps what a run has written, nor that the two ids are   *)
(* of one run.                                                             *)
NamesWhatWasMade(e) == {e.store, e.model} \ {NoStore} \subseteq models

EnvironmentNamesWhatWasMade == NamesWhatWasMade(env)
=============================================================================
