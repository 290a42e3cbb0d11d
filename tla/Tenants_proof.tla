---------------------------- MODULE Tenants_proof ----------------------------
(***************************************************************************)
(* What the tenant scripts guarantee for any number of runs, users and     *)
(* parts of a realm, however the runs overlap, fail and are killed.        *)
(***************************************************************************)
EXTENDS Tenants, TLAPS

RunRecords == [script : Scripts \cup {"-"}, at : Places, step : Nat,
               store : StoreIds, model : StoreIds, id : Runs \cup {Nobody}]

(* As much of the type as the steps below need.                            *)
Shape ==
  /\ run \in [Runs -> RunRecords]
  /\ account \in [UserSet -> Accounts]
  /\ env \in Environments /\ copy \in [Runs -> Environments]

(* Only delete-tenant.sh comes to its last calls.                          *)
Deleting ==
  \A r \in Runs :
    /\ run[r].at \in {"sweep", "deleteRealm"} => run[r].script = "delete"
    /\ run[r].at = "new" => run[r].script # "delete"

(* A run that writes .env has made its store and its model.  What was made *)
(* is also all that the copies name, which may be older than .env.         *)
WritingPlaces == {"seed", "copyStore", "writeStore", "copyModel", "writeModel"}

WritesWhatIsMade ==
  \A r \in Runs : /\ run[r].at \in WritingPlaces => r \in models
                  /\ NamesWhatWasMade(copy[r])

(* A run at work on a user has one.                                        *)
HasUser ==
  \A r \in Runs : run[r].at \in {"lookup", "post", "getId", "password", "role"}
                    => run[r].step \in DOMAIN Users

(* Unless tenants are deleted, a run beyond the creation of an account     *)
(* works on an account of its own.                                         *)
OnOwnAccount(r) ==
  /\ run[r].at \in {"getId", "password", "role"}
       => account[User(r)].by = r
  /\ run[r].at \in {"password", "role"} => run[r].id = r

WorksOnOwn == NoDeletion => \A r \in Runs : OnOwnAccount(r)

IInv == /\ Shape /\ Deleting /\ HasUser
        /\ WritesWhatIsMade /\ EnvironmentNamesWhatWasMade
        /\ WorksOnOwn /\ PasswordsAreKept

-----------------------------------------------------------------------------
(* A run that goes on changes its own record only, and keeps its script.   *)
Goes(r, places) ==
  /\ run' \in [Runs -> RunRecords]
  /\ \A q \in Runs : q # r => run'[q] = run[q]
  /\ run'[r].script = run[r].script
  /\ run'[r].at \in places

LEMMA GoToGoes ==
  ASSUME Shape, NEW r \in Runs, NEW place \in Places, GoTo(r, place)
  PROVE  Goes(r, {place}) /\ run'[r].step = run[r].step
                          /\ run'[r].id = run[r].id
  BY DEF Shape, GoTo, Goes, RunRecords

LEMMA GoToStepGoes ==
  ASSUME Shape, NEW r \in Runs, NEW place \in Places, NEW n \in Nat,
         GoToStep(r, place, n)
  PROVE  Goes(r, {place}) /\ run'[r].step = n
  BY DEF Shape, GoToStep, Goes, RunRecords

LEMMA NextPartGoes ==
  ASSUME Shape, NEW r \in Runs, NextPart(r)
  PROVE  Goes(r, {"record", "check", "propagate"})
<1>1. run[r].step + 1 \in Nat
  BY DEF Shape, RunRecords
<1>2. {"record", "check", "propagate"} \subseteq Places
  BY DEF Places
<1> QED
  BY <1>1, <1>2, GoToGoes, GoToStepGoes DEF NextPart, Goes

LEMMA NextUserGoes ==
  ASSUME Shape, HasUser, NEW r \in Runs, NextUser(r),
         run[r].at \in {"lookup", "role"}
  PROVE  /\ Goes(r, {"lookup", "done"})
         /\ run'[r].at = "lookup" => run'[r].step \in DOMAIN Users
<1>1. run[r].step \in DOMAIN Users /\ DOMAIN Users = 1 .. Len(Users)
        /\ Len(Users) \in Nat
  BY TenantsAssumption DEF HasUser
<1>2. {"lookup", "done"} \subseteq Places
  BY DEF Places
<1>3. CASE run[r].step < Len(Users) /\ GoToStep(r, "lookup", run[r].step + 1)
  BY <1>1, <1>2, <1>3, GoToStepGoes DEF Goes
<1>4. CASE GoTo(r, "done")
  BY <1>2, <1>4, GoToGoes DEF Goes
<1> QED
  BY <1>3, <1>4 DEF NextUser

-----------------------------------------------------------------------------
(* The flow of a run: which place leads to the places that matter.         *)

UserPlaces == {"lookup", "post", "getId", "password", "role"}

Came(r, to, from) == run'[r].at = to => run[r].at = from
Kept(r) == run'[r].step = run[r].step

Flow(r) ==
  /\ run' \in [Runs -> RunRecords]
  /\ \A q \in Runs : q # r => run'[q] = run[q]
  /\ run'[r].script = run[r].script \/ run[r].at = "new"
  /\ run'[r].at # "new"
  /\ run[r].at = "new" => run'[r].at \in {"check", "createStore"}
  /\ run'[r].at = "sweep" => run[r].script = "delete"
  /\ Came(r, "deleteRealm", "sweep")
  /\ Came(r, "seed", "upload")
  /\ Came(r, "copyStore", "seed")
  /\ Came(r, "writeStore", "copyStore")
  /\ Came(r, "copyModel", "writeStore")
  /\ Came(r, "writeModel", "copyModel")
  /\ Came(r, "getId", "post")
  /\ Came(r, "password", "getId")
  /\ Came(r, "role", "password")
  /\ run'[r].at \in {"getId", "password", "role"} => Kept(r)
  /\ run'[r].at \in UserPlaces => run'[r].step \in DOMAIN Users

(* The steps that write .env.                                              *)
LEMMA WritesLeave ==
  ASSUME NEW r \in Runs, WriteRealm(r) \/ WriteIds(r)
  PROVE  UNCHANGED <<realm, account, stores, models, tuples>>
BY DEF WriteRealm, RecordRealm, AppendRealm, EditRealm, RenameRealm, WriteIds,
       CopyForStore, WriteStore, CopyForModel, WriteModel, keycloak, openfga

LEMMA WriteRealmGoes ==
  ASSUME Shape, NEW r \in Runs, WriteRealm(r)
  PROVE  \/ run[r].at = "record" /\ Goes(r, {"edit", "append"}) /\ Kept(r)
         \/ run[r].at = "edit" /\ Goes(r, {"rename"}) /\ Kept(r)
         \/ /\ run[r].at \in {"append", "rename"} /\ Goes(r, {"check"})
            /\ run'[r].step = run[r].step + 1
<1>1. run[r].step + 1 \in Nat
  BY DEF Shape, RunRecords
<1>2. {"edit", "append", "rename", "check"} \subseteq Places
  BY DEF Places
<1>3. CASE RecordRealm(r)
  BY <1>2, <1>3, GoToGoes DEF RecordRealm, At, Goes, Kept
<1>4. CASE EditRealm(r)
  BY <1>2, <1>4, GoToGoes DEF EditRealm, At, Goes, Kept
<1>5. CASE AppendRealm(r) \/ RenameRealm(r)
  BY <1>1, <1>2, <1>5, GoToStepGoes DEF AppendRealm, RenameRealm, At, Goes
<1> QED
  BY <1>3, <1>4, <1>5 DEF WriteRealm

LEMMA WriteIdsGoes ==
  ASSUME Shape, NEW r \in Runs, WriteIds(r)
  PROVE  /\ Kept(r)
         /\ \/ run[r].at = "copyStore" /\ Goes(r, {"writeStore"})
            \/ run[r].at = "writeStore" /\ Goes(r, {"copyModel"})
            \/ run[r].at = "copyModel" /\ Goes(r, {"writeModel"})
            \/ run[r].at = "writeModel" /\ Goes(r, {"done"})
<1>1. {"writeStore", "copyModel", "writeModel", "done"} \subseteq Places
  BY DEF Places
<1> QED
  BY <1>1, GoToGoes DEF WriteIds, CopyForStore, WriteStore, CopyForModel,
                        WriteModel, At, Kept

LEMMA StartFlows ==
  ASSUME IInv, NEW r \in Runs, Start(r)
  PROVE  Flow(r)
<1>1. PICK s \in Scripts :
        run' = [run EXCEPT ![r] = [NotStarted EXCEPT
                  !.script = s, !.at = FirstPlace[s],
                  !.store = env.store, !.model = env.model]]
  BY DEF Start
<1>2. FirstPlace[s] \in {"check", "createStore"}
  BY TenantsAssumption DEF FirstPlace
<1>3. [NotStarted EXCEPT !.script = s, !.at = FirstPlace[s],
                         !.store = env.store, !.model = env.model]
        \in RunRecords
  BY <1>2 DEF IInv, Shape, Environments, NotStarted, RunRecords, Places,
              StoreIds
<1>4. run[r].at = "new"
  BY DEF Start, At
<1> QED
  BY <1>1, <1>2, <1>3, <1>4
     DEF IInv, Shape, Flow, Came, UserPlaces, NotStarted

LEMMA CreationFlows ==
  ASSUME IInv, NEW r \in Runs,
         \/ CheckPart(r) \/ MakePart(r) \/ WriteRealm(r) \/ Propagate(r)
  PROVE  Flow(r)
<1>1. Shape /\ run[r].step + 1 \in Nat
  BY DEF IInv, Shape, RunRecords
<1>2. run[r].at \in {"check", "make", "record", "append", "edit", "rename",
                     "propagate"}
  BY <1>1, WriteRealmGoes DEF CheckPart, MakePart, Propagate, At
<1> DEFINE on == {"record", "append", "edit", "rename", "check", "propagate",
                  "make", "failed"}
<1>3. \/ Goes(r, on)
      \/ Goes(r, {"lookup"}) /\ run'[r].step = 1
  <2>1. \A p \in {"make", "failed", "check", "lookup"} : p \in Places
    BY DEF Places
  <2>2. \A p \in {"make", "failed"} : GoTo(r, p) => Goes(r, on)
    BY <1>1, <2>1, GoToGoes DEF Goes
  <2>3. NextPart(r) => Goes(r, on)
    BY <1>1, NextPartGoes DEF Goes
  <2>4. WriteRealm(r) => Goes(r, on)
    BY <1>1, WriteRealmGoes DEF Goes
  <2>5. GoToStep(r, "lookup", 1) => Goes(r, {"lookup"}) /\ run'[r].step = 1
    BY <1>1, <2>1, GoToStepGoes
  <2> QED
    BY <2>2, <2>3, <2>4, <2>5 DEF CheckPart, MakePart, Propagate
<1>4. 1 \in DOMAIN Users
  BY TenantsAssumption
<1> QED
  BY <1>2, <1>3, <1>4 DEF Goes, Flow, Came, UserPlaces

LEMMA UserFlows ==
  ASSUME IInv, NEW r \in Runs,
         \/ LookUpUser(r) \/ CreateUser(r) \/ GetUserId(r)
         \/ SetPassword(r) \/ AssignRole(r)
  PROVE  Flow(r)
<1>1. Shape /\ HasUser
  BY DEF IInv
<1>2. {"post", "getId", "role", "failed"} \subseteq Places
  BY DEF Places
<1>3. CASE LookUpUser(r)
  <2>1. run[r].at = "lookup" /\ run[r].step \in DOMAIN Users
    BY <1>1, <1>3 DEF LookUpUser, At, HasUser
  <2>2. CASE NextUser(r)
    BY <1>1, <2>1, <2>2, NextUserGoes DEF Goes, Flow, Came, UserPlaces
  <2>3. CASE GoTo(r, "post")
    BY <1>1, <1>2, <2>1, <2>3, GoToGoes DEF Goes, Flow, Came, UserPlaces
  <2> QED
    BY <1>3, <2>2, <2>3 DEF LookUpUser
<1>4. CASE CreateUser(r)
  <2>1. run[r].at = "post" /\ run[r].step \in DOMAIN Users
    BY <1>1, <1>4 DEF CreateUser, At, HasUser
  <2>2. GoTo(r, "getId") \/ GoTo(r, "failed")
    BY <1>4 DEF CreateUser
  <2> QED
    BY <1>1, <1>2, <2>1, <2>2, GoToGoes DEF Goes, Flow, Came, UserPlaces, Kept
<1>5. CASE GetUserId(r)
  <2>1. run[r].at = "getId" /\ run[r].step \in DOMAIN Users
    BY <1>1, <1>5 DEF GetUserId, At, HasUser
  <2>2. CASE GoTo(r, "failed")
    BY <1>1, <1>2, <2>1, <2>2, GoToGoes DEF Goes, Flow, Came, UserPlaces
  <2>3. CASE run' = [run EXCEPT ![r].at = "password",
                                ![r].id = account[User(r)].by]
    <3>1. User(r) \in UserSet
      BY <2>1 DEF User, UserSet
    <3>2. account[User(r)].by \in Runs \cup {Nobody}
      BY <1>1, <3>1 DEF Shape, Accounts
    <3>3. "password" \in Places
      BY DEF Places
    <3>4. /\ run' \in [Runs -> RunRecords]
          /\ \A q \in Runs : q # r => run'[q] = run[q]
          /\ run'[r].at = "password"
          /\ run'[r].script = run[r].script /\ Kept(r)
      BY <1>1, <2>3, <3>2, <3>3 DEF Shape, RunRecords, Kept
    <3> QED
      BY <2>1, <3>4 DEF Flow, Came, UserPlaces, Kept
  <2> QED
    BY <1>5, <2>2, <2>3 DEF GetUserId
<1>6. CASE SetPassword(r)
  <2>1. run[r].at = "password" /\ run[r].step \in DOMAIN Users
    BY <1>1, <1>6 DEF SetPassword, At, HasUser
  <2>2. GoTo(r, "role") \/ GoTo(r, "failed")
    BY <1>6 DEF SetPassword
  <2> QED
    BY <1>1, <1>2, <2>1, <2>2, GoToGoes DEF Goes, Flow, Came, UserPlaces, Kept
<1>7. CASE AssignRole(r)
  <2>1. run[r].at = "role"
    BY <1>7 DEF AssignRole, At
  <2>2. CASE NextUser(r)
    BY <1>1, <2>1, <2>2, NextUserGoes DEF Goes, Flow, Came, UserPlaces
  <2>3. CASE GoTo(r, "failed")
    BY <1>1, <1>2, <2>1, <2>3, GoToGoes DEF Goes, Flow, Came, UserPlaces
  <2> QED
    BY <1>7, <2>2, <2>3 DEF AssignRole
<1> QED
  BY <1>3, <1>4, <1>5, <1>6, <1>7

LEMMA OtherFlows ==
  ASSUME IInv, NEW r \in Runs,
         \/ CheckRealm(r) \/ SweepTuples(r) \/ DeleteRealm(r)
         \/ CreateStore(r) \/ UploadModel(r) \/ Seed(r)
         \/ WriteIds(r) \/ Abort(r)
  PROVE  Flow(r)
<1>1. Shape
  BY DEF IInv
<1>2. {"sweep", "done", "deleteRealm", "failed", "upload", "seed",
       "copyStore", "killed"} \subseteq Places
  BY DEF Places
<1>3. CASE CheckRealm(r)
  BY <1>1, <1>2, <1>3, GoToGoes
     DEF CheckRealm, At, Goes, Flow, Came, UserPlaces
<1>4. CASE SweepTuples(r)
  BY <1>1, <1>2, <1>4, GoToGoes
     DEF SweepTuples, At, Goes, Flow, Came, UserPlaces
<1>5. CASE DeleteRealm(r)
  BY <1>1, <1>2, <1>5, GoToGoes
     DEF DeleteRealm, At, Goes, Flow, Came, UserPlaces
<1>6. CASE CreateStore(r)
  BY <1>1, <1>2, <1>6, GoToGoes
     DEF CreateStore, At, Goes, Flow, Came, UserPlaces
<1>7. CASE UploadModel(r)
  BY <1>1, <1>2, <1>7, GoToGoes
     DEF UploadModel, At, Goes, Flow, Came, UserPlaces
<1>8. CASE Seed(r)
  BY <1>1, <1>2, <1>8, GoToGoes DEF Seed, At, Goes, Flow, Came, UserPlaces
<1>9. CASE WriteIds(r)
  BY <1>1, <1>9, WriteIdsGoes DEF Goes, Flow, Came, UserPlaces
<1>10. CASE Abort(r)
  BY <1>1, <1>2, <1>10, GoToGoes
     DEF Abort, Over, Goes, Flow, Came, UserPlaces
<1> QED
  BY <1>3, <1>4, <1>5, <1>6, <1>7, <1>8, <1>9, <1>10

LEMMA StepFlows ==
  ASSUME IInv, NEW r \in Runs, Step(r)
  PROVE  Flow(r)
  BY StartFlows, CreationFlows, UserFlows, OtherFlows DEF Step

-----------------------------------------------------------------------------
(* What a step does to the accounts.                                       *)

AccountKept == UNCHANGED account

AccountMade(r) ==
  /\ run[r].at = "post" /\ ~ Exists(User(r))
  /\ account' = [account EXCEPT ![User(r)].by = r]

AccountUpdated(r) ==
  /\ run[r].at \in {"password", "role"}
  /\ account[User(r)].by = run[r].id
  /\ \/ account' = [account EXCEPT ![User(r)].password = r]
     \/ account' = [account EXCEPT ![User(r)].role = TRUE]

AccountsDeleted(r) ==
  /\ run[r].at = "deleteRealm"
  /\ account' = [u \in UserSet |-> NoAccount]

LEMMA StepAccounts ==
  ASSUME IInv, NEW r \in Runs, Step(r)
  PROVE  /\ \/ AccountKept \/ AccountMade(r) \/ AccountUpdated(r)
            \/ AccountsDeleted(r)
         /\ run'[r].at = "getId" => AccountMade(r)
         /\ run'[r].at = "password"
              => AccountKept /\ run'[r].id = account[User(r)].by
         /\ run'[r].at = "role" => run'[r].id = run[r].id
<1>1. Flow(r)
  BY StepFlows
<1>2. Shape
  BY DEF IInv
<1>3. {"getId", "role", "failed"} \subseteq Places
  BY DEF Places
<1>4. CASE CreateUser(r)
  BY <1>1, <1>2, <1>3, <1>4, GoToGoes
     DEF CreateUser, At, AccountMade, AccountKept, Flow, Came, Goes
<1>5. CASE GetUserId(r)
  <2>1. run[r].at = "getId" /\ AccountKept
    BY <1>5 DEF GetUserId, At, keycloak, AccountKept
  <2>2. run'[r].at = "password" => run'[r].id = account[User(r)].by
    <3>1. CASE run' = [run EXCEPT ![r].at = "password",
                                  ![r].id = account[User(r)].by]
      BY <1>2, <3>1 DEF Shape, RunRecords
    <3>2. CASE GoTo(r, "failed")
      BY <1>2, <1>3, <3>2, GoToGoes DEF Goes
    <3> QED
      BY <1>5, <3>1, <3>2 DEF GetUserId
  <2> QED
    BY <1>1, <2>1, <2>2 DEF Flow, Came
<1>6. CASE SetPassword(r)
  <2>1. run[r].at = "password" /\ (AccountKept \/ AccountUpdated(r))
    BY <1>6 DEF SetPassword, At, AccountKept, AccountUpdated
  <2>2. GoTo(r, "role") \/ GoTo(r, "failed")
    BY <1>6 DEF SetPassword
  <2>3. run'[r].id = run[r].id
    BY <1>2, <1>3, <2>2, GoToGoes
  <2> QED
    BY <1>1, <2>1, <2>3 DEF Flow, Came
<1>7. CASE AssignRole(r)
  BY <1>1, <1>7
     DEF AssignRole, At, AccountKept, AccountUpdated, Flow, Came
<1>8. CASE DeleteRealm(r)
  BY <1>1, <1>8
     DEF DeleteRealm, At, keycloak, AccountKept, AccountsDeleted, Flow, Came
<1>9. CASE Start(r)
  BY <1>1, <1>9 DEF Start, At, keycloak, AccountKept, Flow, Came
<1>10. CASE \/ CheckPart(r) \/ MakePart(r) \/ Propagate(r) \/ LookUpUser(r)
  BY <1>1, <1>10 DEF CheckPart, MakePart, Propagate, LookUpUser, At, keycloak,
                     AccountKept, Flow, Came
<1>11. CASE CheckRealm(r) \/ SweepTuples(r) \/ CreateStore(r)
              \/ UploadModel(r) \/ Seed(r)
  BY <1>1, <1>11 DEF CheckRealm, SweepTuples, CreateStore, UploadModel, Seed,
                     At, keycloak, AccountKept, Flow, Came
<1>12. CASE Abort(r)
  <2>1. AccountKept /\ run'[r].at \in {"failed", "killed"}
    <3>1. {"failed", "killed"} \subseteq Places
      BY DEF Places
    <3> QED
      BY <1>2, <1>12, <3>1, GoToGoes DEF Abort, keycloak, AccountKept, Goes
  <2> QED
    BY <2>1
<1>13. CASE WriteRealm(r) \/ WriteIds(r)
  BY <1>1, <1>2, <1>13, WritesLeave, WriteRealmGoes, WriteIdsGoes
     DEF AccountKept, Flow, Came
<1> QED
  BY <1>4, <1>5, <1>6, <1>7, <1>8, <1>9, <1>10, <1>11, <1>12, <1>13 DEF Step

(* What a step does to .env and to the copies of it.                       *)

Updates(e, r) == {e, [e EXCEPT !.realm = TRUE], [e EXCEPT !.store = r],
                  [e EXCEPT !.model = r]}

(* The ids are those of a run that writes them.                            *)
FilesRewritten(r) ==
  /\ UNCHANGED env
  /\ \E e \in Updates(env, r) :
       /\ copy' = [copy EXCEPT ![r] = e]
       /\ {e.store, e.model} \subseteq {env.store, env.model}
            \/ run[r].at \in WritingPlaces

FilesWritten(r) ==
  /\ env' \in {env, copy[r], [env EXCEPT !.realm = TRUE]}
  /\ copy' \in {copy, [copy EXCEPT ![r] = EmptyFile]}

LEMMA StepFiles ==
  ASSUME NEW r \in Runs, Step(r)
  PROVE  FilesRewritten(r) \/ FilesWritten(r)
<1>1. CASE EditRealm(r)
  BY <1>1 DEF EditRealm, Rewrite, FilesRewritten, Updates
<1>2. CASE CopyForStore(r)
  BY <1>2 DEF CopyForStore, At, Rewrite, FilesRewritten, Updates,
              WritingPlaces
<1>3. CASE CopyForModel(r)
  BY <1>3 DEF CopyForModel, At, Rewrite, FilesRewritten, Updates,
              WritingPlaces
<1>4. CASE RecordRealm(r) \/ AppendRealm(r) \/ RenameRealm(r)
             \/ WriteStore(r) \/ WriteModel(r) \/ Abort(r)
  BY <1>4 DEF RecordRealm, AppendRealm, RenameRealm, WriteStore, WriteModel,
              Abort, Rename, DropCopy, FilesWritten, files
<1>5. CASE \/ Start(r) \/ CheckPart(r) \/ MakePart(r) \/ Propagate(r)
           \/ LookUpUser(r) \/ CreateUser(r) \/ GetUserId(r)
           \/ SetPassword(r) \/ AssignRole(r)
           \/ CheckRealm(r) \/ SweepTuples(r) \/ DeleteRealm(r)
           \/ CreateStore(r) \/ UploadModel(r) \/ Seed(r)
  BY <1>5 DEF Start, CheckPart, MakePart, Propagate, LookUpUser, CreateUser,
              GetUserId, SetPassword, AssignRole, CheckRealm, SweepTuples,
              DeleteRealm, CreateStore, UploadModel, Seed, FilesWritten, files
<1> QED
  BY <1>1, <1>2, <1>3, <1>4, <1>5 DEF Step, WriteRealm, WriteIds

LEMMA FilesKeepType ==
  ASSUME env \in Environments, copy \in [Runs -> Environments],
         NEW r \in Runs, FilesRewritten(r) \/ FilesWritten(r)
  PROVE  env' \in Environments /\ copy' \in [Runs -> Environments]
<1>1. EmptyFile \in Environments /\ copy[r] \in Environments
  BY DEF EmptyFile, Environments, StoreIds
<1>2. Updates(env, r) \subseteq Environments
  BY DEF Updates, Environments, StoreIds
<1>3. CASE FilesRewritten(r)
  BY <1>2, <1>3 DEF FilesRewritten
<1>4. CASE FilesWritten(r)
  BY <1>1, <1>2, <1>4 DEF FilesWritten, Updates
<1> QED
  BY <1>3, <1>4

LEMMA ShapeStep ==
  ASSUME IInv, NEW r \in Runs, Step(r)
  PROVE  Shape'
<1>1. run' \in [Runs -> RunRecords]
  BY StepFlows DEF Flow
<1>2. account' \in [UserSet -> Accounts]
  <2>1. account \in [UserSet -> Accounts] /\ NoAccount \in Accounts
    BY DEF IInv, Shape, NoAccount, Accounts
  <2>2. CASE AccountKept
    BY <2>1, <2>2 DEF AccountKept
  <2>3. CASE AccountMade(r)
    BY <2>1, <2>3 DEF AccountMade, Accounts
  <2>4. CASE AccountUpdated(r)
    <3>1. CASE account' = [account EXCEPT ![User(r)].password = r]
      BY <2>1, <3>1 DEF Accounts
    <3>2. CASE account' = [account EXCEPT ![User(r)].role = TRUE]
      BY <2>1, <3>2 DEF Accounts
    <3> QED
      BY <2>4, <3>1, <3>2 DEF AccountUpdated
  <2>5. CASE AccountsDeleted(r)
    BY <2>1, <2>5 DEF AccountsDeleted
  <2> QED
    BY <2>2, <2>3, <2>4, <2>5, StepAccounts
<1>3. env' \in Environments /\ copy' \in [Runs -> Environments]
  BY StepFiles, FilesKeepType DEF IInv, Shape
<1> QED
  BY <1>1, <1>2, <1>3 DEF Shape

LEMMA FlowStep ==
  ASSUME IInv, NEW r \in Runs, Step(r)
  PROVE  Deleting' /\ HasUser'
<1>1. Flow(r)
  BY StepFlows
<1>2. Deleting'
  BY <1>1 DEF IInv, Deleting, Flow, Came
<1>3. HasUser'
  BY <1>1 DEF IInv, HasUser, Flow, UserPlaces
<1> QED
  BY <1>2, <1>3

LEMMA AccountStep ==
  ASSUME IInv, NEW r \in Runs, Step(r)
  PROVE  WorksOnOwn' /\ PasswordsAreKept'
<1> SUFFICES ASSUME NoDeletion'
             PROVE  /\ \A q \in Runs : OnOwnAccount(q)'
                    /\ \A u \in UserSet :
                         account'[u].password \in {Nobody, account'[u].by}
  BY DEF WorksOnOwn, PasswordsAreKept
<1>1. Flow(r)
  BY StepFlows
<1>2. NoDeletion
  BY <1>1 DEF NoDeletion, Flow, IInv, Deleting
<1>3. /\ \A q \in Runs : OnOwnAccount(q)
      /\ \A u \in UserSet : account[u].password \in {Nobody, account[u].by}
  BY <1>2 DEF IInv, WorksOnOwn, PasswordsAreKept
<1>4. ~ AccountsDeleted(r)
  BY <1>2 DEF AccountsDeleted, IInv, Deleting, NoDeletion
<1>5. /\ account \in [UserSet -> Accounts]
      /\ account' \in [UserSet -> Accounts]
  BY ShapeStep DEF IInv, Shape
<1>6. \A q \in Runs : run[q].at \in UserPlaces => User(q) \in UserSet
  BY DEF IInv, HasUser, UserPlaces, User, UserSet
<1>7. AccountMade(r) =>
        /\ User(r) \in UserSet
        /\ account[User(r)] = NoAccount
        /\ account'[User(r)].by = r
        /\ account'[User(r)].password = Nobody
  BY <1>5, <1>6 DEF AccountMade, Exists, UserPlaces, NoAccount, Accounts
<1>8. AccountUpdated(r) => \A u \in UserSet : account'[u].by = account[u].by
  BY <1>5 DEF AccountUpdated, Accounts
<1>9. \A q \in Runs : run'[q].at \in {"getId", "password", "role"}
        => User(q)' = User(q)
  BY <1>1 DEF Flow, Kept, User
<1>10. \A q \in Runs : OnOwnAccount(q)'
  <2> SUFFICES ASSUME NEW q \in Runs PROVE OnOwnAccount(q)'
    OBVIOUS
  <2>1. CASE q = r
    <3>1. run'[r].at = "getId" => account'[User(r)].by = r
      BY <1>7, StepAccounts
    <3>2. run'[r].at = "password"
            => run'[r].id = r /\ account'[User(r)].by = r
      BY <1>1, <1>3, StepAccounts
         DEF Flow, Came, OnOwnAccount, AccountKept
    <3>3. run'[r].at = "role" => run'[r].id = r /\ account'[User(r)].by = r
      <4> SUFFICES ASSUME run'[r].at = "role"
                   PROVE  run'[r].id = r /\ account'[User(r)].by = r
        OBVIOUS
      <4>1. run[r].at = "password"
        BY <1>1 DEF Flow, Came
      <4>2. run[r].id = r /\ account[User(r)].by = r /\ User(r) \in UserSet
        BY <1>3, <1>6, <4>1 DEF OnOwnAccount, UserPlaces
      <4>3. AccountKept \/ AccountUpdated(r)
        BY <1>4, <4>1, StepAccounts DEF AccountMade
      <4> QED
        BY <1>8, <4>2, <4>3, StepAccounts DEF AccountKept
    <3> QED
      BY <1>9, <2>1, <3>1, <3>2, <3>3 DEF OnOwnAccount
  <2>2. CASE q # r
    <3> SUFFICES ASSUME run[q].at \in {"getId", "password", "role"}
                 PROVE  account'[User(q)].by = q
      BY <1>1, <1>3, <1>9, <2>2 DEF Flow, OnOwnAccount
    <3>1. account[User(q)].by = q /\ User(q) \in UserSet
      BY <1>3, <1>6 DEF OnOwnAccount, UserPlaces
    <3>2. CASE AccountMade(r)
      <4>1. User(q) # User(r)
        BY <1>7, <3>1, <3>2, TenantsAssumption DEF NoAccount
      <4> QED
        BY <1>5, <3>1, <3>2, <4>1 DEF AccountMade
    <3>3. CASE AccountKept
      BY <3>1, <3>3 DEF AccountKept
    <3>4. CASE AccountUpdated(r)
      BY <1>8, <3>1, <3>4
    <3> QED
      BY <1>4, <3>2, <3>3, <3>4, StepAccounts
  <2> QED
    BY <2>1, <2>2
<1>11. \A u \in UserSet :
         account'[u].password \in {Nobody, account'[u].by}
  <2> SUFFICES ASSUME NEW u \in UserSet
               PROVE  account'[u].password \in {Nobody, account'[u].by}
    OBVIOUS
  <2>1. CASE AccountMade(r)
    <3>1. CASE u = User(r)
      BY <1>7, <2>1, <3>1
    <3>2. CASE u # User(r)
      BY <1>3, <1>5, <2>1, <3>2 DEF AccountMade
    <3> QED
      BY <3>1, <3>2
  <2>2. CASE AccountKept
    BY <1>3, <2>2 DEF AccountKept
  <2>3. CASE AccountUpdated(r)
    <3>1. account[User(r)].by = r /\ User(r) \in UserSet
      BY <1>3, <1>6, <2>3 DEF AccountUpdated, OnOwnAccount, UserPlaces
    <3>2. CASE account' = [account EXCEPT ![User(r)].password = r]
      BY <1>3, <1>5, <3>1, <3>2 DEF Accounts
    <3>3. CASE account' = [account EXCEPT ![User(r)].role = TRUE]
      BY <1>3, <1>5, <3>1, <3>3 DEF Accounts
    <3> QED
      BY <2>3, <3>2, <3>3 DEF AccountUpdated
  <2> QED
    BY <1>4, <2>1, <2>2, <2>3, StepAccounts
<1> QED
  BY <1>10, <1>11

-----------------------------------------------------------------------------
(* The stores and .env.                                                    *)

LEMMA StoreStep ==
  ASSUME IInv, NEW r \in Runs, Step(r)
  PROVE  WritesWhatIsMade' /\ EnvironmentNamesWhatWasMade'
<1>1. Flow(r)
  BY StepFlows
<1>2. /\ models \subseteq models'
      /\ run[r].at = "upload" /\ run'[r].at = "seed" => r \in models'
  <2>1. CASE UploadModel(r)
    BY <2>1 DEF UploadModel
  <2>2. CASE Abort(r)
    <3>1. {"failed", "killed"} \subseteq Places
      BY DEF Places
    <3> QED
      BY <2>2, <3>1, GoToGoes DEF Abort, openfga, IInv, Goes
  <2>3. CASE WriteRealm(r) \/ WriteIds(r)
    BY <2>3, WritesLeave, WriteRealmGoes, WriteIdsGoes DEF IInv
  <2>4. CASE \/ Start(r) \/ CheckPart(r) \/ MakePart(r) \/ Propagate(r)
             \/ LookUpUser(r) \/ CreateUser(r) \/ GetUserId(r)
             \/ SetPassword(r) \/ AssignRole(r)
             \/ CheckRealm(r) \/ SweepTuples(r) \/ DeleteRealm(r)
             \/ CreateStore(r) \/ Seed(r)
    BY <2>4 DEF Start, CheckPart, MakePart, Propagate, LookUpUser, CreateUser,
                GetUserId, SetPassword, AssignRole, CheckRealm, SweepTuples,
                DeleteRealm, CreateStore, Seed, openfga, At
  <2> QED
    BY <2>1, <2>2, <2>3, <2>4 DEF Step
<1>3. \A q \in Runs : run'[q].at \in WritingPlaces => q \in models'
  BY <1>1, <1>2 DEF IInv, WritesWhatIsMade, WritingPlaces, Flow, Came
<1> DEFINE Ok(e) == {e.store, e.model} \ {NoStore} \subseteq models'
<1>4. /\ env \in Environments /\ copy \in [Runs -> Environments]
      /\ Ok(env) /\ (\A q \in Runs : Ok(copy[q])) /\ Ok(EmptyFile)
  BY <1>2 DEF IInv, Shape, WritesWhatIsMade, EnvironmentNamesWhatWasMade,
              NamesWhatWasMade, EmptyFile
<1>5. Ok(env') /\ \A q \in Runs : Ok(copy'[q])
  <2>1. CASE FilesRewritten(r)
    <3>1. PICK e \in Updates(env, r) :
            /\ copy' = [copy EXCEPT ![r] = e]
            /\ {e.store, e.model} \subseteq {env.store, env.model}
                 \/ run[r].at \in WritingPlaces
      BY <2>1 DEF FilesRewritten
    <3>2. {e.store, e.model} \subseteq {env.store, env.model, r}
      BY <1>4, <3>1 DEF Updates, Environments
    <3>3. run[r].at \in WritingPlaces => r \in models'
      BY <1>2 DEF IInv, WritesWhatIsMade
    <3>4. Ok(e)
      BY <1>4, <3>1, <3>2, <3>3
    <3> QED
      BY <1>4, <2>1, <3>1, <3>4 DEF FilesRewritten
  <2>2. CASE FilesWritten(r)
    <3>1. Ok(env')
      <4>1. Ok([env EXCEPT !.realm = TRUE])
        BY <1>4 DEF Environments
      <4> QED
        BY <1>4, <2>2, <4>1 DEF FilesWritten
    <3>2. \A q \in Runs : Ok(copy'[q])
      BY <1>4, <2>2 DEF FilesWritten
    <3> QED
      BY <3>1, <3>2
  <2> QED
    BY <2>1, <2>2, StepFiles
<1> QED
  BY <1>3, <1>5 DEF WritesWhatIsMade, EnvironmentNamesWhatWasMade,
                    NamesWhatWasMade

(* Where a run of a script can be, and what it has made, however the runs  *)
(* overlap and end.                                                        *)
THEOREM TenantsInvariant == Spec => []IInv
<1>1. Init => IInv
  <2> SUFFICES ASSUME Init PROVE IInv
    OBVIOUS
  <2>1. NotStarted \in RunRecords /\ NoAccount \in Accounts
    BY DEF NotStarted, RunRecords, Places, StoreIds, NoAccount, Accounts
  <2>2. Shape
    <3>1. EmptyFile \in Environments
            /\ [EmptyFile EXCEPT !.realm = TRUE] \in Environments
      BY DEF EmptyFile, Environments, StoreIds
    <3> QED
      BY <2>1, <3>1 DEF Init, Shape
  <2>3. \A r \in Runs : run[r].at = "new" /\ run[r].script = "-"
    BY DEF Init, NotStarted
  <2>4. \A u \in UserSet : account[u].password = Nobody
    BY DEF Init, NoAccount
  <2>5. Deleting /\ HasUser /\ WorksOnOwn
    BY <2>3 DEF Deleting, HasUser, WorksOnOwn, OnOwnAccount
  <2>6. WritesWhatIsMade /\ EnvironmentNamesWhatWasMade
    BY <2>3 DEF Init, EmptyFile, NamesWhatWasMade, WritesWhatIsMade,
                WritingPlaces, EnvironmentNamesWhatWasMade
  <2>7. PasswordsAreKept
    BY <2>4 DEF PasswordsAreKept
  <2> QED
    BY <2>2, <2>5, <2>6, <2>7 DEF IInv
<1>2. IInv /\ [Next]_vars => IInv'
  <2> SUFFICES ASSUME IInv, [Next]_vars PROVE IInv'
    OBVIOUS
  <2>1. ASSUME NEW r \in Runs, Step(r) PROVE IInv'
    BY <2>1, ShapeStep, FlowStep, AccountStep, StoreStep DEF IInv
  <2>2. CASE LoadTuples \/ UNCHANGED vars
    <3>1. UNCHANGED <<account, models, env, copy, run>>
      BY <2>2 DEF LoadTuples, keycloak, files, vars
    <3> QED
      BY <3>1 DEF IInv, Shape, Deleting, HasUser, WritesWhatIsMade,
                  NamesWhatWasMade, EnvironmentNamesWhatWasMade, WorksOnOwn,
                  OnOwnAccount, User, PasswordsAreKept, NoDeletion
  <2> QED
    BY <2>1, <2>2 DEF Next
<1> QED
  BY <1>1, <1>2, PTL DEF Spec

(* However often and concurrently create-tenant.sh runs, and wherever its  *)
(* runs are killed, no account's password is ever changed.                 *)
THEOREM PasswordsAreAlwaysKept == Spec => []PasswordsAreKept
  BY TenantsInvariant, PTL DEF IInv

(* At every moment the store and the model that .env names were made: also *)
(* when a run puts an older copy of it in place of what others wrote.      *)
THEOREM EnvironmentAlwaysNamesWhatWasMade ==
  Spec => []EnvironmentNamesWhatWasMade
  BY TenantsInvariant, PTL DEF IInv

-----------------------------------------------------------------------------
(* How far a run has come, and what must then be there.                    *)

RecordPlaces == {"record", "append", "edit", "rename"}

(* Which script comes to which places.                                     *)
OnRoute ==
  \A r \in Runs :
    /\ run[r].at = "new" => run[r].script = "-"
    /\ run[r].at \in {"make", "propagate"} \cup RecordPlaces \cup UserPlaces
         => run[r].script = "create"
    /\ run[r].at \in {"createStore", "upload"} \cup WritingPlaces
         => run[r].script = "setup"
    /\ run[r].at = "check" => run[r].script \in {"create", "delete"}

(* A run at work on a part of the realm has one.                           *)
OnPart ==
  \A r \in Runs :
    /\ run[r].step \in DOMAIN Built \cup DOMAIN Users
    /\ run[r].at \in {"check", "make"} => run[r].step \in DOMAIN Built
    /\ run[r].at \in RecordPlaces => run[r].step = 1

Stored ==
  /\ stores \subseteq Runs /\ models \subseteq stores /\ tuples \subseteq stores
  /\ \A r \in Runs : run[r].at = "upload" => r \in stores

RealmParts == realm \subseteq {Built[i] : i \in DOMAIN Built}

(* Accounts come from runs of create-tenant.sh, and what a run updates on  *)
(* an account of its own is in order.                                      *)
Made ==
  /\ \A u \in UserSet : /\ account[u].by \in Creations \cup {Nobody}
                        /\ account[u].by = Nobody => account[u] = NoAccount
  /\ \A r \in Runs : run[r].at \in {"password", "role"} => run[r].id # Nobody
  /\ \A r \in Runs :
       run[r].at \in {"password", "role"} /\ account[User(r)].by = r =>
         /\ run[r].id = r
         /\ run[r].at = "role" => account[User(r)].password # Nobody

PartsBelow(n) == \A i \in DOMAIN Built : i < n => Built[i] \in realm
UsersBelow(n) == \A k \in DOMAIN Users : k < n => Exists(Users[k])

(* Unless tenants are deleted, what a run has passed is there.             *)
Passed(r) ==
  /\ run[r].at \in {"check", "make"} => PartsBelow(run[r].step)
  /\ run[r].at \in RecordPlaces => "realm" \in realm
  /\ run[r].at \in {"propagate", "done"} \cup UserPlaces
       => \A i \in DOMAIN Built : Built[i] \in realm
  /\ run[r].at \in UserPlaces => UsersBelow(run[r].step)
  /\ run[r].at = "done" => \A u \in UserSet : Exists(u)

PassedIsThere == NoDeletion => \A r \in Creations : Passed(r)

WInv == /\ OnRoute /\ OnPart /\ Stored /\ RealmParts /\ Made
        /\ HalfMadeAccountsAreKnown /\ PassedIsThere

-----------------------------------------------------------------------------
(* The ways of a run.                                                      *)

PartEnsured(r) ==
  /\ run[r].at \in {"check", "make"} /\ Part(r) \in realm'
  /\ \/ Part(r) = "realm" /\ run'[r].at = "record" /\ Kept(r)
     \/ /\ Part(r) # "realm" /\ run[r].step < Len(Built)
        /\ run'[r].at = "check" /\ run'[r].step = run[r].step + 1
     \/ /\ Part(r) # "realm" /\ run[r].step = Len(Built)
        /\ run'[r].at = "propagate" /\ Kept(r)

UserPassed(r) ==
  /\ \/ run[r].at = "lookup" /\ Exists(User(r)) /\ UNCHANGED account
     \/ /\ run[r].at = "role" /\ account[User(r)].by = run[r].id
        /\ account' = [account EXCEPT ![User(r)].role = TRUE]
  /\ \/ /\ run[r].step < Len(Users)
        /\ run'[r].at = "lookup" /\ run'[r].step = run[r].step + 1
     \/ /\ run[r].step = Len(Users)
        /\ run'[r].at = "done" /\ Kept(r)

Prepares(r) ==
  \/ run[r].at = "check" /\ run'[r].at = "make" /\ Kept(r)
  \/ PartEnsured(r)
  \/ /\ run[r].at \in {"record", "edit"} /\ Kept(r)
     /\ run'[r].at \in {"append", "edit", "rename"}
  \/ /\ run[r].at \in {"append", "rename"}
     /\ run'[r].at = "check" /\ run'[r].step = run[r].step + 1
  \/ run[r].at = "propagate" /\ run'[r].at = "lookup" /\ run'[r].step = 1
  \/ run[r].at = "lookup" /\ run'[r].at = "post" /\ Kept(r)
  \/ /\ run[r].at = "getId" /\ run'[r].at = "password" /\ Kept(r)
     /\ Exists(User(r)) /\ run'[r].id = account[User(r)].by

Creates(r) ==
  \/ Prepares(r) /\ UNCHANGED account
  \/ run[r].at = "post" /\ run'[r].at = "getId" /\ Kept(r) /\ AccountMade(r)
  \/ /\ run[r].at = "password" /\ run'[r].at = "role" /\ Kept(r)
     /\ account[User(r)].by = run[r].id
     /\ account' = [account EXCEPT ![User(r)].password = r]
  \/ UserPassed(r)

Begins(r) ==
  /\ run[r].at = "new" /\ run'[r].step = 1 /\ UNCHANGED account
  /\ \/ run'[r].script \in {"create", "delete"} /\ run'[r].at = "check"
     \/ run'[r].script = "setup" /\ run'[r].at = "createStore"

Ends(r) ==
  /\ run[r].at # "new"
  /\ run'[r].at \in {"failed", "killed"} /\ Kept(r) /\ UNCHANGED account

ElseWorks(r) ==
  /\ Kept(r) /\ (UNCHANGED account \/ AccountsDeleted(r))
  /\ \/ /\ run[r].script = "delete"
        /\ run'[r].at \in {"sweep", "deleteRealm", "done"}
     \/ /\ run[r].script = "setup"
        /\ run'[r].at \in {"upload", "done"} \cup WritingPlaces

Ways(r) ==
  /\ run[r].at \notin Over
  /\ \/ Begins(r)
     \/ /\ run[r].at # "new" /\ run'[r].script = run[r].script
        /\ \/ Ends(r) \/ ElseWorks(r)
           \/ run[r].script = "create" /\ Creates(r)

LEMMA BuiltIs ==
  /\ DOMAIN Built = 1 .. Len(Built) /\ Len(Built) \in Nat /\ Len(Built) > 1
  /\ Built[1] = "realm"
  /\ \A i \in 2 .. Len(Built) : Built[i] # "realm"
<1>1. /\ Resources \in Seq(STRING) /\ Len(Resources) \in Nat \ {0}
      /\ DOMAIN Resources = 1 .. Len(Resources)
  BY TenantsAssumption
<1>2. /\ Len(Built) = Len(Resources) + 1 /\ Built[1] = "realm"
      /\ DOMAIN Built = 1 .. Len(Built)
      /\ \A i \in 2 .. Len(Built) : Built[i] = Resources[i - 1]
  BY <1>1 DEF Built
<1>3. \A i \in 2 .. Len(Built) : i - 1 \in DOMAIN Resources
  BY <1>1, <1>2
<1> QED
  BY <1>1, <1>2, <1>3, TenantsAssumption

LEMMA NextPartEnsures ==
  ASSUME Shape, NEW r \in Runs, NextPart(r), run[r].at \in {"check", "make"},
         Part(r) \in realm'
  PROVE  PartEnsured(r)
<1>1. run[r].step + 1 \in Nat
  BY DEF Shape, RunRecords
<1>2. {"record", "check", "propagate"} \subseteq Places
  BY DEF Places
<1> QED
  BY <1>1, <1>2, GoToGoes, GoToStepGoes
     DEF NextPart, Goes, PartEnsured, Kept

LEMMA CreationWays ==
  ASSUME IInv, OnRoute, NEW r \in Runs,
         \/ CheckPart(r) \/ MakePart(r) \/ WriteRealm(r) \/ Propagate(r)
  PROVE  Ends(r) \/ (run[r].script = "create" /\ Creates(r))
<1>1. Shape /\ run[r].step + 1 \in Nat
  BY DEF IInv, Shape, RunRecords
<1>2. /\ run[r].at \in {"check", "make", "propagate"} \cup RecordPlaces
      /\ run[r].script = "create"
  BY <1>1, WriteRealmGoes
     DEF CheckPart, MakePart, Propagate, At, OnRoute, RecordPlaces
<1>3. {"make", "failed", "check", "lookup"} \subseteq Places
  BY DEF Places
<1>4. UNCHANGED account /\ (GoTo(r, "failed") => Ends(r))
  BY <1>2, <1>1, <1>3, GoToGoes, WritesLeave
     DEF CheckPart, MakePart, Propagate, keycloak, RecordPlaces, Goes, Ends,
         Kept
<1>5. CASE CheckPart(r)
  <2>1. run[r].at = "check"
    BY <1>5 DEF CheckPart, At
  <2>2. CASE Part(r) \in realm /\ NextPart(r)
    <3>1. Part(r) \in realm'
      BY <1>5, <2>2 DEF CheckPart, keycloak
    <3> QED
      BY <1>1, <1>2, <2>1, <2>2, <1>4, <3>1, NextPartEnsures
         DEF Creates, Prepares
  <2>3. CASE GoTo(r, "make")
    BY <1>2, <1>1, <1>3, <1>4, <2>1, <2>3, GoToGoes
       DEF Goes, Creates, Prepares, Kept
  <2> QED
    BY <1>5, <2>2, <2>3 DEF CheckPart
<1>6. CASE MakePart(r)
  <2>1. run[r].at = "make"
    BY <1>6 DEF MakePart, At
  <2>2. CASE realm' = realm \cup {Part(r)} /\ NextPart(r)
    BY <1>2, <1>1, <1>4, <2>1, <2>2, NextPartEnsures DEF Creates, Prepares
  <2> QED
    BY <1>4, <1>6, <2>2 DEF MakePart
<1>7. CASE WriteRealm(r)
  BY <1>2, <1>1, <1>4, <1>7, WriteRealmGoes DEF Goes, Creates, Prepares
<1>8. CASE Propagate(r)
  <2>1. CASE GoToStep(r, "lookup", 1)
    BY <1>2, <1>1, <1>3, <1>4, <1>8, <2>1, GoToStepGoes
       DEF Propagate, At, Goes, Creates, Prepares
  <2> QED
    BY <1>4, <1>8, <2>1 DEF Propagate
<1> QED
  BY <1>5, <1>6, <1>7, <1>8

LEMMA UserWays ==
  ASSUME IInv, OnRoute, NEW r \in Runs,
         \/ LookUpUser(r) \/ CreateUser(r) \/ GetUserId(r)
         \/ SetPassword(r) \/ AssignRole(r)
  PROVE  Ends(r) \/ (run[r].script = "create" /\ Creates(r))
<1>1. run[r].at \in UserPlaces /\ run[r].script = "create"
  BY DEF LookUpUser, CreateUser, GetUserId, SetPassword, AssignRole, At,
         OnRoute, UserPlaces
<1>2. Shape /\ run[r].step \in DOMAIN Users /\ run[r].step + 1 \in Nat
  BY <1>1 DEF IInv, HasUser, UserPlaces, Shape, RunRecords
<1>3. {"post", "getId", "role", "failed", "lookup", "done"} \subseteq Places
  BY DEF Places
<1>4. GoTo(r, "failed") /\ UNCHANGED account => Ends(r)
  BY <1>1, <1>2, <1>3, GoToGoes DEF Goes, Ends, Kept, UserPlaces
<1>5. NextUser(r) =>
        \/ /\ run[r].step < Len(Users)
           /\ run'[r].at = "lookup" /\ run'[r].step = run[r].step + 1
        \/ /\ run[r].step = Len(Users)
           /\ run'[r].at = "done" /\ Kept(r)
  BY <1>2, <1>3, GoToGoes, GoToStepGoes DEF NextUser, Goes, Kept
<1>6. CASE LookUpUser(r)
  <2>1. run[r].at = "lookup" /\ UNCHANGED account
    BY <1>6 DEF LookUpUser, At, keycloak
  <2>2. CASE Exists(User(r)) /\ NextUser(r)
    BY <1>1, <1>5, <2>1, <2>2 DEF Creates, UserPassed
  <2>3. CASE GoTo(r, "post")
    BY <1>1, <1>2, <1>3, <2>1, <2>3, GoToGoes
       DEF Goes, Creates, Prepares, Kept
  <2> QED
    BY <1>6, <2>2, <2>3 DEF LookUpUser
<1>7. CASE CreateUser(r)
  BY <1>1, <1>2, <1>3, <1>4, <1>7, GoToGoes
     DEF CreateUser, At, AccountMade, Goes, Creates, Kept
<1>8. CASE GetUserId(r)
  <2>1. CASE run' = [run EXCEPT ![r].at = "password",
                                ![r].id = account[User(r)].by]
    <3>1. /\ run'[r].at = "password" /\ Kept(r)
          /\ run'[r].id = account[User(r)].by
      BY <1>2, <2>1 DEF Shape, RunRecords, Kept
    <3>2. Exists(User(r)) => Ends(r) \/ Creates(r)
      BY <1>8, <3>1 DEF GetUserId, At, keycloak, Creates, Prepares
    <3>3. ~ Exists(User(r)) => Ends(r)
      BY <1>4, <1>8 DEF GetUserId, keycloak
    <3> QED
      BY <1>1, <3>2, <3>3
  <2> QED
    BY <1>4, <1>8, <2>1 DEF GetUserId, keycloak
<1>9. CASE SetPassword(r)
  BY <1>1, <1>2, <1>3, <1>4, <1>9, GoToGoes
     DEF SetPassword, At, Goes, Creates, Kept
<1>10. CASE AssignRole(r)
  BY <1>1, <1>4, <1>5, <1>10 DEF AssignRole, At, Creates, UserPassed
<1> QED
  BY <1>6, <1>7, <1>8, <1>9, <1>10

LEMMA StepWays ==
  ASSUME IInv, OnRoute, NEW r \in Runs, Step(r)
  PROVE  Ways(r)
<1>1. Flow(r)
  BY StepFlows
<1>2. Shape
  BY DEF IInv
<1>3. {"sweep", "done", "deleteRealm", "failed", "upload", "seed",
       "copyStore", "killed"} \subseteq Places
  BY DEF Places
<1>4. run[r].at \notin Over
  BY <1>2, WriteRealmGoes, WriteIdsGoes
     DEF Step, Start, CheckPart, MakePart, Propagate, LookUpUser, CreateUser,
         GetUserId, SetPassword, AssignRole, CheckRealm, SweepTuples,
         DeleteRealm, CreateStore, UploadModel, Seed, Abort, At, Over
<1>5. CASE Start(r)
  <2>1. PICK s \in Scripts :
          run' = [run EXCEPT ![r] = [NotStarted EXCEPT
                    !.script = s, !.at = FirstPlace[s],
                    !.store = env.store, !.model = env.model]]
    BY <1>5 DEF Start
  <2>2. /\ run'[r].script = s /\ run'[r].at = FirstPlace[s]
        /\ run'[r].step = 1
    BY <1>2, <2>1 DEF Shape, NotStarted
  <2>3. run[r].at = "new"
    BY <1>5 DEF Start, At
  <2> QED
    BY <1>4, <1>5, <2>2, <2>3, TenantsAssumption
       DEF FirstPlace, Ways, Begins, Start, keycloak
<1>6. run[r].at # "new" => run'[r].script = run[r].script
  BY <1>1 DEF Flow
<1>7. CASE \/ CheckPart(r) \/ MakePart(r) \/ WriteRealm(r) \/ Propagate(r)
           \/ LookUpUser(r) \/ CreateUser(r) \/ GetUserId(r)
           \/ SetPassword(r) \/ AssignRole(r)
  <2>1. run[r].at # "new"
    BY <1>2, <1>7, WriteRealmGoes
       DEF CheckPart, MakePart, Propagate, LookUpUser, CreateUser, GetUserId,
           SetPassword, AssignRole, At
  <2>2. Ends(r) \/ (run[r].script = "create" /\ Creates(r))
    BY <1>7, CreationWays, UserWays
  <2> QED
    BY <1>4, <1>6, <2>1, <2>2 DEF Ways
<1>8. CASE CheckRealm(r) \/ SweepTuples(r) \/ DeleteRealm(r)
  <2>1. /\ run[r].script = "delete"
        /\ run[r].at \in {"check", "sweep", "deleteRealm"}
    BY <1>8 DEF CheckRealm, SweepTuples, DeleteRealm, At, IInv, Deleting
  <2>2. \E p \in {"sweep", "deleteRealm", "done", "failed"} : GoTo(r, p)
    BY <1>8 DEF CheckRealm, SweepTuples, DeleteRealm
  <2>3. /\ run'[r].at \in {"sweep", "deleteRealm", "done", "failed"}
        /\ Kept(r)
    BY <1>2, <1>3, <2>2, GoToGoes DEF Goes, Kept
  <2>4. /\ UNCHANGED account \/ AccountsDeleted(r)
        /\ run'[r].at = "failed" => UNCHANGED account
    <3>1. CASE CheckRealm(r) \/ SweepTuples(r)
      BY <3>1 DEF CheckRealm, SweepTuples, keycloak
    <3>2. CASE DeleteRealm(r) /\ UNCHANGED keycloak
      BY <3>2 DEF keycloak
    <3>3. CASE DeleteRealm(r) /\ AccountsDeleted(r) /\ GoTo(r, "done")
      BY <1>2, <1>3, <3>3, GoToGoes DEF Goes
    <3> QED
      BY <1>8, <3>1, <3>2, <3>3 DEF DeleteRealm, AccountsDeleted, At
  <2> QED
    BY <1>4, <1>6, <2>1, <2>3, <2>4 DEF Ways, Ends, ElseWorks
<1>9. CASE CreateStore(r) \/ UploadModel(r) \/ Seed(r) \/ WriteIds(r)
  <2>1. /\ run[r].at \in {"createStore", "upload"} \cup WritingPlaces
        /\ run[r].script = "setup"
    BY <1>2, <1>9, WriteIdsGoes
       DEF CreateStore, UploadModel, Seed, At, OnRoute, WritingPlaces
  <2>2. /\ run'[r].at \in {"upload", "done"} \cup WritingPlaces
        /\ Kept(r) /\ UNCHANGED account
    <3>1. CASE WriteIds(r)
      BY <1>2, <3>1, WriteIdsGoes, WritesLeave DEF Goes, WritingPlaces
    <3>2. CASE CreateStore(r) \/ UploadModel(r) \/ Seed(r)
      BY <1>2, <1>3, <3>2, GoToGoes
         DEF CreateStore, UploadModel, Seed, keycloak, Goes, Kept,
             WritingPlaces
    <3> QED
      BY <1>9, <3>1, <3>2
  <2> QED
    BY <1>4, <1>6, <2>1, <2>2 DEF Ways, ElseWorks, WritingPlaces
<1>10. CASE Abort(r)
  <2>1. /\ run'[r].at \in {"failed", "killed"} /\ Kept(r)
        /\ run[r].at # "new" /\ UNCHANGED account
    BY <1>2, <1>3, <1>10, GoToGoes DEF Abort, Goes, Kept, keycloak
  <2> QED
    BY <1>4, <1>6, <2>1 DEF Ways, Ends
<1> QED
  BY <1>5, <1>7, <1>8, <1>9, <1>10 DEF Step

-----------------------------------------------------------------------------
(* What the ways keep.                                                     *)

LEMMA RouteStep ==
  ASSUME IInv, WInv, NEW r \in Runs, Step(r)
  PROVE  OnRoute' /\ OnPart'
<1>1. Flow(r) /\ Ways(r)
  BY StepFlows, StepWays DEF WInv
<1>2. OnRoute'
  <2>1. OnRoute
    BY DEF WInv
  <2> QED
    BY <1>1, <2>1
       DEF OnRoute, Flow, Ways, Begins, Ends, ElseWorks, Creates, Prepares,
           PartEnsured, UserPassed, UserPlaces, RecordPlaces, WritingPlaces
<1>3. OnPart'
  <2>1. /\ OnPart
        /\ run[r].step \in DOMAIN Built \cup DOMAIN Users
    BY DEF WInv, OnPart
  <2>2. 1 \in DOMAIN Built /\ 2 \in DOMAIN Built
    BY BuiltIs
  <2>3. CASE Begins(r) \/ Ends(r) \/ ElseWorks(r)
    BY <1>1, <2>1, <2>2, <2>3
       DEF OnPart, Flow, Begins, Ends, ElseWorks, Kept, RecordPlaces,
           WritingPlaces
  <2>4. CASE Prepares(r)
    <3>1. CASE PartEnsured(r)
      <4>1. /\ run[r].step \in 1 .. Len(Built)
            /\ Part(r) = "realm" => run[r].step = 1
        BY <2>1, <3>1, BuiltIs DEF OnPart, PartEnsured, Part
      <4> QED
        BY <1>1, <2>1, <3>1, <4>1, BuiltIs
           DEF OnPart, Flow, PartEnsured, Kept, RecordPlaces
    <3> QED
      BY <1>1, <2>1, <2>2, <2>4, <3>1
         DEF OnPart, Flow, Prepares, Kept, RecordPlaces
  <2>5. CASE Creates(r) /\ ~ Prepares(r)
    BY <1>1, <2>1, <2>5
       DEF OnPart, Flow, Creates, UserPassed, UserPlaces, Kept, RecordPlaces
  <2> QED
    BY <1>1, <2>3, <2>4, <2>5 DEF Ways
<1> QED
  BY <1>2, <1>3

LEMMA RealmStep ==
  ASSUME IInv, WInv, NEW r \in Runs, Step(r)
  PROVE  RealmParts' /\ (NoDeletion => realm \subseteq realm')
<1>1. \/ UNCHANGED realm
      \/ run[r].at = "make" /\ realm' = realm \cup {Part(r)}
      \/ run[r].at = "deleteRealm" /\ realm' = {}
  BY WritesLeave
     DEF Step, Start, CheckPart, MakePart, Propagate, LookUpUser, CreateUser,
         GetUserId, SetPassword, AssignRole, CheckRealm, SweepTuples,
         DeleteRealm, CreateStore, UploadModel, Seed, Abort, keycloak, At
<1>2. run[r].at = "make" => Part(r) \in {Built[i] : i \in DOMAIN Built}
  BY DEF WInv, OnPart, Part
<1>3. NoDeletion => run[r].at # "deleteRealm"
  BY DEF IInv, Deleting, NoDeletion
<1> QED
  BY <1>1, <1>2, <1>3 DEF WInv, RealmParts

LEMMA StoredStep ==
  ASSUME IInv, WInv, NEW r \in Runs, Step(r)
  PROVE  Stored'
<1>1. Flow(r) /\ Ways(r) /\ Shape
  BY StepFlows, StepWays DEF WInv, IInv
<1>2. Stored
  BY DEF WInv
<1>3. {"upload", "seed", "deleteRealm"} \subseteq Places
  BY DEF Places
<1>4. CASE CreateStore(r)
  BY <1>1, <1>2, <1>4 DEF CreateStore, Stored, Flow
<1>5. CASE UploadModel(r)
  <2>1. r \in stores /\ run'[r].at = "seed"
    BY <1>1, <1>2, <1>3, <1>5, GoToGoes DEF UploadModel, At, Stored, Goes
  <2> QED
    BY <1>1, <1>2, <1>5, <2>1 DEF UploadModel, Stored, Flow
<1>6. CASE SweepTuples(r)
  <2>1. run'[r].at = "deleteRealm"
    BY <1>1, <1>3, <1>6, GoToGoes DEF SweepTuples, Goes
  <2> QED
    BY <1>1, <1>2, <1>6, <2>1 DEF SweepTuples, Stored, Flow
<1>7. CASE ~ CreateStore(r) /\ ~ UploadModel(r) /\ ~ SweepTuples(r)
  <2>1. UNCHANGED <<stores, models, tuples>>
    BY <1>7, WritesLeave
       DEF Step, Start, CheckPart, MakePart, Propagate, LookUpUser,
           CreateUser, GetUserId, SetPassword, AssignRole, CheckRealm,
           DeleteRealm, Seed, Abort, openfga
  <2>2. run'[r].at # "upload"
    <3>1. CASE Seed(r) \/ WriteIds(r)
      <4>1. "copyStore" \in Places
        BY DEF Places
      <4> QED
        BY <1>1, <3>1, <4>1, GoToGoes, WriteIdsGoes DEF Seed, Goes
    <3>2. CASE Abort(r)
      <4>1. {"failed", "killed"} \subseteq Places
        BY DEF Places
      <4> QED
        BY <1>1, <3>2, <4>1, GoToGoes DEF Abort, Goes
    <3>3. CASE run[r].script # "setup"
      BY <1>1, <3>3 DEF Ways, Begins, Ends, ElseWorks, Creates, Prepares,
                        PartEnsured, UserPassed
    <3>4. CASE Start(r)
      BY <1>1, <3>4 DEF Start, At, Flow
    <3>5. ASSUME \/ CheckPart(r) \/ MakePart(r) \/ WriteRealm(r)
                 \/ Propagate(r) \/ LookUpUser(r) \/ CreateUser(r)
                 \/ GetUserId(r) \/ SetPassword(r) \/ AssignRole(r)
                 \/ CheckRealm(r) \/ DeleteRealm(r)
          PROVE  run[r].script # "setup"
      BY <1>1, <3>5, WriteRealmGoes
         DEF CheckPart, MakePart, Propagate, LookUpUser, CreateUser, GetUserId,
             SetPassword, AssignRole, CheckRealm, DeleteRealm, At, WInv,
             OnRoute, UserPlaces, RecordPlaces, IInv, Deleting
    <3> QED
      BY <1>7, <3>1, <3>2, <3>3, <3>4, <3>5 DEF Step
  <2> QED
    BY <1>1, <1>2, <2>1, <2>2 DEF Stored, Flow
<1> QED
  BY <1>4, <1>5, <1>6, <1>7

(* The accounts after a step of r.                                         *)
AccountWays(r) ==
  \/ UNCHANGED account
  \/ AccountsDeleted(r)
  \/ AccountMade(r) /\ run'[r].at = "getId" /\ Kept(r)
  \/ /\ run[r].at = "password" /\ account[User(r)].by = run[r].id
     /\ account' = [account EXCEPT ![User(r)].password = r]
  \/ /\ run[r].at = "role" /\ account[User(r)].by = run[r].id
     /\ account' = [account EXCEPT ![User(r)].role = TRUE]

LEMMA StepAccountWays ==
  ASSUME IInv, WInv, NEW r \in Runs, Step(r)
  PROVE  AccountWays(r)
BY StepWays
   DEF WInv, Ways, Begins, Ends, ElseWorks, Creates, UserPassed, AccountWays

(* Column by column: an account made is fresh, others lose nothing.        *)
Fresh(r, u) == /\ u = User(r) /\ run[r].at = "post" /\ run'[r].at = "getId"
               /\ Kept(r) /\ account[u] = NoAccount
               /\ account'[u].by = r /\ account'[u].password = Nobody
Richer(u) == /\ account'[u].by = account[u].by
             /\ account[u].password # Nobody => account'[u].password # Nobody
             /\ account[u].role => account'[u].role

LEMMA AccountColumns ==
  ASSUME IInv, WInv, NEW r \in Runs, Step(r), NEW u \in UserSet
  PROVE  \/ AccountsDeleted(r) /\ account'[u] = NoAccount
         \/ Fresh(r, u)
         \/ Richer(u) /\ (account[u] = NoAccount => account'[u] = NoAccount)
<1>1. AccountWays(r)
  BY StepAccountWays
<1>2. /\ account \in [UserSet -> Accounts] /\ account[u] \in Accounts
      /\ r # Nobody
  BY TenantsAssumption DEF IInv, Shape
<1>3. run[r].at \in UserPlaces => User(r) \in UserSet
  BY DEF IInv, HasUser, UserPlaces, User, UserSet
<1>4. CASE UNCHANGED account
  BY <1>4 DEF Richer
<1>5. CASE AccountsDeleted(r)
  BY <1>5 DEF AccountsDeleted
<1>6. CASE AccountMade(r) /\ run'[r].at = "getId" /\ Kept(r)
  <2>1. CASE u = User(r)
    <3>1. account'[u].by = r /\ account'[u].password = account[u].password
      BY <1>2, <1>6, <2>1 DEF AccountMade, Accounts
    <3> QED
      BY <1>6, <2>1, <3>1 DEF AccountMade, Exists, NoAccount, Fresh
  <2>2. CASE u # User(r)
    BY <1>2, <1>6, <2>2 DEF AccountMade, Richer
  <2> QED
    BY <2>1, <2>2
<1>7. ASSUME run[r].at \in {"password", "role"},
             account[User(r)].by = run[r].id,
             \/ account' = [account EXCEPT ![User(r)].password = r]
             \/ account' = [account EXCEPT ![User(r)].role = TRUE]
      PROVE  Richer(u) /\ (account[u] = NoAccount => account'[u] = NoAccount)
  <2>1. CASE u # User(r)
    BY <1>2, <1>7, <2>1 DEF Richer
  <2>2. CASE u = User(r)
    <3>1. Richer(u)
      BY <1>2, <1>7, <2>2 DEF Richer, Accounts
    <3>2. account[u] # NoAccount
      BY <1>7, <2>2 DEF WInv, Made, NoAccount
    <3> QED
      BY <3>1, <3>2
  <2> QED
    BY <2>1, <2>2
<1> QED
  BY <1>1, <1>4, <1>5, <1>6, <1>7 DEF AccountWays

LEMMA MadeStep ==
  ASSUME IInv, WInv, NEW r \in Runs, Step(r)
  PROVE  Made'
<1>1. Flow(r) /\ Ways(r) /\ Made /\ OnRoute
  BY StepFlows, StepWays DEF WInv
<1>2. /\ account \in [UserSet -> Accounts] /\ account' \in [UserSet -> Accounts]
      /\ Nobody \notin Runs
  BY ShapeStep, TenantsAssumption DEF IInv, Shape
<1>3. Creations \subseteq Creations'
  BY <1>1 DEF Creations, Flow, OnRoute
<1>4. \A q \in Runs : run[q].at \in UserPlaces
                        => User(q) \in UserSet /\ run[q].script = "create"
  BY <1>1 DEF IInv, HasUser, UserPlaces, User, UserSet, OnRoute
<1>5. ASSUME NEW u \in UserSet
      PROVE  /\ account'[u].by \in Creations' \cup {Nobody}
             /\ account'[u].by = Nobody => account'[u] = NoAccount
  <2>1. CASE account'[u] = NoAccount
    BY <2>1 DEF NoAccount
  <2>2. CASE Fresh(r, u)
    <3>1. r \in Creations
      BY <1>4, <2>2 DEF Fresh, Creations, UserPlaces
    <3> QED
      BY <1>2, <1>3, <2>2, <3>1 DEF Fresh
  <2>3. CASE Richer(u) /\ (account[u] = NoAccount => account'[u] = NoAccount)
    BY <1>1, <1>3, <2>3 DEF Made, Richer
  <2> QED
    BY <2>1, <2>2, <2>3, AccountColumns
<1>6. run'[r].at = "password" =>
        /\ run[r].at = "getId" /\ Kept(r) /\ UNCHANGED account
        /\ Exists(User(r)) /\ run'[r].id = account[User(r)].by
  BY <1>1 DEF Ways, Begins, Ends, ElseWorks, Creates, Prepares, PartEnsured,
              UserPassed, WritingPlaces
<1>7. run'[r].at = "role" =>
        /\ run[r].at = "password" /\ Kept(r) /\ run'[r].id = run[r].id
        /\ account' = [account EXCEPT ![User(r)].password = r]
  BY <1>1, StepAccounts
     DEF Ways, Begins, Ends, ElseWorks, Creates, Prepares, PartEnsured,
         UserPassed, WritingPlaces
<1>8. Kept(r) => User(r)' = User(r)
  BY DEF Kept, User
<1>9. ASSUME NEW q \in Runs, run'[q].at \in {"password", "role"}
      PROVE  run'[q].id # Nobody
  <2>1. CASE q # r
    BY <1>1, <1>9, <2>1 DEF Flow, Made
  <2>2. CASE q = r /\ run'[r].at = "password"
    <3>1. User(r) \in UserSet
      BY <1>4, <1>6, <2>2 DEF UserPlaces
    <3> QED
      BY <1>1, <1>6, <2>2, <3>1 DEF Made, Exists
  <2>3. CASE q = r /\ run'[r].at = "role"
    BY <1>1, <1>7, <2>3 DEF Made
  <2> QED
    BY <1>9, <2>1, <2>2, <2>3
<1>10. ASSUME NEW q \in Runs, run'[q].at \in {"password", "role"},
              account'[User(q)'].by = q
       PROVE  /\ run'[q].id = q
              /\ run'[q].at = "role" => account'[User(q)'].password # Nobody
  <2>1. CASE q # r
    <3>1. run'[q] = run[q] /\ User(q)' = User(q) /\ User(q) \in UserSet
      BY <1>1, <1>4, <1>10, <2>1 DEF Flow, User, UserPlaces
    <3>2. CASE account'[User(q)] = NoAccount
      BY <1>2, <1>10, <3>1, <3>2 DEF NoAccount
    <3>3. CASE Fresh(r, User(q))
      BY <1>10, <2>1, <3>1, <3>3 DEF Fresh
    <3>4. CASE Richer(User(q))
      BY <1>1, <1>10, <3>1, <3>4 DEF Made, Richer
    <3> QED
      BY <3>1, <3>2, <3>3, <3>4, AccountColumns
  <2>2. CASE q = r /\ run'[r].at = "password"
    BY <1>6, <1>8, <1>10, <2>2
  <2>3. CASE q = r /\ run'[r].at = "role"
    <3>1. User(r)' = User(r) /\ User(r) \in UserSet /\ run[r].at = "password"
      BY <1>4, <1>7, <1>8, <2>3 DEF UserPlaces
    <3>2. /\ account'[User(r)].by = account[User(r)].by
          /\ account'[User(r)].password = r
      BY <1>2, <1>7, <2>3, <3>1 DEF Accounts
    <3> QED
      BY <1>1, <1>2, <1>7, <1>10, <2>3, <3>1, <3>2 DEF Made
  <2> QED
    BY <1>10, <2>1, <2>2, <2>3
<1> QED
  BY <1>5, <1>9, <1>10 DEF Made

(* An account left half made: its run ended early or is still at it.       *)
HalfMade(u) == Exists(u) /\ (account[u].password = Nobody \/ ~ account[u].role)
LeftOrInHand(r, u) ==
  \/ run[r].at \in {"failed", "killed"}
  \/ run[r].at \in {"getId", "password", "role"} /\ User(r) = u

LEMMA HalfMadeStep ==
  ASSUME IInv, WInv, NEW r \in Runs, Step(r)
  PROVE  HalfMadeAccountsAreKnown'
<1> SUFFICES ASSUME NEW u \in UserSet, NEW q, account'[u].by = q, HalfMade(u)'
             PROVE  LeftOrInHand(q, u)'
  BY DEF HalfMadeAccountsAreKnown, HalfMade, LeftOrInHand
<1>1. Flow(r) /\ Ways(r) /\ Made
  BY StepFlows, StepWays DEF WInv
<1>2. CASE Fresh(r, u)
  BY <1>2 DEF Fresh, Kept, User, LeftOrInHand
<1>3. CASE Richer(u) /\ (account[u] = NoAccount => account'[u] = NoAccount)
  <2>1. HalfMade(u) /\ account[u].by = q
    BY <1>3 DEF HalfMade, Exists, Richer
  <2>2. q \in Runs /\ LeftOrInHand(q, u)
    BY <1>1, <2>1 DEF Made, Creations, HalfMade, Exists, WInv,
                      HalfMadeAccountsAreKnown, LeftOrInHand
  <2>3. CASE q # r
    <3>1. run'[q] = run[q] /\ User(q)' = User(q)
      BY <1>1, <2>2, <2>3 DEF Flow, User
    <3> QED
      BY <2>1, <2>2, <3>1 DEF LeftOrInHand
  <2>4. CASE q = r
    <3>1. run[r].at \in {"getId", "password", "role"} /\ User(r) = u
      BY <1>1, <2>2, <2>4 DEF Ways, Over, LeftOrInHand
    <3>2. CASE run[r].at \in {"getId", "password"}
      <4>1. /\ Kept(r)
            /\ run'[r].at \in {"failed", "killed", "password", "role"}
        BY <1>1, <3>1, <3>2
           DEF Ways, Begins, Ends, ElseWorks, Creates, Prepares, PartEnsured,
               UserPassed, WInv, OnRoute, UserPlaces
      <4>2. User(r)' = u
        BY <3>1, <4>1 DEF Kept, User
      <4> QED
        BY <2>4, <4>1, <4>2 DEF LeftOrInHand
    <3>3. CASE run[r].at = "role"
      <4>1. \/ run'[r].at \in {"failed", "killed"}
            \/ account' = [account EXCEPT ![u].role = TRUE]
        BY <1>1, <3>1, <3>3
           DEF Ways, Begins, Ends, ElseWorks, Creates, Prepares, PartEnsured,
               UserPassed, WInv, OnRoute, UserPlaces
      <4>2. CASE account' = [account EXCEPT ![u].role = TRUE]
        <5>1. account[u].password # Nobody
          BY <1>1, <2>1, <2>4, <3>1, <3>3 DEF Made
        <5>2. account'[u].role /\ account'[u].password = account[u].password
          BY <4>2 DEF IInv, Shape, Accounts
        <5> QED
          BY <5>1, <5>2 DEF HalfMade
      <4> QED
        BY <2>4, <4>1, <4>2 DEF LeftOrInHand
    <3> QED
      BY <3>1, <3>2, <3>3
  <2> QED
    BY <2>3, <2>4
<1> QED
  BY <1>2, <1>3, AccountColumns DEF HalfMade, Exists

(* Without deletions parts and accounts only come to be, so that what a    *)
(* run has passed stays, whatever the other runs do.                       *)
LEMMA PassedStep ==
  ASSUME IInv, WInv, NEW r \in Runs, Step(r), NoDeletion'
  PROVE  NoDeletion /\ \A q \in Creations' : Passed(q)'
<1>1. Flow(r) /\ Ways(r) /\ OnRoute /\ OnPart
  BY StepFlows, StepWays DEF WInv
<1>2. NoDeletion
  BY <1>1 DEF NoDeletion, Flow, OnRoute
<1>3. realm \subseteq realm'
  BY <1>2, RealmStep
<1>4. \A u \in UserSet : Exists(u) => Exists(u)'
  <2> SUFFICES ASSUME NEW u \in UserSet, Exists(u) PROVE Exists(u)'
    OBVIOUS
  <2>1. account[u].by # Nobody
    BY DEF WInv, Made, Exists
  <2>2. ~ AccountsDeleted(r)
    BY <1>2 DEF AccountsDeleted, IInv, Deleting, NoDeletion
  <2> QED
    BY <2>1, <2>2, AccountColumns, TenantsAssumption
       DEF Fresh, Richer, Exists, NoAccount
<1>5. \A q \in Creations : Passed(q)
  BY <1>2 DEF WInv, PassedIsThere
<1>6. /\ DOMAIN Users = 1 .. Len(Users) /\ Len(Users) \in Nat
      /\ \A k \in DOMAIN Users : Users[k] \in UserSet
      /\ \A u \in UserSet : \E k \in DOMAIN Users : u = Users[k]
  BY TenantsAssumption DEF UserSet
<1>7. ASSUME NEW q \in Creations', q # r PROVE Passed(q)'
  <2>1. run'[q] = run[q] /\ q \in Creations
    BY <1>1, <1>7 DEF Flow, Creations
  <2> QED
    BY <1>3, <1>4, <1>5, <1>6, <2>1 DEF Passed, PartsBelow, UsersBelow
<1>8. ASSUME r \in Creations' PROVE Passed(r)'
  <2>1. run'[r].script = "create"
    BY <1>8 DEF Creations
  <2>2. CASE Begins(r)
    BY <2>1, <2>2, BuiltIs
       DEF Begins, Passed, PartsBelow, UserPlaces, RecordPlaces
  <2>3. CASE Ends(r)
    BY <2>3 DEF Ends, Passed, UserPlaces, RecordPlaces
  <2>4. ASSUME run[r].script = "create", Creates(r) PROVE Passed(r)'
    <3>1. Passed(r)
      BY <1>5, <2>4 DEF Creations
    <3>2. CASE PartEnsured(r)
      <4>1. run[r].step \in 1 .. Len(Built) /\ PartsBelow(run[r].step)
        BY <1>1, <3>1, <3>2, BuiltIs DEF PartEnsured, OnPart, Passed
      <4>2. \A i \in DOMAIN Built : i <= run[r].step => Built[i] \in realm'
        BY <1>3, <3>2, <4>1, BuiltIs DEF PartEnsured, Part, PartsBelow
      <4>3. CASE Part(r) = "realm" /\ run'[r].at = "record"
        BY <3>2, <4>3 DEF PartEnsured, Passed, UserPlaces, RecordPlaces
      <4>4. CASE run'[r].at = "check" /\ run'[r].step = run[r].step + 1
        BY <4>1, <4>2, <4>4, BuiltIs DEF Passed, PartsBelow, UserPlaces
      <4>5. CASE run[r].step = Len(Built) /\ run'[r].at = "propagate"
        BY <4>2, <4>5, BuiltIs DEF Passed, UserPlaces, RecordPlaces
      <4> QED
        BY <3>2, <4>3, <4>4, <4>5 DEF PartEnsured
    <3>3. CASE run[r].at = "check" /\ run'[r].at = "make" /\ Kept(r)
      BY <1>3, <3>1, <3>3
         DEF Passed, PartsBelow, UserPlaces, RecordPlaces, Kept
    <3>4. CASE /\ run[r].at \in {"append", "rename"}
               /\ run'[r].at = "check" /\ run'[r].step = run[r].step + 1
      <4>1. run'[r].step = 2 /\ "realm" \in realm'
        BY <1>1, <1>3, <3>1, <3>4 DEF OnPart, Passed, RecordPlaces
      <4> QED
        BY <3>4, <4>1, BuiltIs DEF Passed, PartsBelow, UserPlaces
    <3>5. CASE run[r].at = "propagate" /\ run'[r].at = "lookup"
                 /\ run'[r].step = 1
      BY <1>3, <1>6, <3>1, <3>5
         DEF Passed, UsersBelow, UserPlaces, RecordPlaces
    <3>6. CASE /\ run[r].at \in UserPlaces /\ Kept(r)
               /\ run'[r].at \in {"post", "getId", "password", "role"}
      BY <1>3, <1>4, <1>6, <3>1, <3>6
         DEF Passed, UsersBelow, UserPlaces, RecordPlaces, Kept
    <3>7. CASE UserPassed(r)
      <4>1. run[r].at \in {"lookup", "role"} /\ run[r].step \in DOMAIN Users
        BY <3>7 DEF UserPassed, IInv, HasUser
      <4>2. Exists(User(r)) /\ User(r) \in UserSet
        <5>1. run[r].at = "role" => account[User(r)].by = r
          BY <1>2 DEF IInv, WorksOnOwn, OnOwnAccount
        <5> QED
          BY <3>7, <4>1, <5>1, <1>6, TenantsAssumption
             DEF UserPassed, Exists, NoAccount, User
      <4>3. \A k \in DOMAIN Users : k <= run[r].step => Exists(Users[k])'
        BY <1>4, <1>6, <3>1, <4>1, <4>2 DEF Passed, UsersBelow, UserPlaces, User
      <4>4. \A i \in DOMAIN Built : Built[i] \in realm'
        BY <1>3, <3>1, <4>1 DEF Passed, UserPlaces
      <4>5. CASE run'[r].at = "lookup" /\ run'[r].step = run[r].step + 1
        BY <1>6, <4>1, <4>3, <4>4, <4>5
           DEF Passed, UsersBelow, UserPlaces, RecordPlaces
      <4>6. CASE run[r].step = Len(Users) /\ run'[r].at = "done"
        BY <1>6, <4>3, <4>4, <4>6 DEF Passed, UserPlaces, RecordPlaces
      <4> QED
        BY <3>7, <4>5, <4>6 DEF UserPassed
    <3>8. CASE /\ run[r].at \in {"record", "edit"}
               /\ run'[r].at \in {"append", "edit", "rename"}
      BY <1>3, <3>1, <3>8 DEF Passed, UserPlaces, RecordPlaces
    <3> QED
      BY <2>4, <3>2, <3>3, <3>4, <3>5, <3>6, <3>7, <3>8
         DEF Creates, Prepares, UserPlaces
  <2> QED
    BY <1>1, <2>1, <2>2, <2>3, <2>4 DEF Ways, ElseWorks
<1> QED
  BY <1>2, <1>7, <1>8

LEMMA InitWInv == Init => WInv
<1> SUFFICES ASSUME Init PROVE WInv
  OBVIOUS
<1>1. /\ \A r \in Runs : run[r] = NotStarted
      /\ \A u \in UserSet : account[u] = NoAccount
      /\ realm = {} /\ stores = {} /\ models = {} /\ tuples = {}
  BY DEF Init
<1>2. 1 \in DOMAIN Built
  BY BuiltIs
<1>3. OnRoute /\ OnPart /\ Stored /\ RealmParts
  BY <1>1, <1>2
     DEF NotStarted, OnRoute, OnPart, Stored, RealmParts, UserPlaces,
         RecordPlaces, WritingPlaces
<1>4. Made /\ HalfMadeAccountsAreKnown /\ PassedIsThere
  <2>1. \A r \in Runs : run[r].at = "new" /\ run[r].script = "-"
    BY DEF Init, NotStarted
  <2>2. \A u \in UserSet : account[u].by = Nobody /\ ~ Exists(u)
    BY DEF Init, NoAccount, Exists
  <2>3. Made
    BY <1>1, <2>1, <2>2 DEF Made
  <2> QED
    BY <2>1, <2>2, <2>3 DEF HalfMadeAccountsAreKnown, PassedIsThere, Creations
<1> QED
  BY <1>3, <1>4 DEF WInv

LEMMA NextWInv == IInv /\ WInv /\ [Next]_vars => WInv'
<1> SUFFICES ASSUME IInv, WInv, [Next]_vars PROVE WInv'
  OBVIOUS
<1>1. ASSUME NEW r \in Runs, Step(r) PROVE WInv'
  BY <1>1, RouteStep, RealmStep, StoredStep, MadeStep, HalfMadeStep, PassedStep
     DEF WInv, PassedIsThere
<1>2. CASE LoadTuples \/ UNCHANGED vars
  <2>1. UNCHANGED <<realm, account, stores, models, run>>
    BY <1>2 DEF LoadTuples, keycloak, vars
  <2>2. tuples' \subseteq stores
    BY <1>2 DEF LoadTuples, vars, WInv, Stored
  <2>3. Stored'
    BY <2>1, <2>2 DEF WInv, Stored
  <2> QED
    BY <2>1, <2>3
       DEF WInv, OnRoute, OnPart, RealmParts, Made, Creations, User, Exists,
           HalfMadeAccountsAreKnown, PassedIsThere, NoDeletion, Passed,
           PartsBelow, UsersBelow
<1> QED
  BY <1>1, <1>2 DEF Next

(* What the runs have done is where they have got to.                      *)
THEOREM WorkInvariant == Spec => []WInv
BY TenantsInvariant, InitWInv, NextWInv, PTL DEF Spec

(* Every variable keeps its type; in particular no run steps past the last *)
(* part or the last user, and models and tuples are of stores that exist.  *)
THEOREM TypeCorrect == Spec => []TypeOK
<1>1. IInv /\ WInv => TypeOK
  BY DEF IInv, Shape, RunRecords, WInv, OnPart, Stored, RealmParts, TypeOK
<1> QED
  BY <1>1, TenantsInvariant, WorkInvariant, PTL

(* An account without password or role is always one its own run is at     *)
(* work on or has left by ending early, also when tenants are deleted and  *)
(* made anew meanwhile.                                                    *)
THEOREM HalfMadeAccountsAreAlwaysKnown == Spec => []HalfMadeAccountsAreKnown
BY WorkInvariant, PTL DEF WInv

(* When all runs of create-tenant.sh have reported success and no tenant   *)
(* was deleted, the realm has all its parts, and every demo user a         *)
(* password and the role.                                                  *)
THEOREM ReportedTenantIsAlwaysComplete == Spec => []ReportedTenantIsComplete
<1>1. WInv => ReportedTenantIsComplete
  <2> SUFFICES ASSUME WInv, NoDeletion, Creations # {},
                      \A r \in Creations : At(r, "done")
               PROVE  /\ \A u \in UserSet : account[u].password # Nobody
                                            /\ account[u].role
                      /\ \A i \in DOMAIN Built : Built[i] \in realm
    BY DEF ReportedTenantIsComplete
  <2>1. PICK r \in Creations : Passed(r) /\ run[r].at = "done"
    BY DEF WInv, PassedIsThere, At
  <2>2. ASSUME NEW u \in UserSet
        PROVE  account[u].password # Nobody /\ account[u].role
    <3>1. Exists(u)
      BY <2>1 DEF Passed
    <3>2. account[u].by \in Creations
      BY <3>1 DEF WInv, Made, Exists
    <3>3. run[account[u].by].at = "done"
      BY <3>2 DEF At
    <3> QED
      BY <3>1, <3>3 DEF WInv, HalfMadeAccountsAreKnown
  <2> QED
    BY <2>1, <2>2 DEF Passed
<1> QED
  BY <1>1, WorkInvariant, PTL
=============================================================================
