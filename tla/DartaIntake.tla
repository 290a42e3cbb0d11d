----------------------------- MODULE DartaIntake -----------------------------
(***************************************************************************)
(* How a darta comes into the table: CreateDarta of the domain service of  *)
(* services/darta-chalani, and the gRPC handler in front of it.  A request *)
(* carries an idempotency key and may be sent again, also while an earlier *)
(* sending is still being handled.  As in DartaRegister every SQL          *)
(* statement is a transaction of its own.                                  *)
(***************************************************************************)
EXTENDS Naturals, Sequences

CONSTANTS
  Requests,     \* the letters clients want to have entered
  Key,          \* Key[r]: the idempotency key, or NoKey (an empty string)
  Tenant,       \* Tenant[r]: the tenant of the client
  Annexes,      \* Annexes[r]: the attachments named as annexes, in order
  AnnexIds,     \* the ids an annex may be named by
  Attachments,  \* the ids of attachments that exist
  Invalid,      \* the requests validateCreateDartaInput refuses
  Dangling,     \* those whose applicant or document does not exist, or whose
                \* priority or channel a CHECK of the table refuses
  NoKey,
  Entries,      \* "rpc": the gRPC handler, "domain": the service behind it
  Callers,      \* the handlers that may be in flight at the same time
  MaxSends,     \* bound: how many sendings of requests there are
  MaxFaults     \* bound: failing statements and crashes

(* What the enum ApplicantType prints, and what the column admits.         *)
WireTypes == {"APPLICANT_TYPE_UNSPECIFIED", "APPLICANT_TYPE_CITIZEN",
              "APPLICANT_TYPE_ORGANIZATION", "APPLICANT_TYPE_GOVERNMENT_OFFICE",
              "APPLICANT_TYPE_OTHER"}
ApplicantTypes == {"CITIZEN", "ORGANIZATION", "GOVERNMENT_OFFICE", "OTHER"}

ASSUME IntakeAssumption ==
  /\ MaxSends \in Nat /\ MaxFaults \in Nat
  /\ Entries \subseteq {"rpc", "domain"}
  /\ Attachments \subseteq AnnexIds
  /\ Annexes \in [Requests -> Seq(AnnexIds)]

VARIABLES
  letters,   \* the rows inserted, in order: whose, with which annexes, audited?
  call,      \* what each handler in flight holds
  sent,      \* how many sendings there have been
  answers,   \* the letters handlers have returned for each request
  faults     \* how many faults there have been

vars == <<letters, call, sent, answers, faults>>

Statements == {"insertApplicant", "lookUp", "verify", "insert", "annex"}

Idle  == [at |-> "idle", request |-> "-", letter |-> 0, todo |-> <<>>]
Calls == [at : Statements, request : Requests, letter : Nat,
          todo : Seq(AnnexIds)]

Letters == [request : Requests, annexes : SUBSET Attachments, audited : BOOLEAN]

TypeOK ==
  /\ letters \in Seq(Letters)
  /\ call \in [Callers -> Calls \cup {Idle}]
  /\ sent \in 0 .. MaxSends
  /\ answers \in [Requests -> SUBSET (1 .. Len(letters))]
  /\ faults \in 0 .. MaxFaults

Init ==
  /\ letters = <<>>
  /\ call = [c \in Callers |-> Idle]
  /\ sent = 0
  /\ answers = [r \in Requests |-> {}]
  /\ faults = 0

-----------------------------------------------------------------------------
At(c, statement)      == call[c].at = statement
Proceed(c, statement) == call' = [call EXCEPT ![c].at = statement]

(* The handler answers with an error, or with the letter i.                *)
Refuse(c) == call' = [call EXCEPT ![c] = Idle] /\ UNCHANGED answers
Return(c, i) ==
  /\ call' = [call EXCEPT ![c] = Idle]
  /\ answers' = [answers EXCEPT ![call[c].request] = @ \cup {i}]

(* A sending of r starts: behind the handler it is validated first, and    *)
(* looked up if it carries a key.                                          *)
FirstStatement(r, entry) ==
  CASE entry = "rpc" -> "insertApplicant"
    [] entry = "domain" /\ Key[r] # NoKey -> "lookUp"
    [] entry = "domain" /\ Key[r] = NoKey -> "verify"

Send(c) ==
  /\ call[c] = Idle
  /\ sent < MaxSends
  /\ sent' = sent + 1
  /\ \E r \in Requests, entry \in Entries :
       \/ entry = "domain" /\ r \in Invalid /\ UNCHANGED call
       \/ /\ entry = "rpc" \/ r \notin Invalid
          /\ call' = [call EXCEPT ![c] =
                        [at |-> FirstStatement(r, entry), request |-> r,
                         letter |-> 0, todo |-> Annexes[r]]]
  /\ UNCHANGED <<letters, answers, faults>>

(* parseApplicantInput hands over the name the enum prints: the CHECK of   *)
(* the column refuses them all.                                            *)
InsertApplicant(c) ==
  /\ At(c, "insertApplicant")
  /\ \E type \in WireTypes : type \notin ApplicantTypes
  /\ Refuse(c)
  /\ UNCHANGED <<letters, sent, faults>>

(* A slip to catch: the key is looked up over all tenants.                 *)
EnteredByAnyone(r) == {i \in 1 .. Len(letters) : Key[letters[i].request] = Key[r]}

(* GetDartaByIdempotencyKey: the letters entered for r.                    *)
Entered(r) ==
  {i \in 1 .. Len(letters) : /\ Key[letters[i].request] = Key[r]
                             /\ Tenant[letters[i].request] = Tenant[r]}

(* A slip to catch: "no rows" is taken for a failure.                      *)
LookUpStrict(c) ==
  LET found == Entered(call[c].request) IN
  /\ At(c, "lookUp")
  /\ \/ \E i \in found : Return(c, i)
     \/ found = {} /\ Refuse(c)
  /\ UNCHANGED <<letters, sent, faults>>

LookUp(c) ==
  LET found == Entered(call[c].request) IN
  /\ At(c, "lookUp")
  /\ \/ \E i \in found : Return(c, i)
     \/ found = {} /\ Proceed(c, "verify") /\ UNCHANGED answers
  /\ UNCHANGED <<letters, sent, faults>>

(* GetApplicant and GetAttachment; neither is ever deleted.  (What a CHECK *)
(* refuses is refused one statement later, to the same effect.)            *)
Verify(c) ==
  /\ At(c, "verify")
  /\ \/ call[c].request \in Dangling /\ Refuse(c)
     \/ /\ call[c].request \notin Dangling
        /\ Proceed(c, "insert") /\ UNCHANGED answers
  /\ UNCHANGED <<letters, sent, faults>>

(* A slip to catch: the table has no unique index on the key.              *)
NoIndex(key) == FALSE

(* The unique index on idempotency_key, which leaves out tenant_id.        *)
KeyTaken(key) ==
  key # NoKey /\ \E i \in 1 .. Len(letters) : Key[letters[i].request] = key

Insert(c) ==
  LET r == call[c].request IN
  /\ At(c, "insert")
  /\ \/ /\ KeyTaken(Key[r])
        /\ Refuse(c)
        /\ UNCHANGED letters
     \/ /\ ~ KeyTaken(Key[r])
        /\ letters' = Append(letters, [request |-> r, annexes |-> {},
                                       audited |-> FALSE])
        /\ call' = [call EXCEPT ![c].at = "annex",
                                ![c].letter = Len(letters) + 1]
        /\ UNCHANGED answers
  /\ UNCHANGED <<sent, faults>>

(* A slip to catch: an annex is stored though there is no such attachment. *)
AddAnnexUnchecked(c) ==
  /\ At(c, "annex") /\ call[c].todo # <<>>
  /\ letters' = [letters EXCEPT ![call[c].letter].annexes =
                   @ \cup {Head(call[c].todo)}]
  /\ call' = [call EXCEPT ![c].todo = Tail(@)]
  /\ UNCHANGED <<sent, answers, faults>>

(* A slip to catch: the loop over the annexes ends at the first failure.   *)
AfterFailedAnnexStop(c) == call' = [call EXCEPT ![c].todo = <<>>]

(* A failed insert of an annex is printed, and the loop goes on.           *)
AfterFailedAnnex(c) == call' = [call EXCEPT ![c].todo = Tail(@)]

AddAnnex(c) ==
  LET annex == Head(call[c].todo) IN
  /\ At(c, "annex") /\ call[c].todo # <<>>
  /\ \/ /\ annex \in Attachments
        /\ letters' = [letters EXCEPT ![call[c].letter].annexes = @ \cup {annex}]
        /\ call' = [call EXCEPT ![c].todo = Tail(@)]
     \/ /\ annex \notin Attachments
        /\ AfterFailedAnnex(c)
        /\ UNCHANGED letters
  /\ UNCHANGED <<sent, answers, faults>>

(* createAuditEntry, and the answer.                                       *)
Audit(c) ==
  /\ At(c, "annex") /\ call[c].todo = <<>>
  /\ letters' = [letters EXCEPT ![call[c].letter].audited = TRUE]
  /\ Return(c, call[c].letter)
  /\ UNCHANGED <<sent, faults>>

-----------------------------------------------------------------------------
(* A statement fails.  Of the errors of the look-up, of the annexes and of *)
(* the audit entry the handler takes no notice.                            *)
StatementFails(c) ==
  /\ faults < MaxFaults
  /\ faults' = faults + 1
  /\ \/ At(c, "lookUp") /\ Proceed(c, "verify") /\ UNCHANGED answers
     \/ /\ At(c, "annex") /\ call[c].todo # <<>>
        /\ AfterFailedAnnex(c) /\ UNCHANGED answers
     \/ /\ At(c, "annex") /\ call[c].todo = <<>>
        /\ Return(c, call[c].letter)
     \/ /\ call[c].at \in {"insertApplicant", "verify", "insert"}
        /\ Refuse(c)
  /\ UNCHANGED <<letters, sent>>

(* The process dies.                                                       *)
Crash ==
  /\ faults < MaxFaults
  /\ faults' = faults + 1
  /\ call' = [c \in Callers |-> Idle]
  /\ UNCHANGED <<letters, sent, answers>>

-----------------------------------------------------------------------------
Step(c) ==
  \/ InsertApplicant(c) \/ LookUp(c) \/ Verify(c) \/ Insert(c)
  \/ AddAnnex(c) \/ Audit(c)

Next ==
  \/ \E c \in Callers : Send(c) \/ Step(c) \/ StatementFails(c)
  \/ Crash

Spec == Init /\ [][Next]_vars

(* A handler in flight is run on; clients owe nothing.                     *)
FairSpec == Spec /\ \A c \in Callers : WF_vars(Step(c))

-----------------------------------------------------------------------------
(* Properties.                                                             *)

(* A letter returned for a request is one entered by its tenant under its  *)
(* key (GetDartaByIdempotencyKey asks for both).                           *)
ReturnedLetterIsOwn ==
  \A r \in Requests : \A i \in answers[r] :
    /\ Key[letters[i].request] = Key[r]
    /\ Tenant[letters[i].request] = Tenant[r]

(* However often a request with a key is sent, and however its sendings    *)
(* and the faults interleave, the answers all name one letter, and it is   *)
(* the only one of its key.                                                *)
KeyedRequestsEnterOnce ==
  \A r \in Requests : Key[r] # NoKey =>
    /\ \A i, j \in answers[r] : i = j
    /\ \A i, j \in Entered(r) : i = j

(* Without faults a letter whose handlers have answered has every annex    *)
(* that exists and its CREATED entry, also when one of its sendings met    *)
(* another half-way.                                                       *)
Quiet(r) == \A c \in Callers : call[c].request # r
LettersAreComplete ==
  \A i \in 1 .. Len(letters) :
    LET r == letters[i].request IN
    faults = 0 /\ Quiet(r)
      => /\ letters[i].annexes = {Annexes[r][k] : k \in DOMAIN Annexes[r]} \cap Attachments
         /\ letters[i].audited

(* A request that is in order is entered: without faults a sending that    *)
(* has reached the domain service ends with the letter stored, unless      *)
(* another tenant has used its key.                                        *)
OwnKey(r) ==
  \A s \in Requests : Key[s] = Key[r] /\ Key[r] # NoKey => Tenant[s] = Tenant[r]
RequestsAreEntered ==
  \A c \in Callers, r \in Requests \ (Invalid \cup Dangling) :
    OwnKey(r) /\ call[c].request = r /\ ~ At(c, "insertApplicant")
      ~> Entered(r) # {} \/ faults > 0

(* The same of the RPC CreateDarta as a whole.                             *)
CreateDartaEnters ==
  \A c \in Callers, r \in Requests \ (Invalid \cup Dangling) :
    OwnKey(r) /\ call[c].request = r ~> Entered(r) # {} \/ faults > 0
=============================================================================
