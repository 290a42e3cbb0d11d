---------------------------- MODULE DartaRegister ----------------------------
(***************************************************************************)
(* The darta service of services/darta-chalani: the gRPC handlers of       *)
(* internal/grpc/darta_server.go, the domain service they call             *)
(* (internal/domain/darta_service.go) and the rows of the table dartas.    *)
(*                                                                         *)
(* No handler opens a transaction, so each SQL statement commits on its    *)
(* own: a handler is a sequence of atomic steps, one per statement, and    *)
(* the handlers in flight interleave between them.  Between statements a   *)
(* handler keeps only what it has read, in Go variables.                   *)
(***************************************************************************)
EXTENDS Naturals

CONSTANTS
  Dartas,          \* the rows, already inserted as drafts (see DartaIntake)
  Callers,         \* the handlers that may be in flight at the same time
  Ops,             \* the RPCs the clients of this instance call
  Tenant,          \* Tenant[d]: the column tenant_id of row d
  Register,        \* Register[d]: its (fiscal_year_id, scope, ward_id)
  WardRegisters,   \* the registers whose ward_id is not NULL
  Faulty           \* may statements fail and the process crash?

(* The statuses the CHECK constraint of the table admits.                  *)
Statuses ==
  {"DRAFT", "PENDING_REVIEW", "CLASSIFICATION", "NUMBER_RESERVED",
   "REGISTERED", "VOIDED", "SCANNED", "METADATA_ENRICHED",
   "DIGITALLY_ARCHIVED", "ASSIGNED", "IN_REVIEW_BY_SECTION",
   "NEEDS_CLARIFICATION", "ACCEPTED", "ACTION_TAKEN", "RESPONSE_ISSUED",
   "ACK_REQUESTED", "ACK_RECEIVED", "SUPERSEDED", "CLOSED"}

(* isValidStatusTransition of the domain service.                          *)
ValidTransitions ==
  UNION {
    {"DRAFT"}                \X {"PENDING_REVIEW", "VOIDED"},
    {"PENDING_REVIEW"}       \X {"CLASSIFICATION", "DRAFT", "VOIDED"},
    {"CLASSIFICATION"}       \X {"NUMBER_RESERVED", "PENDING_REVIEW"},
    {"NUMBER_RESERVED"}      \X {"REGISTERED", "VOIDED"},
    {"REGISTERED"}           \X {"SCANNED", "ASSIGNED", "VOIDED"},
    {"SCANNED"}              \X {"METADATA_ENRICHED"},
    {"METADATA_ENRICHED"}    \X {"DIGITALLY_ARCHIVED"},
    {"DIGITALLY_ARCHIVED"}   \X {"ASSIGNED"},
    {"ASSIGNED"}             \X {"IN_REVIEW_BY_SECTION", "VOIDED"},
    {"IN_REVIEW_BY_SECTION"} \X {"NEEDS_CLARIFICATION", "ACCEPTED", "ASSIGNED"},
    {"NEEDS_CLARIFICATION"}  \X {"IN_REVIEW_BY_SECTION"},
    {"ACCEPTED"}             \X {"ACTION_TAKEN"},
    {"ACTION_TAKEN"}         \X {"RESPONSE_ISSUED", "CLOSED"},
    {"RESPONSE_ISSUED"}      \X {"ACK_REQUESTED", "CLOSED"},
    {"ACK_REQUESTED"}        \X {"ACK_RECEIVED", "CLOSED"},
    {"ACK_RECEIVED"}         \X {"CLOSED"} }

ValidTransition(from, to) == <<from, to>> \in ValidTransitions

(* The RPCs, by the statement they start with.  Review is two, one per     *)
(* decision; Route is two: with the priority left unspecified, and with    *)
(* one given, which reaches the statement as the enum's name.              *)
GuardedOps   == {"Submit", "Finalize"}
ReserveOps   == {"Reserve", "DirectRegister"}
ReviewOps    == {"ApproveReview", "EditRequired"}
RouteOps     == {"Route", "RouteWithPriority"}
UnguardedOps == {"Close", "Void", "ProvideClarification", "FinalizeArchive",
                 "RequestClarification", "Accept", "IssueResponse"}
MetadataOps  == {"Scan", "Enrich", "Supersede"}
AllOps       == GuardedOps \cup ReserveOps \cup ReviewOps \cup RouteOps
                  \cup UnguardedOps \cup MetadataOps \cup {"Classify"}

(* The status the handler asks for; four of them are not in Statuses, and  *)
(* the CHECK constraint rejects the statement that writes one.             *)
Goal ==
  [Submit               |-> "PENDING_REVIEW",
   Classify             |-> "CLASSIFICATION",
   ApproveReview        |-> "CLASSIFICATION",
   EditRequired         |-> "RETURNED_FOR_CLARIFICATION",
   Finalize             |-> "REGISTERED",
   DirectRegister       |-> "REGISTERED",
   Close                |-> "CLOSED",
   Void                 |-> "VOIDED",
   ProvideClarification |-> "PENDING_REVIEW",
   FinalizeArchive      |-> "ARCHIVED",
   RequestClarification |-> "RETURNED_FOR_CLARIFICATION",
   Accept               |-> "UNDER_PROCESSING",
   IssueResponse        |-> "RESOLVED"]

(* The statement a handler issues first.                                   *)
FirstStatement(o) ==
  CASE o \in GuardedOps  -> "readStatus"
    [] o \in ReserveOps  -> "readNumber"
    [] o \in ReviewOps   -> "readReview"
    [] o \in RouteOps    -> "assign"
    [] o \in MetadataOps -> "writeMetadata"
    [] o \in UnguardedOps -> "setStatus"
    [] o = "Classify"    -> "classify"

Statements ==
  {"readStatus", "writeStatus", "auditStatus",
   "readNumber", "nextNumber", "writeNumber", "markReserved", "auditNumber",
   "readReview", "setStatus", "assign", "markAssigned", "auditAssigned",
   "classify", "writeMetadata"}

(* The metadata an RPC writes, by its keys.                                *)
MetadataKeys == {"scan", "enriched", "superseded"}
MetadataOf == [Scan      |-> {"scan"},
               Enrich    |-> {"enriched"},
               Supersede |-> {"superseded"}]

NoNumber == 0      \* darta_number IS NULL; the first number given is 1

ASSUME RegisterAssumption == Ops \subseteq AllOps /\ Faulty \in BOOLEAN

VARIABLES
  status, number,       \* columns of dartas, by row
  classified, assigned, \* has classification_code, have the assignment columns
                        \* been written?
  metadata,             \* the keys in the column metadata
  audit,                \* the newest audit_trail entry about each darta
  call                  \* what each handler in flight holds

rows == <<status, number, classified, assigned, metadata>>
vars == <<rows, audit, call>>

(* A handler that has answered, and one about to issue the statement "at". *)
Idle  == [at |-> "idle", op |-> "-", darta |-> "-", seen |-> "-",
          next |-> NoNumber]
Calls == [at : Statements, op : AllOps, darta : Dartas,
          seen : Statuses \cup {"-"}, next : Nat]

AuditEntries ==
  [action : {"NONE", "STATUS_CHANGED", "NUMBER_RESERVED", "ASSIGNED"},
   from : Statuses \cup {"-"}, to : Statuses \cup {"-"}, number : Nat]
NoEntry == [action |-> "NONE", from |-> "-", to |-> "-", number |-> NoNumber]

TypeOK ==
  /\ status \in [Dartas -> Statuses]
  /\ number \in [Dartas -> Nat]
  /\ classified \in [Dartas -> BOOLEAN]
  /\ assigned \in [Dartas -> BOOLEAN]
  /\ metadata \in [Dartas -> SUBSET MetadataKeys]
  /\ audit \in [Dartas -> AuditEntries]
  /\ call \in [Callers -> Calls \cup {Idle}]

Init ==
  /\ status = [d \in Dartas |-> "DRAFT"]
  /\ number = [d \in Dartas |-> NoNumber]
  /\ classified = [d \in Dartas |-> FALSE]
  /\ assigned = [d \in Dartas |-> FALSE]
  /\ metadata = [d \in Dartas |-> {}]
  /\ audit = [d \in Dartas |-> NoEntry]
  /\ call = [c \in Callers |-> Idle]

-----------------------------------------------------------------------------
(* Moves of a handler between its statements.                              *)

At(c, statement)      == call[c].at = statement
Proceed(c, statement) == call' = [call EXCEPT ![c].at = statement]
Answer(c)             == call' = [call EXCEPT ![c] = Idle]

(* A slip to catch: DirectRegister stops at the reservation.               *)
AfterReserveOnly(c) == Answer(c)

(* DirectRegister goes on to UpdateDartaStatus where Reserve answers.      *)
AfterReserve(c) ==
  \/ call[c].op = "DirectRegister" /\ Proceed(c, "readStatus")
  \/ call[c].op # "DirectRegister" /\ Answer(c)

(* A client calls an RPC.                                                  *)
Begin(c) ==
  /\ call[c] = Idle
  /\ \E o \in Ops, d \in Dartas :
       call' = [call EXCEPT ![c] = [at |-> FirstStatement(o), op |-> o,
                                    darta |-> d, seen |-> "-",
                                    next |-> NoNumber]]
  /\ UNCHANGED <<rows, audit>>

-----------------------------------------------------------------------------
(* UpdateDartaStatus of the domain service: read, check, update, audit.    *)

(* A slip to catch: isValidStatusTransition is not asked.                  *)
ReadStatusUnguarded(c) ==
  /\ At(c, "readStatus")
  /\ call' = [call EXCEPT ![c].at = "writeStatus",
                          ![c].seen = status[call[c].darta]]
  /\ UNCHANGED <<rows, audit>>

ReadStatus(c) ==
  LET current == status[call[c].darta] IN
  /\ At(c, "readStatus")
  /\ \/ /\ ValidTransition(current, Goal[call[c].op])
        /\ call' = [call EXCEPT ![c].at = "writeStatus", ![c].seen = current]
     \/ /\ ~ ValidTransition(current, Goal[call[c].op])
        /\ Answer(c)
  /\ UNCHANGED <<rows, audit>>

(* A slip to catch: no audit entry after the update.                       *)
WriteStatusUnaudited(c) ==
  /\ At(c, "writeStatus")
  /\ status' = [status EXCEPT ![call[c].darta] = Goal[call[c].op]]
  /\ Answer(c)
  /\ UNCHANGED <<number, classified, assigned, metadata, audit>>

WriteStatus(c) ==
  /\ At(c, "writeStatus")
  /\ status' = [status EXCEPT ![call[c].darta] = Goal[call[c].op]]
  /\ Proceed(c, "auditStatus")
  /\ UNCHANGED <<number, classified, assigned, metadata, audit>>

AuditStatus(c) ==
  /\ At(c, "auditStatus")
  /\ audit' = [audit EXCEPT ![call[c].darta] =
                 [action |-> "STATUS_CHANGED", from |-> call[c].seen,
                  to |-> Goal[call[c].op], number |-> NoNumber]]
  /\ Answer(c)
  /\ UNCHANGED rows

-----------------------------------------------------------------------------
(* ReserveDartaNumber of the domain service.                               *)

(* A slip to catch: a row that has a number is given another.              *)
ReadNumberAgain(c) ==
  /\ At(c, "readNumber")
  /\ Proceed(c, "nextNumber")
  /\ UNCHANGED <<rows, audit>>

ReadNumber(c) ==
  /\ At(c, "readNumber")
  /\ \/ number[call[c].darta] # NoNumber /\ AfterReserve(c)
     \/ number[call[c].darta] = NoNumber /\ Proceed(c, "nextNumber")
  /\ UNCHANGED <<rows, audit>>

(* A slip to catch: the query looks at the row alone.                      *)
OwnRow(d) == {d}

(* The rows the query GetNextDartaNumber aggregates over.                  *)
Peers(d) == {e \in Dartas : Register[e] = Register[d] /\ Tenant[e] = Tenant[d]}

(* A slip to catch: any number of the series, instead of the highest.      *)
IsSomeNumber(d, n) == n \in {NoNumber} \cup {number[e] : e \in Peers(d)}

(* COALESCE(MAX(darta_number), 0), as a relation.                          *)
IsLastNumber(d, n) ==
  /\ n \in {NoNumber} \cup {number[e] : e \in Peers(d)}
  /\ \A e \in Peers(d) : number[e] <= n

GetNextNumber(c) ==
  /\ At(c, "nextNumber")
  /\ \E n \in {NoNumber} \cup {number[e] : e \in Dartas} :
       /\ IsLastNumber(call[c].darta, n)
       /\ call' = [call EXCEPT ![c].at = "writeNumber", ![c].next = n + 1]
  /\ UNCHANGED <<rows, audit>>

(* A slip to catch: the constraint is dropped.                             *)
NeverTaken(d, n) == FALSE

(* UNIQUE (fiscal_year_id, scope, ward_id, darta_number): it does not look *)
(* at tenant_id, and a NULL ward_id is distinct from every other.          *)
Taken(d, n) ==
  /\ Register[d] \in WardRegisters
  /\ \E e \in Dartas \ {d} : Register[e] = Register[d] /\ number[e] = n

(* Slips to catch: a conflict sends the handler back for another number;   *)
(* the status is not marked after the number is stored.                    *)
WriteNumberRetrying(c) ==
  LET d == call[c].darta IN
  /\ At(c, "writeNumber")
  /\ \/ /\ Taken(d, call[c].next)
        /\ Proceed(c, "nextNumber")
        /\ UNCHANGED number
     \/ /\ ~ Taken(d, call[c].next)
        /\ number' = [number EXCEPT ![d] = call[c].next]
        /\ Proceed(c, "markReserved")
  /\ UNCHANGED <<status, classified, assigned, metadata, audit>>

WriteNumberUnmarked(c) ==
  LET d == call[c].darta IN
  /\ At(c, "writeNumber")
  /\ ~ Taken(d, call[c].next)
  /\ number' = [number EXCEPT ![d] = call[c].next]
  /\ Proceed(c, "auditNumber")
  /\ UNCHANGED <<status, classified, assigned, metadata, audit>>

WriteNumber(c) ==
  LET d == call[c].darta IN
  /\ At(c, "writeNumber")
  /\ \/ /\ Taken(d, call[c].next)
        /\ Answer(c)
        /\ UNCHANGED number
     \/ /\ ~ Taken(d, call[c].next)
        /\ number' = [number EXCEPT ![d] = call[c].next]
        /\ Proceed(c, "markReserved")
  /\ UNCHANGED <<status, classified, assigned, metadata, audit>>

MarkReserved(c) ==
  /\ At(c, "markReserved")
  /\ status' = [status EXCEPT ![call[c].darta] = "NUMBER_RESERVED"]
  /\ Proceed(c, "auditNumber")
  /\ UNCHANGED <<number, classified, assigned, metadata, audit>>

AuditNumber(c) ==
  /\ At(c, "auditNumber")
  /\ audit' = [audit EXCEPT ![call[c].darta] =
                 [action |-> "NUMBER_RESERVED", from |-> "-",
                  to |-> "NUMBER_RESERVED", number |-> call[c].next]]
  /\ AfterReserve(c)
  /\ UNCHANGED rows

-----------------------------------------------------------------------------
(* ReviewDarta: a check of its own, then the unguarded update.             *)

ReadReview(c) ==
  /\ At(c, "readReview")
  /\ \/ status[call[c].darta] = "PENDING_REVIEW" /\ Proceed(c, "setStatus")
     \/ status[call[c].darta] # "PENDING_REVIEW" /\ Answer(c)
  /\ UNCHANGED <<rows, audit>>

(* A slip to catch: the CHECK on the column status is dropped.             *)
SetStatusUnchecked(c) ==
  /\ At(c, "setStatus")
  /\ status' = [status EXCEPT ![call[c].darta] = Goal[call[c].op]]
  /\ Answer(c)
  /\ UNCHANGED <<number, classified, assigned, metadata, audit>>

(* The one statement of Close, Void, ProvideClarification and their like,  *)
(* and the last of ReviewDarta; the CHECK on status may reject it.         *)
SetStatus(c) ==
  LET goal == Goal[call[c].op] IN
  /\ At(c, "setStatus")
  /\ \/ /\ goal \in Statuses
        /\ status' = [status EXCEPT ![call[c].darta] = goal]
     \/ /\ goal \notin Statuses
        /\ UNCHANGED status
  /\ Answer(c)
  /\ UNCHANGED <<number, classified, assigned, metadata, audit>>

-----------------------------------------------------------------------------
(* AssignDarta of the domain service; the CHECK on priority rejects the    *)
(* enum name RouteDarta passes.                                            *)

Assign(c) ==
  LET d == call[c].darta IN
  /\ At(c, "assign")
  /\ \/ /\ call[c].op = "Route"
        /\ assigned' = [assigned EXCEPT ![d] = TRUE]
        /\ Proceed(c, "markAssigned")
     \/ /\ call[c].op = "RouteWithPriority"
        /\ Answer(c)
        /\ UNCHANGED assigned
  /\ UNCHANGED <<status, number, classified, metadata, audit>>

MarkAssigned(c) ==
  /\ At(c, "markAssigned")
  /\ status' = [status EXCEPT ![call[c].darta] = "ASSIGNED"]
  /\ Proceed(c, "auditAssigned")
  /\ UNCHANGED <<number, classified, assigned, metadata, audit>>

AuditAssigned(c) ==
  /\ At(c, "auditAssigned")
  /\ audit' = [audit EXCEPT ![call[c].darta] =
                 [action |-> "ASSIGNED", from |-> "-", to |-> "ASSIGNED",
                  number |-> NoNumber]]
  /\ Answer(c)
  /\ UNCHANGED rows

-----------------------------------------------------------------------------
(* ClassifyDarta writes the code first, then asks for the status and       *)
(* ignores the answer; the metadata handlers replace the whole column.     *)

Classify(c) ==
  /\ At(c, "classify")
  /\ classified' = [classified EXCEPT ![call[c].darta] = TRUE]
  /\ Proceed(c, "readStatus")
  /\ UNCHANGED <<status, number, assigned, metadata, audit>>

WriteMetadata(c) ==
  /\ At(c, "writeMetadata")
  /\ metadata' = [metadata EXCEPT ![call[c].darta] = MetadataOf[call[c].op]]
  /\ Answer(c)
  /\ UNCHANGED <<status, number, classified, assigned, audit>>

-----------------------------------------------------------------------------
(* Faults: a statement fails (connection, timeout, cancelled context), and *)
(* the process dies with every handler in it.  The errors of the           *)
(* statements after the first update are ignored.                          *)

StatementFails(c) ==
  /\ Faulty
  /\ call[c] # Idle
  /\ \/ At(c, "markReserved") /\ Proceed(c, "auditNumber")
     \/ At(c, "markAssigned") /\ Proceed(c, "auditAssigned")
     \/ At(c, "auditNumber")  /\ AfterReserve(c)
     \/ /\ call[c].at \notin {"markReserved", "markAssigned", "auditNumber"}
        /\ Answer(c)
  /\ UNCHANGED <<rows, audit>>

Crash ==
  /\ Faulty
  /\ call' = [c \in Callers |-> Idle]
  /\ UNCHANGED <<rows, audit>>

-----------------------------------------------------------------------------
(* A handler's own next step.                                              *)
Step(c) ==
  \/ ReadStatus(c) \/ WriteStatus(c) \/ AuditStatus(c)
  \/ ReadNumber(c) \/ GetNextNumber(c) \/ WriteNumber(c)
  \/ MarkReserved(c) \/ AuditNumber(c)
  \/ ReadReview(c) \/ SetStatus(c)
  \/ Assign(c) \/ MarkAssigned(c) \/ AuditAssigned(c)
  \/ Classify(c) \/ WriteMetadata(c)

Next ==
  \/ \E c \in Callers : Begin(c) \/ Step(c) \/ StatementFails(c)
  \/ Crash

Spec == Init /\ [][Next]_vars

(* Go runs every handler, and the database answers every statement or      *)
(* fails it: a handler in flight is never left waiting for ever.           *)
Fairness == \A c \in Callers : WF_vars(Step(c))

FairSpec == Spec /\ Fairness

-----------------------------------------------------------------------------
(* Properties.                                                             *)

(* A darta whose number is reserved or that is registered has a number:    *)
(* no interleaving of handlers, failed statement or crash lets the status  *)
(* run ahead of the number (ReserveDartaNumber writes them in two          *)
(* statements, FinalizeDartaRegistration checks the status only).          *)
RegisteredHasNumber ==
  \A d \in Dartas :
    status[d] \in {"NUMBER_RESERVED", "REGISTERED"} => number[d] # NoNumber

(* In a ward's register two dartas never hold the same number, whatever    *)
(* handlers race between GetNextDartaNumber and UpdateDartaNumber.         *)
WardNumbersUnique ==
  \A d, e \in Dartas :
    /\ d # e
    /\ Register[d] = Register[e]
    /\ Register[d] \in WardRegisters
    /\ number[d] # NoNumber
    => number[d] # number[e]

(* The numbers of the service, seen as the register it implements.         *)
Series == [d \in Dartas |-> <<Register[d], Tenant[d]>>]
Serial == INSTANCE SerialRegister WITH
            Dartas <- Dartas, Series <- Series, number <- number

(* ReserveDartaNumber is an allocation in one step, or none, of the next   *)
(* number of the darta's series.                                           *)
SerialSpec == Serial!Spec

(* No two dartas of one series have the same number; below a number of the *)
(* series every number is in use.                                          *)
NumbersAreUnique  == Serial!NoDuplicates
NumbersHaveNoGaps == Serial!NoGaps

(* No handler is at work on the darta.                                     *)
Quiet(d) == \A c \in Callers : call[c].darta # d

(* A numbered darta has left the stages before the reservation, so that    *)
(* FinalizeDartaRegistration can register it: ReserveDartaNumber will not  *)
(* touch the status of a darta that has a number.                          *)
NumberedIsReserved ==
  \A d \in Dartas :
    Quiet(d) /\ number[d] # NoNumber
      => status[d] \notin {"DRAFT", "PENDING_REVIEW", "CLASSIFICATION"}

(* The newest entry of the transition log tells the status of a darta      *)
(* (createAuditEntry after each update of the domain service).             *)
AuditTellsStatus ==
  \A d \in Dartas :
    Quiet(d) => \/ audit[d].to = status[d]
                \/ audit[d] = NoEntry /\ status[d] = "DRAFT"

(* UpdateDartaStatus only takes the transitions of its table: the status   *)
(* it overwrites is still one that isValidStatusTransition leaves that way *)
(* (or the goal itself), although it was checked one statement earlier.    *)
WritesFollowGraph ==
  [][\A c \in Callers :
       WriteStatus(c) =>
         \/ ValidTransition(status[call[c].darta], status'[call[c].darta])
         \/ status[call[c].darta] = status'[call[c].darta]]_vars

(* Every handler answers, whatever it meets at the database.               *)
EveryCallAnswered ==
  \A c \in Callers : call[c] # Idle ~> call[c] = Idle

(* A reservation ends with the darta numbered: GetNextDartaNumber offers a *)
(* number the UNIQUE constraint accepts.                                   *)
ReservationNumbers ==
  \A c \in Callers, d \in Dartas :
    call[c].op \in ReserveOps /\ call[c].darta = d ~> number[d] # NoNumber

(* A direct registration ends with the darta registered, or routed by an   *)
(* earlier RPC: never with its number merely reserved.                     *)
DirectRegisterRegisters ==
  \A c \in Callers, d \in Dartas :
    call[c].op = "DirectRegister" /\ call[c].darta = d
      ~> status[d] \in {"REGISTERED", "ASSIGNED"}
=============================================================================
