-------------------------- MODULE OneHandler_proof --------------------------
(***************************************************************************)
(* What holds while one handler at a time is at work, for every set of     *)
(* rows.  With and without faults, ReserveDartaNumber is the one-step      *)
(* allocation of SerialRegister, and UpdateDartaStatus keeps to its table. *)
(* Without faults, and with the RPCs that keep to the domain service, the  *)
(* audit tells the status, and a numbered darta has left the stages before *)
(* its reservation.                                                        *)
(***************************************************************************)
EXTENDS DartaRegister_proof

SP == INSTANCE SerialRegister_proof

(* What is free in the series of d: the number an allocation would give.   *)
FirstFree(d, n) ==
  /\ n \in {number[e] + 1 : e \in Dartas}
  /\ n \notin SP!InUse(Series[d])
  /\ 1 .. n - 1 \subseteq SP!InUse(Series[d])

(* A handler on its way to write a number has read a row without one, and  *)
(* what it has fetched is still the first free number of the series.       *)
FetchedIsFree(k) ==
  /\ k.at \in {"nextNumber", "writeNumber"} => number[k.darta] = NoNumber
  /\ k.at = "writeNumber" => FirstFree(k.darta, k.next)

HandlersFetchedFree == \A c \in Callers : FetchedIsFree(call[c])

ReservationInv ==
  /\ TypeOK
  /\ SP!SerialInv
  /\ HandlersFetchedFree

(* One more than the highest number of a series is its first free number.  *)
LEMMA NextIsFirstFree ==
  ASSUME SP!SerialInv, NEW d \in Dartas, number[d] = NoNumber,
         NEW n, IsLastNumber(d, n)
  PROVE  FirstFree(d, n + 1)
<1>1. number \in [Dartas -> Nat]
  BY DEF SP!SerialInv
<1>2. \A e \in Dartas : e \in Peers(d) <=> Series[e] = Series[d]
  BY DEF Peers, Series
<1>3. PICK e \in Dartas : n = number[e] /\ (n # NoNumber => Series[e] = Series[d])
  BY <1>2 DEF IsLastNumber, Peers, NoNumber
<1>4. n \in Nat /\ n + 1 \in {number[f] + 1 : f \in Dartas}
  BY <1>1, <1>3
<1>5. n + 1 \notin SP!InUse(Series[d])
  BY <1>1, <1>2, <1>4 DEF SP!InUse, IsLastNumber
<1>6. 1 .. n \subseteq SP!InUse(Series[d])
  <2>1. CASE n = NoNumber
    BY <2>1 DEF NoNumber
  <2>2. CASE n # NoNumber
    BY <1>3, <2>2 DEF SP!SerialInv, SP!NoGaps
  <2> QED
    BY <2>1, <2>2
<1>7. (n + 1) - 1 = n
  BY <1>4
<1> QED
  BY <1>4, <1>5, <1>6, <1>7 DEF FirstFree

LEMMA FetchedWhenElsewhere ==
  ASSUME NEW k, k.at \notin {"nextNumber", "writeNumber"}
  PROVE  FetchedIsFree(k)
BY DEF FetchedIsFree

(* Storing what was fetched is an allocation.                              *)
LEMMA WriteAllocates ==
  ASSUME ReservationInv, NEW c \in Callers, WriteNumber(c)
  PROVE  SP!Next \/ UNCHANGED number
<1> DEFINE d == call[c].darta
<1>1. d \in Dartas
  BY InFlight DEF ReservationInv, WriteNumber, At, Calls
<1>2. FirstFree(d, call[c].next) /\ number[d] = NoNumber
  BY DEF ReservationInv, HandlersFetchedFree, FetchedIsFree, WriteNumber, At
<1>3. CASE number' = [number EXCEPT ![d] = call[c].next]
  <2>1. SP!Allocate(d)
    BY <1>2, <1>3 DEF FirstFree, SP!Allocate, SP!NoNumber, NoNumber
  <2> QED
    BY <1>1, <2>1 DEF SP!Next
<1> QED
  BY <1>3 DEF WriteNumber

LEMMA OtherStepsKeepNumber ==
  ASSUME [Next]_vars, ~ \E c \in Callers : WriteNumber(c)
  PROVE  UNCHANGED number
BY DEF Next, Step, vars, rows, Begin, ReadStatus, WriteStatus, AuditStatus,
       ReadNumber, GetNextNumber, MarkReserved, AuditNumber, ReadReview,
       SetStatus, Assign, MarkAssigned, AuditAssigned, Classify,
       WriteMetadata, StatementFails, Crash

LEMMA InitReservationInv == Init => ReservationInv
<1>1. Init => SP!Init
  BY DEF Init, SP!Init, NoNumber, SP!NoNumber
<1>2. Init => HandlersFetchedFree
  BY DEF Init, HandlersFetchedFree, FetchedIsFree, Idle
<1> QED
  BY <1>1, <1>2, InitIInv, SP!InitSerialInv DEF ReservationInv, IInv

LEMMA ProceedAt ==
  ASSUME TypeOK, NEW c \in Callers, call[c].at # "idle",
         NEW s \in Statements, Proceed(c, s)
  PROVE  call'[c].at = s /\ call'[c].darta = call[c].darta
<1>1. call[c] \in Calls /\ call'[c] = [call[c] EXCEPT !.at = s]
  BY InFlight, ProceedEffect
<1> QED
  BY <1>1 DEF Calls

(* Only ReadNumber and GetNextNumber lead to the statements of a           *)
(* reservation that rely on what was read.                                 *)
LEMMA OtherStepsLeadElsewhere ==
  ASSUME TypeOK, NEW c \in Callers,
         \/ Begin(c)
         \/ Step(c) /\ ~ ReadNumber(c) /\ ~ GetNextNumber(c)
         \/ StatementFails(c)
  PROVE  call'[c].at \notin {"nextNumber", "writeNumber"}
<1>1. CASE Begin(c)
  <2>1. PICK o \in Ops : call'[c].at = FirstStatement(o)
    BY <1>1 DEF Begin, TypeOK
  <2>2. o \in AllOps
    BY RegisterAssumption
  <2> QED
    BY <2>1, <2>2 DEF FirstStatement, AllOps, GuardedOps, ReserveOps,
       ReviewOps, RouteOps, UnguardedOps, MetadataOps
<1>2. CASE Answer(c)
  BY <1>2, AnswerEffect DEF Idle
<1>3. ASSUME NEW s \in Statements \ {"nextNumber", "writeNumber"},
             Proceed(c, s), call[c].at # "idle"
      PROVE  call'[c].at \notin {"nextNumber", "writeNumber"}
  BY <1>3, ProceedAt
<1>4. CASE Step(c) /\ ~ ReadNumber(c) /\ ~ GetNextNumber(c)
  <2>1. CASE ReadStatus(c)
    <3>1. CASE call' = [call EXCEPT ![c].at = "writeStatus",
                                    ![c].seen = status[call[c].darta]]
      <4>1. call'[c] = [call[c] EXCEPT !.at = "writeStatus",
                                       !.seen = status[call[c].darta]]
        BY <3>1 DEF TypeOK
      <4>2. call[c] \in Calls
        BY <2>1, InFlight DEF ReadStatus, At
      <4> QED
        BY <4>1, <4>2 DEF Calls
    <3> QED
      BY <1>2, <2>1, <3>1 DEF ReadStatus
  <2>2. CASE \/ WriteStatus(c) \/ MarkReserved(c) \/ MarkAssigned(c)
             \/ Classify(c)
    BY <1>3, <2>2 DEF WriteStatus, MarkReserved, MarkAssigned, Classify, At,
                      Statements
  <2>3. CASE \/ AuditStatus(c) \/ AuditAssigned(c) \/ SetStatus(c)
             \/ WriteMetadata(c)
    BY <1>2, <2>3 DEF AuditStatus, AuditAssigned, SetStatus, WriteMetadata
  <2>4. CASE \/ WriteNumber(c) \/ AuditNumber(c) \/ ReadReview(c) \/ Assign(c)
    BY <1>2, <1>3, <2>4 DEF WriteNumber, AuditNumber, ReadReview, Assign,
                            AfterReserve, At, Statements
  <2> QED
    BY <1>4, <2>1, <2>2, <2>3, <2>4 DEF Step
<1>5. CASE StatementFails(c)
  <2>1. call[c].at # "idle"
    BY <1>5 DEF StatementFails, TypeOK, Calls, Statements, Idle
  <2> QED
    BY <1>2, <1>3, <1>5, <2>1 DEF StatementFails, AfterReserve, Statements
<1> QED
  BY <1>1, <1>4, <1>5

-----------------------------------------------------------------------------
(* With one handler, what it has fetched cannot go stale.                  *)
LEMMA NextReservationInv ==
  ASSUME NEW c, Callers = {c}
  PROVE  ReservationInv /\ TypeOK' /\ [Next]_vars
           => ReservationInv' /\ [SP!Next]_number
<1> SUFFICES ASSUME ReservationInv, TypeOK', [Next]_vars
             PROVE  ReservationInv' /\ [SP!Next]_number
  OBVIOUS
<1> USE DEF ReservationInv
<1>1. [SP!Next]_number
  BY WriteAllocates, OtherStepsKeepNumber
<1>2. SP!SerialInv'
  BY <1>1, SP!NextSerialInv
<1>3. HandlersFetchedFree'
  <2> SUFFICES FetchedIsFree(call[c])'
    BY DEF HandlersFetchedFree
  <2>1. CASE ReadNumber(c)
    <3>1. call[c].at # "idle" /\ UNCHANGED number
      BY <2>1 DEF ReadNumber, At, rows
    <3>2. CASE number[call[c].darta] = NoNumber /\ Proceed(c, "nextNumber")
      <4>1. call'[c].at = "nextNumber" /\ call'[c].darta = call[c].darta
        BY <3>1, <3>2, ProceedAt DEF Statements
      <4> QED
        BY <3>1, <3>2, <4>1 DEF FetchedIsFree
    <3>3. CASE Proceed(c, "readStatus")
      BY <3>1, <3>3, ProceedAt DEF Statements, FetchedIsFree
    <3>4. CASE Answer(c)
      BY <3>4, AnswerEffect DEF Idle, FetchedIsFree
    <3> QED
      BY <2>1, <3>2, <3>3, <3>4 DEF ReadNumber, AfterReserve
  <2>2. CASE GetNextNumber(c)
    <3>1. /\ call[c] \in Calls
          /\ number[call[c].darta] = NoNumber
          /\ UNCHANGED number
      BY <2>2, InFlight
         DEF GetNextNumber, At, rows, HandlersFetchedFree, FetchedIsFree
    <3>2. PICK n : /\ IsLastNumber(call[c].darta, n)
                   /\ call' = [call EXCEPT ![c].at = "writeNumber",
                                           ![c].next = n + 1]
      BY <2>2 DEF GetNextNumber
    <3>3. call'[c] = [call[c] EXCEPT !.at = "writeNumber", !.next = n + 1]
      BY <3>2 DEF TypeOK
    <3>4. call'[c].darta = call[c].darta /\ call'[c].next = n + 1
      BY <3>1, <3>3 DEF Calls
    <3>5. FirstFree(call[c].darta, n + 1)
      BY <3>1, <3>2, NextIsFirstFree DEF Calls
    <3>6. ASSUME NEW d, NEW m, FirstFree(d, m)
          PROVE  FirstFree(d, m)'
      BY <3>1, <3>6 DEF FirstFree, SP!InUse
    <3> QED
      BY <3>1, <3>4, <3>5, <3>6 DEF FetchedIsFree
  <2>3. CASE \/ Begin(c)
             \/ Step(c) /\ ~ ReadNumber(c) /\ ~ GetNextNumber(c)
             \/ StatementFails(c)
    BY <2>3, OtherStepsLeadElsewhere DEF FetchedIsFree
  <2>4. CASE Crash
    BY <2>4 DEF Crash, FetchedIsFree, Idle
  <2>5. CASE UNCHANGED vars
    BY <2>5 DEF vars, rows, HandlersFetchedFree, FetchedIsFree, FirstFree,
                SP!InUse
  <2> QED
    BY <2>1, <2>2, <2>3, <2>4, <2>5 DEF Next
<1> QED
  BY <1>1, <1>2, <1>3

(* While one handler at a time is at work the service implements the       *)
(* serial register: every reservation takes the first free number of its   *)
(* series or none, in one step.                                            *)
THEOREM OneHandlerIsSerial ==
  ASSUME NEW c, Callers = {c}
  PROVE  Spec => SerialSpec
<1>1. Spec => []ReservationInv /\ [][SP!Next]_number
  <2>1. ReservationInv /\ TypeOK' /\ [Next]_vars
          => ReservationInv' /\ [SP!Next]_number
    BY NextReservationInv
  <2> QED
    BY <2>1, InitReservationInv, TypeCorrect, PTL DEF Spec
<1>2. Init => Serial!Init
  BY DEF Init, Serial!Init, NoNumber, Serial!NoNumber
<1>3. [SP!Next]_number => [Serial!Next]_number
  BY DEF SP!Next, SP!Allocate, SP!InUse, SP!NoNumber,
         Serial!Next, Serial!Allocate, Serial!InUse, Serial!NoNumber
<1> QED
  BY <1>1, <1>2, <1>3, PTL DEF Spec, SerialSpec, Serial!Spec

(* So its series have neither duplicates nor gaps, those without a unique  *)
(* index included.                                                         *)
LEMMA SeriesInOrder ==
  ASSUME NEW c, Callers = {c}
  PROVE  Spec => []NumbersAreUnique /\ []NumbersHaveNoGaps
<1>1. ReservationInv => NumbersAreUnique /\ NumbersHaveNoGaps
  BY DEF ReservationInv, SP!SerialInv, SP!NoDuplicates, SP!NoGaps, SP!InUse,
         SP!NoNumber, NumbersAreUnique, NumbersHaveNoGaps, Serial!NoDuplicates,
         Serial!NoGaps, Serial!InUse, Serial!NoNumber
<1>2. ReservationInv /\ TypeOK' /\ [Next]_vars => ReservationInv'
  BY NextReservationInv
<1> QED
  BY <1>1, <1>2, InitReservationInv, TypeCorrect, PTL DEF Spec

(* With one handler at a time no two dartas of a series have one number.   *)
THEOREM OneHandlerNumbersAreUnique ==
  ASSUME NEW c, Callers = {c}
  PROVE  Spec => []NumbersAreUnique
BY SeriesInOrder, PTL

(* With one handler at a time every number below one in use is in use.     *)
THEOREM OneHandlerLeavesNoGaps ==
  ASSUME NEW c, Callers = {c}
  PROVE  Spec => []NumbersHaveNoGaps
BY SeriesInOrder, PTL

-----------------------------------------------------------------------------
(* The statements a handler may go on to after one that succeeds.          *)
Leads ==
  [readStatus    |-> {"writeStatus", "idle"},
   writeStatus   |-> {"auditStatus"},
   auditStatus   |-> {"idle"},
   readNumber    |-> {"nextNumber", "readStatus", "idle"},
   nextNumber    |-> {"writeNumber"},
   writeNumber   |-> {"markReserved", "idle"},
   markReserved  |-> {"auditNumber"},
   auditNumber   |-> {"readStatus", "idle"},
   readReview    |-> {"setStatus", "idle"},
   setStatus     |-> {"idle"},
   assign        |-> {"markAssigned", "idle"},
   markAssigned  |-> {"auditAssigned"},
   auditAssigned |-> {"idle"},
   classify      |-> {"readStatus"},
   writeMetadata |-> {"idle"}]

(* A handler goes on to one of the statements, with its request, or has    *)
(* answered.                                                               *)
MovesTo(c, statements) ==
  /\ call'[c].at \in statements
  /\ call'[c] # Idle => /\ call'[c].op = call[c].op
                        /\ call'[c].darta = call[c].darta

LEMMA ProceedMoves ==
  ASSUME TypeOK, NEW c \in Callers, call[c].at # "idle",
         NEW s \in Statements, Proceed(c, s)
  PROVE  MovesTo(c, {s})
<1>1. call[c] \in Calls /\ call'[c] = [call[c] EXCEPT !.at = s]
  BY InFlight, ProceedEffect
<1> QED
  BY <1>1 DEF Calls, MovesTo

LEMMA AnswerMoves ==
  ASSUME TypeOK, NEW c \in Callers, Answer(c)
  PROVE  MovesTo(c, {"idle"})
BY AnswerEffect DEF MovesTo, Idle

LEMMA StepMoves ==
  ASSUME TypeOK, NEW c \in Callers, Step(c)
  PROVE  /\ call[c] \in Calls
         /\ MovesTo(c, Leads[call[c].at])
<1>0. call[c].at # "idle"
  BY DEF Step, At, ReadStatus, WriteStatus, AuditStatus, ReadNumber,
         GetNextNumber, WriteNumber, MarkReserved, AuditNumber, ReadReview,
         SetStatus, Assign, MarkAssigned, AuditAssigned, Classify,
         WriteMetadata
<1>1. call[c] \in Calls
  BY <1>0, InFlight
<1>2. ASSUME NEW s \in Statements, Proceed(c, s)
      PROVE  MovesTo(c, {s})
  BY <1>0, <1>2, ProceedMoves
<1>3. CASE ReadStatus(c)
  <2>1. CASE call' = [call EXCEPT ![c].at = "writeStatus",
                                  ![c].seen = status[call[c].darta]]
    <3>1. call'[c] = [call[c] EXCEPT !.at = "writeStatus",
                                     !.seen = status[call[c].darta]]
      BY <2>1 DEF TypeOK
    <3> QED
      BY <1>1, <1>3, <3>1 DEF Calls, MovesTo, Leads, ReadStatus, At
  <2> QED
    BY <1>1, <1>3, <2>1, AnswerMoves DEF ReadStatus, At, Leads, MovesTo
<1>4. CASE GetNextNumber(c)
  <2>1. PICK n : call' = [call EXCEPT ![c].at = "writeNumber",
                                      ![c].next = n + 1]
    BY <1>4 DEF GetNextNumber
  <2> DEFINE m == n + 1
  <2>2. call'[c] = [call[c] EXCEPT !.at = "writeNumber", !.next = m]
    BY <2>1 DEF TypeOK
  <2> HIDE DEF m
  <2>3. MovesTo(c, {"writeNumber"})
    BY <1>1, <2>2 DEF Calls, MovesTo
  <2>4. Leads[call[c].at] = {"writeNumber"}
    BY <1>4 DEF Leads, GetNextNumber, At
  <2> QED
    BY <1>1, <2>3, <2>4
<1>5. CASE WriteStatus(c) \/ MarkReserved(c) \/ MarkAssigned(c) \/ Classify(c)
  BY <1>1, <1>2, <1>5
     DEF WriteStatus, MarkReserved, MarkAssigned, Classify, At, Leads,
         Statements, MovesTo
<1>6. CASE \/ AuditStatus(c) \/ AuditAssigned(c) \/ SetStatus(c)
           \/ WriteMetadata(c)
  BY <1>1, <1>6, AnswerMoves
     DEF AuditStatus, AuditAssigned, SetStatus, WriteMetadata, At, Leads,
         MovesTo
<1>7. CASE \/ ReadNumber(c) \/ WriteNumber(c) \/ AuditNumber(c)
           \/ ReadReview(c) \/ Assign(c)
  BY <1>1, <1>2, <1>7, AnswerMoves
     DEF ReadNumber, WriteNumber, AuditNumber, ReadReview, Assign,
         AfterReserve, At, Leads, Statements, MovesTo
<1> QED
  BY <1>1, <1>3, <1>4, <1>5, <1>6, <1>7 DEF Step

(* A request in hand is one of the workload.                               *)
FromWorkload(c) == call[c].at # "idle" => call[c].op \in Ops

LEMMA BeginMoves ==
  ASSUME TypeOK, NEW c \in Callers, Begin(c)
  PROVE  /\ call[c].at = "idle"
         /\ \E o \in Ops : /\ call'[c].op = o
                           /\ call'[c].at = FirstStatement(o)
                           /\ call'[c].darta \in Dartas
BY DEF Begin, TypeOK, Idle

-----------------------------------------------------------------------------
(* The transition a handler is about to write is one the table has from    *)
(* the status the row still has.                                           *)
StillValid(c) ==
  call[c].at = "writeStatus"
    => ValidTransition(status[call[c].darta], Goal[call[c].op])

(* Only ReadStatus leads to the update, and it has just asked the table.   *)
LEMMA StepStillValid ==
  ASSUME TypeOK, NEW c \in Callers, Step(c)
  PROVE  StillValid(c)'
<1>1. /\ call[c] \in Calls
      /\ MovesTo(c, Leads[call[c].at])
  BY StepMoves
<1>2. CASE ReadStatus(c)
  <2>1. CASE call'[c] = Idle
    BY <2>1 DEF Idle, StillValid
  <2>2. CASE call'[c] # Idle
    <3>1. /\ call'[c].op = call[c].op
          /\ call'[c].darta = call[c].darta
          /\ UNCHANGED status
      BY <1>1, <1>2, <2>2 DEF MovesTo, ReadStatus, rows
    <3>2. ValidTransition(status[call[c].darta], Goal[call[c].op])
      BY <1>2, <2>2, AnswerEffect DEF ReadStatus
    <3> QED
      BY <3>1, <3>2 DEF StillValid
  <2> QED
    BY <2>1, <2>2
<1>3. CASE ~ ReadStatus(c)
  <2>1. call[c].at \in DOMAIN Leads \ {"readStatus"}
    BY <1>1, <1>3
       DEF Step, At, Leads, ReadStatus, WriteStatus, AuditStatus, ReadNumber,
           GetNextNumber, WriteNumber, MarkReserved, AuditNumber, ReadReview,
           SetStatus, Assign, MarkAssigned, AuditAssigned, Classify,
           WriteMetadata
  <2>2. call'[c].at # "writeStatus"
    BY <1>1, <2>1 DEF MovesTo, Leads
  <2> QED
    BY <2>2 DEF StillValid
<1> QED
  BY <1>2, <1>3

LEMMA NextStillValid ==
  ASSUME NEW c, Callers = {c}
  PROVE  TypeOK /\ StillValid(c) /\ [Next]_vars => StillValid(c)'
<1> SUFFICES ASSUME TypeOK, StillValid(c), [Next]_vars
             PROVE  StillValid(c)'
  OBVIOUS
<1>1. CASE Begin(c)
  <2>1. PICK o \in Ops : call'[c].at = FirstStatement(o)
    BY <1>1, BeginMoves
  <2> QED
    BY <2>1, RegisterAssumption
       DEF FirstStatement, AllOps, GuardedOps, ReserveOps, ReviewOps,
           RouteOps, UnguardedOps, MetadataOps, StillValid
<1>2. CASE StatementFails(c)
  <2>1. call[c].at # "idle"
    BY <1>2 DEF StatementFails, TypeOK, Calls, Statements, Idle
  <2>2. call'[c].at \in {"auditNumber", "auditAssigned", "readStatus", "idle"}
    BY <1>2, <2>1, ProceedAt, AnswerEffect
       DEF StatementFails, AfterReserve, Statements, Idle
  <2> QED
    BY <2>2 DEF StillValid
<1>3. CASE Crash
  BY <1>3 DEF Crash, StillValid, Idle
<1>4. CASE UNCHANGED vars
  BY <1>4 DEF vars, rows, StillValid
<1> QED
  BY <1>1, <1>2, <1>3, <1>4, StepStillValid DEF Next

(* With one handler at a time UpdateDartaStatus takes the transitions of   *)
(* its table only, failed statements and crashes included: what breaks it  *)
(* is another handler between the check and the update, and nothing else.  *)
THEOREM OneHandlerFollowsGraph ==
  ASSUME NEW h, Callers = {h}
  PROVE  Spec => WritesFollowGraph
<1>1. Init => StillValid(h)
  BY DEF Init, StillValid, Idle
<1>2. TypeOK /\ StillValid(h) /\ [Next]_vars => StillValid(h)'
  BY NextStillValid
<1>3. TypeOK /\ StillValid(h) /\ [Next]_vars
        => [\A c \in Callers :
              WriteStatus(c) =>
                \/ ValidTransition(status[call[c].darta],
                                   status'[call[c].darta])
                \/ status[call[c].darta] = status'[call[c].darta]]_vars
  <2> SUFFICES ASSUME TypeOK, StillValid(h), WriteStatus(h)
               PROVE  ValidTransition(status[call[h].darta],
                                      status'[call[h].darta])
    OBVIOUS
  <2>1. call[h] \in Calls
    BY InFlight DEF WriteStatus, At
  <2>2. status'[call[h].darta] = Goal[call[h].op]
    BY <2>1 DEF WriteStatus, Calls, TypeOK
  <2> QED
    BY <2>2 DEF StillValid, WriteStatus, At
<1> QED
  BY <1>1, <1>2, <1>3, TypeCorrect, PTL DEF Spec, WritesFollowGraph

-----------------------------------------------------------------------------
(* The audit of one handler: what the entry it is about to write says, and *)
(* what the newest entry of every other darta says.                        *)

(* The RPCs that change a status without an entry: they write it through   *)
(* the store, past the domain service.                                     *)
UnauditedOps == {"ApproveReview", "Close", "Void", "ProvideClarification"}

AuditStatements == {"auditStatus", "auditNumber", "auditAssigned"}

ToTell(k) == CASE k.at = "auditStatus"   -> Goal[k.op]
               [] k.at = "auditNumber"   -> "NUMBER_RESERVED"
               [] k.at = "auditAssigned" -> "ASSIGNED"

Told(d) == \/ audit[d].to = status[d]
           \/ audit[d] = NoEntry /\ status[d] = "DRAFT"

EntryDue(c, d) == call[c].at \in AuditStatements /\ call[c].darta = d

AuditInv(c) ==
  /\ FromWorkload(c)
  /\ \A d \in Dartas :
       \/ EntryDue(c, d) /\ status[d] = ToTell(call[c])
       \/ ~ EntryDue(c, d) /\ Told(d)

(* A statement touches neither status nor audit, or it is an update that   *)
(* an entry is to follow, or it writes that entry.                         *)
Silent(c) ==
  /\ UNCHANGED <<status, audit>>
  /\ call[c].at \notin AuditStatements
  /\ call'[c].at \notin AuditStatements

Updates(c) ==
  /\ call[c].at \notin AuditStatements
  /\ call'[c].at \in AuditStatements
  /\ call'[c].darta = call[c].darta
  /\ status' = [status EXCEPT ![call[c].darta] = ToTell(call'[c])]
  /\ UNCHANGED audit

Records(c) ==
  /\ call[c].at \in AuditStatements
  /\ call'[c].at \notin AuditStatements
  /\ \E entry : /\ audit' = [audit EXCEPT ![call[c].darta] = entry]
                 /\ entry.to = ToTell(call[c])
  /\ UNCHANGED status

LEMMA StepAudits ==
  ASSUME TypeOK, HandlersOK, Ops \cap UnauditedOps = {},
         NEW c \in Callers, FromWorkload(c), Step(c)
  PROVE  Silent(c) \/ Updates(c) \/ Records(c)
<1>1. call[c] \in Calls /\ MovesTo(c, Leads[call[c].at])
  BY StepMoves
<1>2. CASE WriteStatus(c) \/ MarkReserved(c) \/ MarkAssigned(c)
  <2>1. /\ call'[c].at \in AuditStatements /\ call'[c] # Idle
        /\ call[c].at \notin AuditStatements
    BY <1>1, <1>2 DEF WriteStatus, MarkReserved, MarkAssigned, At, MovesTo,
                      Leads, AuditStatements, Idle
  <2>2. status' = [status EXCEPT ![call[c].darta] = ToTell(call'[c])]
    BY <1>1, <1>2, <2>1
       DEF WriteStatus, MarkReserved, MarkAssigned, At, MovesTo, Leads, ToTell
  <2> QED
    BY <1>1, <1>2, <2>1, <2>2
       DEF WriteStatus, MarkReserved, MarkAssigned, MovesTo, Updates
<1>3. CASE AuditStatus(c) \/ AuditNumber(c) \/ AuditAssigned(c)
  <2>1. /\ call[c].at \in AuditStatements
        /\ call'[c].at \notin AuditStatements
    BY <1>1, <1>3 DEF AuditStatus, AuditNumber, AuditAssigned, At, MovesTo,
                      Leads, AuditStatements
  <2> QED
    BY <1>3, <2>1 DEF AuditStatus, AuditNumber, AuditAssigned, At, rows,
                      Records, ToTell
<1>4. CASE SetStatus(c)
  <2>1. call[c].op \in (UnguardedOps \cup ReviewOps) \ UnauditedOps
    BY <1>4 DEF SetStatus, At, HandlersOK, FollowsCode, FromWorkload
  <2>2. Goal[call[c].op] \notin Statuses
    BY <2>1 DEF UnguardedOps, ReviewOps, UnauditedOps, Goal, Statuses
  <2> QED
    BY <1>1, <1>4, <2>2
       DEF SetStatus, At, MovesTo, Leads, AuditStatements, Silent
<1>5. CASE \/ ReadStatus(c) \/ ReadNumber(c) \/ GetNextNumber(c)
           \/ WriteNumber(c) \/ ReadReview(c) \/ Assign(c) \/ Classify(c)
           \/ WriteMetadata(c)
  BY <1>1, <1>5
     DEF ReadStatus, ReadNumber, GetNextNumber, WriteNumber, ReadReview,
         Assign, Classify, WriteMetadata, At, MovesTo, Leads, rows,
         AuditStatements, Silent
<1> QED
  BY <1>2, <1>3, <1>4, <1>5 DEF Step

LEMMA BeginSilent ==
  ASSUME TypeOK, NEW c \in Callers, Begin(c)
  PROVE  Silent(c) /\ FromWorkload(c)'
<1>1. /\ call[c].at = "idle"
      /\ call'[c].op \in Ops /\ call'[c].at = FirstStatement(call'[c].op)
  BY BeginMoves
<1>2. call'[c].at \notin AuditStatements
  BY <1>1, RegisterAssumption
     DEF FirstStatement, AllOps, GuardedOps, ReserveOps, ReviewOps, RouteOps,
         UnguardedOps, MetadataOps, AuditStatements
<1> QED
  BY <1>1, <1>2 DEF Begin, rows, Silent, FromWorkload, AuditStatements

LEMMA NextAuditInv ==
  ASSUME NEW c, Callers = {c}, Ops \cap UnauditedOps = {}, ~ Faulty
  PROVE  IInv /\ AuditInv(c) /\ [Next]_vars => AuditInv(c)'
<1> SUFFICES ASSUME IInv, AuditInv(c), [Next]_vars PROVE AuditInv(c)'
  OBVIOUS
<1> USE DEF IInv
<1>1. CASE UNCHANGED vars
  BY <1>1 DEF vars, rows, AuditInv, FromWorkload, EntryDue, Told
<1>2. ASSUME \/ Begin(c) \/ Step(c)
      PROVE  AuditInv(c)'
  <2>1. FromWorkload(c)'
    BY <1>2, BeginSilent, StepMoves
       DEF AuditInv, FromWorkload, MovesTo, Idle, Calls, Statements
  <2>2. Silent(c) \/ Updates(c) \/ Records(c)
    BY <1>2, BeginSilent, StepAudits DEF AuditInv
  <2>3. ASSUME NEW d \in Dartas
        PROVE  \/ EntryDue(c, d)' /\ status'[d] = ToTell(call'[c])
               \/ ~ EntryDue(c, d)' /\ Told(d)'
    <3>1. CASE Silent(c)
      BY <3>1 DEF Silent, AuditInv, EntryDue, Told
    <3>2. CASE Updates(c)
      BY <3>2 DEF Updates, AuditInv, EntryDue, Told, TypeOK
    <3>3. CASE Records(c)
      BY <3>3 DEF Records, AuditInv, EntryDue, Told, TypeOK
    <3> QED
      BY <2>2, <3>1, <3>2, <3>3
  <2> QED
    BY <2>1, <2>3 DEF AuditInv
<1> QED
  BY <1>1, <1>2 DEF Next, StatementFails, Crash

(* Without faults, and with RPCs that leave the status to the domain       *)
(* service, the newest audit entry of a darta tells its status whenever    *)
(* the one handler is not at work on it.                                   *)
THEOREM OneHandlerAuditTellsStatus ==
  ASSUME NEW c, Callers = {c}, Ops \cap UnauditedOps = {}, ~ Faulty
  PROVE  Spec => []AuditTellsStatus
<1>1. Init => AuditInv(c)
  BY DEF Init, AuditInv, FromWorkload, EntryDue, Told, Idle, AuditStatements
<1>2. AuditInv(c) => AuditTellsStatus
  BY DEF AuditInv, AuditTellsStatus, EntryDue, Told, Quiet
<1>3. IInv /\ AuditInv(c) /\ [Next]_vars => AuditInv(c)'
  BY NextAuditInv
<1> QED
  BY <1>1, <1>2, <1>3, Invariant, PTL DEF Spec

-----------------------------------------------------------------------------
(* A numbered darta of one handler.                                        *)

Early == {"DRAFT", "PENDING_REVIEW", "CLASSIFICATION"}

ToBeMarked(c, d) == call[c].at = "markReserved" /\ call[c].darta = d

NumberedInv(c) ==
  /\ FromWorkload(c)
  /\ \A d \in Dartas :
       number[d] # NoNumber => status[d] \notin Early \/ ToBeMarked(c, d)
  /\ call[c].at \in {"writeStatus", "setStatus"} /\ Goal[call[c].op] \in Early
       => number[call[c].darta] = NoNumber

(* The table leads to an early stage from early stages only.               *)
LEMMA EarlyFromEarly ==
  ASSUME NEW from, NEW to \in Early, ValidTransition(from, to)
  PROVE  from \in Early
BY DEF ValidTransition, ValidTransitions, Early

LEMMA StepNumbers ==
  ASSUME IInv, NEW c \in Callers, Step(c), NumberedInv(c)
  PROVE  NumberedInv(c)'
<1> USE DEF IInv
<1> DEFINE d0 == call[c].darta
<1>1. /\ call[c] \in Calls /\ d0 \in Dartas
      /\ MovesTo(c, Leads[call[c].at])
  BY StepMoves DEF Calls
<1>2. FromWorkload(c)'
  BY <1>1 DEF NumberedInv, FromWorkload, MovesTo, Idle, Calls, Statements
<1>3. /\ status \in [Dartas -> Statuses] /\ number \in [Dartas -> Nat]
      /\ \A d \in Dartas :
           number[d] # NoNumber => status[d] \notin Early \/ ToBeMarked(c, d)
  BY DEF NumberedInv, TypeOK
<1> DEFINE Rows  == \A d \in Dartas : number'[d] # NoNumber
                      => status'[d] \notin Early \/ ToBeMarked(c, d)'
           Write == /\ call'[c].at \in {"writeStatus", "setStatus"}
                    /\ Goal[call'[c].op] \in Early
                    => number'[call'[c].darta] = NoNumber
<1> SUFFICES Rows /\ Write
  BY <1>2 DEF NumberedInv
<1>4. CASE WriteStatus(c) \/ SetStatus(c)
  <2>1. /\ call[c].at \in {"writeStatus", "setStatus"}
        /\ call'[c].at \in {"auditStatus", "idle"}
        /\ UNCHANGED number
        /\ \/ status' = [status EXCEPT ![d0] = Goal[call[c].op]]
           \/ UNCHANGED status
    BY <1>1, <1>4 DEF WriteStatus, SetStatus, At, MovesTo, Leads
  <2>2. Goal[call[c].op] \in Early => number[d0] = NoNumber
    BY <2>1 DEF NumberedInv
  <2> QED
    BY <1>1, <1>3, <2>1, <2>2 DEF ToBeMarked
<1>5. CASE MarkReserved(c) \/ MarkAssigned(c)
  <2>1. /\ call'[c].at \in {"auditNumber", "auditAssigned"}
        /\ UNCHANGED number
        /\ \E s \in {"NUMBER_RESERVED", "ASSIGNED"} :
             status' = [status EXCEPT ![d0] = s]
    BY <1>1, <1>5 DEF MarkReserved, MarkAssigned, At, MovesTo, Leads
  <2> QED
    BY <1>1, <1>3, <2>1 DEF ToBeMarked, Early
<1>6. CASE WriteNumber(c)
  <2>1. /\ call[c].at = "writeNumber" /\ UNCHANGED status
        /\ call'[c].at \in {"markReserved", "idle"}
    BY <1>1, <1>6 DEF WriteNumber, At, MovesTo, Leads
  <2>2. CASE UNCHANGED number
    BY <1>3, <2>1, <2>2 DEF ToBeMarked
  <2>3. CASE /\ number' = [number EXCEPT ![d0] = call[c].next]
             /\ Proceed(c, "markReserved")
    <3>1. call'[c].at = "markReserved" /\ call'[c].darta = d0
      BY <2>1, <2>3, ProceedAt DEF Statements
    <3>2. \A d \in Dartas : d # d0 => number'[d] = number[d]
      BY <1>3, <2>3
    <3>3. Rows
      BY <1>3, <2>1, <3>1, <3>2 DEF ToBeMarked
    <3> QED
      BY <3>1, <3>3
  <2> QED
    BY <1>6, <2>2, <2>3 DEF WriteNumber
<1>7. CASE ReadStatus(c) \/ ReadReview(c)
  <2>1. /\ call[c].at \in {"readStatus", "readReview"}
        /\ UNCHANGED <<status, number>>
    BY <1>7 DEF ReadStatus, ReadReview, At, rows
  <2>2. \/ call'[c] = Idle
        \/ /\ call'[c].op = call[c].op /\ call'[c].darta = d0
           /\ call'[c].at \in {"writeStatus", "setStatus", "idle"}
    BY <1>1, <2>1 DEF MovesTo, Leads
  <2>3. ASSUME call'[c] # Idle, Goal[call[c].op] \in Early
        PROVE  status[d0] \in Early
    <3>1. CASE ReadStatus(c)
      BY <1>1, <2>3, <3>1, EarlyFromEarly, AnswerEffect DEF ReadStatus
    <3>2. CASE ReadReview(c)
      BY <1>1, <2>3, <3>2, AnswerEffect DEF ReadReview, Early
    <3> QED
      BY <1>7, <3>1, <3>2
  <2>4. Rows
    BY <1>3, <2>1 DEF ToBeMarked
  <2>5. Write
    BY <1>1, <1>3, <2>1, <2>2, <2>3 DEF ToBeMarked, Idle
  <2> QED
    BY <2>4, <2>5
<1>8. CASE \/ AuditStatus(c) \/ ReadNumber(c) \/ GetNextNumber(c)
           \/ AuditNumber(c) \/ Assign(c) \/ AuditAssigned(c)
           \/ Classify(c) \/ WriteMetadata(c)
  <2>1. /\ call[c].at # "markReserved"
        /\ call'[c].at \notin {"writeStatus", "setStatus"}
        /\ UNCHANGED <<status, number>>
    BY <1>1, <1>8 DEF AuditStatus, ReadNumber, GetNextNumber, AuditNumber,
                      Assign, AuditAssigned, Classify, WriteMetadata, At,
                      MovesTo, Leads, rows
  <2> QED
    BY <1>3, <2>1 DEF ToBeMarked
<1> QED
  BY <1>4, <1>5, <1>6, <1>7, <1>8 DEF Step

(* No RPC but ProvideClarification starts with a write of an early stage.  *)
LEMMA BeginNumbers ==
  ASSUME IInv, "ProvideClarification" \notin Ops,
         NEW c \in Callers, Begin(c), NumberedInv(c)
  PROVE  NumberedInv(c)'
<1>1. /\ call[c].at = "idle"
      /\ call'[c].op \in Ops /\ call'[c].at = FirstStatement(call'[c].op)
  BY BeginMoves DEF IInv
<1>2. call'[c].at # "writeStatus"
        /\ (call'[c].at = "setStatus" => Goal[call'[c].op] \notin Early)
  BY <1>1, RegisterAssumption
     DEF FirstStatement, AllOps, GuardedOps, ReserveOps, ReviewOps, RouteOps,
         UnguardedOps, MetadataOps, Goal, Early
<1>3. UNCHANGED <<status, number>>
  BY DEF Begin, rows
<1> QED
  BY <1>1, <1>2, <1>3 DEF NumberedInv, FromWorkload, ToBeMarked

(* Without faults and without ProvideClarification, which sends a darta    *)
(* back whatever it has, a numbered darta has left the stages before the   *)
(* reservation: FinalizeDartaRegistration can register it.                 *)
THEOREM OneHandlerNumberedIsReserved ==
  ASSUME NEW c, Callers = {c}, "ProvideClarification" \notin Ops, ~ Faulty
  PROVE  Spec => []NumberedIsReserved
<1>1. Init => NumberedInv(c)
  BY DEF Init, NumberedInv, FromWorkload, Idle
<1>2. NumberedInv(c) => NumberedIsReserved
  BY DEF NumberedInv, NumberedIsReserved, ToBeMarked, Quiet, Early
<1>3. IInv /\ NumberedInv(c) /\ [Next]_vars => NumberedInv(c)'
  <2>1. UNCHANGED vars /\ NumberedInv(c) => NumberedInv(c)'
    BY DEF vars, rows, NumberedInv, FromWorkload, ToBeMarked
  <2> QED
    BY <2>1, StepNumbers, BeginNumbers DEF Next, StatementFails, Crash
<1> QED
  BY <1>1, <1>2, <1>3, Invariant, PTL DEF Spec
=============================================================================
