------------------------ MODULE DartaRegister_proof ------------------------
(***************************************************************************)
(* What holds of DartaRegister for every set of rows and handlers, every   *)
(* workload, with and without faults.                                      *)
(***************************************************************************)
EXTENDS DartaRegister, TLAPS

(* Which RPCs can be at which statement.                                   *)
StatusCallers == GuardedOps \cup {"DirectRegister", "Classify"}

FollowsCode(k) ==
  /\ k.at \in {"readStatus", "writeStatus", "auditStatus"}
       => k.op \in StatusCallers
  /\ k.at = "setStatus" => k.op \in UnguardedOps \cup ReviewOps
  /\ k.at = "readReview" => k.op \in ReviewOps
  /\ k.at = "classify" => k.op = "Classify"
  /\ k.at = "writeMetadata" => k.op \in MetadataOps

(* What a handler that is about to write a status or a number relies on:   *)
(* the number it has fetched is one, and the row it is about to mark as    *)
(* reserved or registered has got a number.                                *)
ReliesOnNumber(k) ==
  /\ k.at = "writeNumber" => k.next # NoNumber
  /\ k.at = "markReserved" => number[k.darta] # NoNumber
  /\ k.at = "writeStatus" /\ Goal[k.op] = "REGISTERED"
       => number[k.darta] # NoNumber

HandlersOK == \A c \in Callers : FollowsCode(call[c]) /\ ReliesOnNumber(call[c])

IInv ==
  /\ TypeOK
  /\ HandlersOK
  /\ RegisteredHasNumber

-----------------------------------------------------------------------------
(* Facts about the tables of the handlers.                                 *)

LEMMA GoalOfStatusCallers ==
  ASSUME NEW o \in StatusCallers
  PROVE  Goal[o] \in Statuses \ {"NUMBER_RESERVED"}
BY DEF Goal, StatusCallers, GuardedOps, Statuses

LEMMA GoalOfSetters ==
  ASSUME NEW o \in UnguardedOps \cup ReviewOps
  PROVE  Goal[o] \notin {"NUMBER_RESERVED", "REGISTERED"}
BY DEF Goal, UnguardedOps, ReviewOps

(* Only a reservation leads to a registration.                             *)
LEMMA RegisteredFromReserved ==
  ASSUME NEW from \in Statuses, ValidTransition(from, "REGISTERED")
  PROVE  from = "NUMBER_RESERVED"
BY DEF ValidTransition, ValidTransitions, Statuses

LEMMA FirstStatementOK ==
  ASSUME NEW o \in AllOps
  PROVE  /\ FirstStatement(o) \in Statements
         /\ FirstStatement(o) \in {"readStatus", "writeStatus", "auditStatus"}
              => o \in StatusCallers
         /\ FirstStatement(o) = "setStatus" => o \in UnguardedOps \cup ReviewOps
         /\ FirstStatement(o) = "readReview" => o \in ReviewOps
         /\ FirstStatement(o) = "classify" => o = "Classify"
         /\ FirstStatement(o) = "writeMetadata" => o \in MetadataOps
         /\ FirstStatement(o) \notin {"writeNumber", "markReserved", "writeStatus"}
BY DEF AllOps, FirstStatement, Statements, StatusCallers, GuardedOps,
       ReserveOps, ReviewOps, RouteOps, UnguardedOps, MetadataOps

-----------------------------------------------------------------------------
(* How the handlers' variables change.                                     *)

LEMMA InFlight ==
  ASSUME TypeOK, NEW c \in Callers, call[c].at # "idle"
  PROVE  call[c] \in Calls
BY DEF TypeOK, Idle

LEMMA ProceedEffect ==
  ASSUME TypeOK, NEW c \in Callers, call[c].at # "idle",
         NEW s \in Statements, Proceed(c, s)
  PROVE  /\ call' \in [Callers -> Calls \cup {Idle}]
         /\ call'[c] = [call[c] EXCEPT !.at = s]
         /\ \A b \in Callers \ {c} : call'[b] = call[b]
<1>1. call[c] \in Calls
  BY InFlight
<1>2. [call[c] EXCEPT !.at = s] \in Calls
  BY <1>1 DEF Calls
<1> QED
  BY <1>2 DEF TypeOK, Proceed

(* Statements a handler may be moved to whatever the rows hold.            *)
LEMMA ProceedOK ==
  ASSUME TypeOK, NEW c \in Callers, call[c].at # "idle",
         NEW s \in {"readStatus", "nextNumber", "auditNumber", "markAssigned",
                    "auditAssigned"},
         s = "readStatus" => call[c].op \in StatusCallers,
         Proceed(c, s)
  PROVE  /\ call' \in [Callers -> Calls \cup {Idle}]
         /\ \A b \in Callers \ {c} : call'[b] = call[b]
         /\ FollowsCode(call'[c])
         /\ ReliesOnNumber(call[c])'
<1>1. s \in Statements
  BY DEF Statements
<1>2. call[c] \in Calls
  BY InFlight
<1>3. /\ call' \in [Callers -> Calls \cup {Idle}]
      /\ call'[c] = [call[c] EXCEPT !.at = s]
      /\ \A b \in Callers \ {c} : call'[b] = call[b]
  BY <1>1, ProceedEffect
<1>4. call'[c].at = s /\ call'[c].op = call[c].op
  BY <1>2, <1>3 DEF Calls
<1> QED
  BY <1>3, <1>4 DEF FollowsCode, ReliesOnNumber

LEMMA AnswerEffect ==
  ASSUME TypeOK, NEW c \in Callers, Answer(c)
  PROVE  /\ call' \in [Callers -> Calls \cup {Idle}]
         /\ call'[c] = Idle
         /\ \A b \in Callers \ {c} : call'[b] = call[b]
BY DEF TypeOK, Answer

(* A step of c that takes no number away keeps what the others rely on.    *)
LEMMA OthersOK ==
  ASSUME TypeOK, HandlersOK, NEW c \in Callers,
         \A b \in Callers \ {c} : call'[b] = call[b],
         \A d \in Dartas : number[d] # NoNumber => number'[d] # NoNumber,
         FollowsCode(call'[c]), ReliesOnNumber(call[c])'
  PROVE  HandlersOK'
<1> SUFFICES ASSUME NEW b \in Callers
             PROVE  FollowsCode(call[b])' /\ ReliesOnNumber(call[b])'
  BY DEF HandlersOK
<1>1. CASE b = c
  BY <1>1 DEF FollowsCode
<1>2. CASE b # c
  <2>1. call'[b] = call[b] /\ FollowsCode(call[b]) /\ ReliesOnNumber(call[b])
    BY <1>2 DEF HandlersOK
  <2>2. call[b].at # "idle" => call[b].darta \in Dartas
    BY InFlight DEF Calls
  <2> QED
    BY <2>1, <2>2 DEF FollowsCode, ReliesOnNumber
<1> QED
  BY <1>1, <1>2

LEMMA IdleOK == FollowsCode(Idle) /\ ReliesOnNumber(Idle) /\ ReliesOnNumber(Idle)'
BY DEF FollowsCode, ReliesOnNumber, Idle


-----------------------------------------------------------------------------
LEMMA InitIInv == Init => IInv
BY DEF Init, IInv, TypeOK, HandlersOK, FollowsCode, ReliesOnNumber,
       RegisteredHasNumber, Idle, Statuses, MetadataKeys, AuditEntries, NoEntry,
       NoNumber

(* Steps that leave status and number alone, and move c to a statement     *)
(* that needs nothing of them.                                             *)
LEMMA CallStep ==
  ASSUME IInv, NEW c \in Callers, UNCHANGED <<status, number>>,
         call' \in [Callers -> Calls \cup {Idle}],
         \A b \in Callers \ {c} : call'[b] = call[b],
         FollowsCode(call'[c]), ReliesOnNumber(call[c])'
  PROVE  HandlersOK' /\ RegisteredHasNumber'
<1>1. HandlersOK'
  BY OthersOK DEF IInv
<1>2. RegisteredHasNumber'
  BY DEF IInv, RegisteredHasNumber
<1> QED
  BY <1>1, <1>2

LEMMA NextIInv == IInv /\ [Next]_vars => IInv'
<1> SUFFICES ASSUME IInv, [Next]_vars PROVE IInv'
  OBVIOUS
<1> USE DEF IInv
<1>1. ASSUME NEW c \in Callers, Begin(c) PROVE IInv'
  <2>1. PICK o \in Ops, d \in Dartas :
          call' = [call EXCEPT ![c] = [at |-> FirstStatement(o), op |-> o,
                                       darta |-> d, seen |-> "-",
                                       next |-> NoNumber]]
    BY <1>1 DEF Begin
  <2>2. o \in AllOps
    BY RegisterAssumption
  <2>3. call'[c] \in Calls /\ TypeOK'
    BY <1>1, <2>1, <2>2, FirstStatementOK DEF Begin, Calls, TypeOK, rows, NoNumber
  <2>4. FollowsCode(call'[c]) /\ ReliesOnNumber(call[c])'
    BY <2>1, <2>2, FirstStatementOK DEF FollowsCode, ReliesOnNumber, TypeOK
  <2>5. \A b \in Callers \ {c} : call'[b] = call[b]
    BY <2>1 DEF TypeOK
  <2> QED
    BY <1>1, <2>3, <2>4, <2>5, CallStep DEF Begin, rows, TypeOK
<1>2. ASSUME NEW c \in Callers, ReadStatus(c) PROVE IInv'
  <2> DEFINE d == call[c].darta
  <2>1. call[c] \in Calls
    BY <1>2, InFlight DEF ReadStatus, At
  <2>2. UNCHANGED <<rows, audit>>
    BY <1>2 DEF ReadStatus
  <2>3. CASE Answer(c)
    BY <2>2, <2>3, AnswerEffect, IdleOK, CallStep DEF rows, TypeOK
  <2>4. CASE /\ ValidTransition(status[d], Goal[call[c].op])
             /\ call' = [call EXCEPT ![c].at = "writeStatus", ![c].seen = status[d]]
    <3>1. call'[c] = [call[c] EXCEPT !.at = "writeStatus", !.seen = status[d]]
      BY <2>4 DEF TypeOK
    <3>2. d \in Dartas /\ status[d] \in Statuses
      BY <2>1 DEF Calls, TypeOK
    <3>3. call'[c] \in Calls
      BY <2>1, <3>1, <3>2 DEF Calls, Statements
    <3>4. call' \in [Callers -> Calls \cup {Idle}]
      BY <2>4, <3>1, <3>3 DEF TypeOK
    <3>5. FollowsCode(call'[c])
      BY <1>2, <2>1, <3>1 DEF HandlersOK, FollowsCode, ReadStatus, At, Calls
    <3>6. Goal[call[c].op] = "REGISTERED" => number[d] # NoNumber
      BY <2>4, <3>2, RegisteredFromReserved DEF RegisteredHasNumber
    <3>7. ReliesOnNumber(call[c])'
      BY <2>1, <2>2, <3>1, <3>6 DEF ReliesOnNumber, Calls, rows
    <3>8. \A b \in Callers \ {c} : call'[b] = call[b]
      BY <2>4 DEF TypeOK
    <3> QED
      BY <2>2, <3>4, <3>5, <3>7, <3>8, CallStep DEF rows, TypeOK
  <2> QED
    BY <1>2, <2>3, <2>4 DEF ReadStatus
<1>3. ASSUME NEW c \in Callers, WriteStatus(c) PROVE IInv'
  <2> DEFINE d == call[c].darta
             goal == Goal[call[c].op]
  <2>1. /\ call[c] \in Calls
        /\ call' \in [Callers -> Calls \cup {Idle}]
        /\ call'[c] = [call[c] EXCEPT !.at = "auditStatus"]
        /\ \A b \in Callers \ {c} : call'[b] = call[b]
    BY <1>3, InFlight, ProceedEffect DEF WriteStatus, At, Statements
  <2>2. /\ d \in Dartas
        /\ goal \in Statuses \ {"NUMBER_RESERVED"}
        /\ goal = "REGISTERED" => number[d] # NoNumber
    BY <1>3, <2>1, GoalOfStatusCallers
       DEF WriteStatus, At, HandlersOK, FollowsCode, ReliesOnNumber, Calls
  <2>3. TypeOK' /\ RegisteredHasNumber'
    BY <1>3, <2>1, <2>2 DEF WriteStatus, TypeOK, RegisteredHasNumber
  <2>4. FollowsCode(call'[c]) /\ ReliesOnNumber(call[c])'
    BY <1>3, <2>1 DEF WriteStatus, At, HandlersOK, FollowsCode, ReliesOnNumber, Calls
  <2> QED
    BY <1>3, <2>1, <2>3, <2>4, OthersOK DEF WriteStatus
<1>4. ASSUME NEW c \in Callers, AuditStatus(c) PROVE IInv'
  <2>1. call[c] \in Calls
    BY <1>4, InFlight DEF AuditStatus, At
  <2>2. Goal[call[c].op] \in Statuses
    BY <1>4, GoalOfStatusCallers DEF AuditStatus, At, HandlersOK, FollowsCode
  <2>3. audit' \in [Dartas -> AuditEntries]
    BY <1>4, <2>1, <2>2 DEF AuditStatus, TypeOK, AuditEntries, Calls, NoNumber
  <2> QED
    BY <1>4, <2>3, AnswerEffect, IdleOK, CallStep DEF AuditStatus, rows, TypeOK
<1>5. ASSUME NEW c \in Callers, ReadNumber(c) PROVE IInv'
  <2>1. CASE Answer(c)
    BY <1>5, <2>1, AnswerEffect, IdleOK, CallStep DEF ReadNumber, rows, TypeOK
  <2>2. ASSUME NEW s \in {"readStatus", "nextNumber"}, Proceed(c, s),
               s = "readStatus" => call[c].op = "DirectRegister"
        PROVE  IInv'
    <3>1. call[c].at # "idle" /\ UNCHANGED <<rows, audit>>
      BY <1>5 DEF ReadNumber, At
    <3>2. /\ call' \in [Callers -> Calls \cup {Idle}]
          /\ \A b \in Callers \ {c} : call'[b] = call[b]
          /\ FollowsCode(call'[c]) /\ ReliesOnNumber(call[c])'
      BY <2>2, <3>1, ProceedOK DEF StatusCallers
    <3> QED
      BY <3>1, <3>2, CallStep DEF rows, TypeOK
  <2> QED
    BY <1>5, <2>1, <2>2 DEF ReadNumber, AfterReserve
<1>6. ASSUME NEW c \in Callers, GetNextNumber(c) PROVE IInv'
  <2>1. PICK n \in {NoNumber} \cup {number[e] : e \in Dartas} :
          call' = [call EXCEPT ![c].at = "writeNumber", ![c].next = n + 1]
    BY <1>6 DEF GetNextNumber
  <2>2. n \in Nat /\ call[c] \in Calls
    BY <1>6, InFlight DEF TypeOK, NoNumber, GetNextNumber, At
  <2>3. call'[c] = [call[c] EXCEPT !.at = "writeNumber", !.next = n + 1]
    BY <2>1 DEF TypeOK
  <2>4. call'[c] \in Calls
    <3>1. n + 1 \in Nat /\ "writeNumber" \in Statements
      BY <2>2 DEF Statements
    <3> QED
      BY <2>2, <2>3, <3>1 DEF Calls
  <2>5. call' \in [Callers -> Calls \cup {Idle}]
    BY <2>1, <2>3, <2>4 DEF TypeOK
  <2>6. FollowsCode(call'[c]) /\ ReliesOnNumber(call[c])'
    BY <2>2, <2>3 DEF FollowsCode, ReliesOnNumber, Calls, NoNumber
  <2>7. \A b \in Callers \ {c} : call'[b] = call[b]
    BY <2>1 DEF TypeOK
  <2> QED
    BY <1>6, <2>5, <2>6, <2>7, CallStep DEF GetNextNumber, rows, TypeOK
<1>7. ASSUME NEW c \in Callers, WriteNumber(c) PROVE IInv'
  <2> DEFINE d == call[c].darta
  <2>1. /\ call[c] \in Calls
        /\ call[c].next # NoNumber
        /\ UNCHANGED <<status, classified, assigned, metadata, audit>>
    BY <1>7, InFlight DEF WriteNumber, At, HandlersOK, ReliesOnNumber
  <2>2. CASE Answer(c) /\ UNCHANGED number
    BY <2>1, <2>2, AnswerEffect, IdleOK, CallStep DEF rows, TypeOK
  <2>3. CASE /\ number' = [number EXCEPT ![d] = call[c].next]
             /\ Proceed(c, "markReserved")
    <3>1. /\ call' \in [Callers -> Calls \cup {Idle}]
          /\ call'[c] = [call[c] EXCEPT !.at = "markReserved"]
          /\ \A b \in Callers \ {c} : call'[b] = call[b]
      BY <1>7, <2>3, ProceedEffect DEF WriteNumber, At, Statements
    <3>2. d \in Dartas /\ call[c].next \in Nat
      BY <2>1 DEF Calls
    <3>3. TypeOK' /\ RegisteredHasNumber'
      BY <2>1, <2>3, <3>1, <3>2 DEF TypeOK, RegisteredHasNumber
    <3>4. \A e \in Dartas : number[e] # NoNumber => number'[e] # NoNumber
      BY <2>1, <2>3, <3>2 DEF TypeOK
    <3>5. FollowsCode(call'[c]) /\ ReliesOnNumber(call[c])'
      BY <2>1, <2>3, <3>1, <3>2 DEF FollowsCode, ReliesOnNumber, Calls, TypeOK
    <3> QED
      BY <3>1, <3>3, <3>4, <3>5, OthersOK
  <2> QED
    BY <1>7, <2>2, <2>3 DEF WriteNumber
<1>8. ASSUME NEW c \in Callers, MarkReserved(c) PROVE IInv'
  <2> DEFINE d == call[c].darta
  <2>1. /\ call[c] \in Calls
        /\ call' \in [Callers -> Calls \cup {Idle}]
        /\ call'[c] = [call[c] EXCEPT !.at = "auditNumber"]
        /\ \A b \in Callers \ {c} : call'[b] = call[b]
    BY <1>8, InFlight, ProceedEffect DEF MarkReserved, At, Statements
  <2>2. d \in Dartas /\ number[d] # NoNumber
    BY <1>8, <2>1 DEF MarkReserved, At, HandlersOK, ReliesOnNumber, Calls
  <2>3. TypeOK' /\ RegisteredHasNumber'
    BY <1>8, <2>1, <2>2 DEF MarkReserved, TypeOK, RegisteredHasNumber, Statuses
  <2>4. FollowsCode(call'[c]) /\ ReliesOnNumber(call[c])'
    BY <2>1 DEF FollowsCode, ReliesOnNumber, Calls
  <2> QED
    BY <1>8, <2>1, <2>3, <2>4, OthersOK DEF MarkReserved
<1>9. ASSUME NEW c \in Callers, AuditNumber(c) PROVE IInv'
  <2>1. call[c] \in Calls /\ UNCHANGED rows
    BY <1>9, InFlight DEF AuditNumber, At
  <2>2. audit' \in [Dartas -> AuditEntries]
    BY <1>9, <2>1 DEF AuditNumber, TypeOK, AuditEntries, Calls, Statuses
  <2>3. CASE Answer(c)
    BY <2>1, <2>2, <2>3, AnswerEffect, IdleOK, CallStep DEF rows, TypeOK
  <2>4. CASE call[c].op = "DirectRegister" /\ Proceed(c, "readStatus")
    <3>1. /\ call' \in [Callers -> Calls \cup {Idle}]
          /\ \A b \in Callers \ {c} : call'[b] = call[b]
          /\ FollowsCode(call'[c]) /\ ReliesOnNumber(call[c])'
      BY <1>9, <2>4, ProceedOK DEF AuditNumber, At, StatusCallers
    <3> QED
      BY <2>1, <2>2, <3>1, CallStep DEF rows, TypeOK
  <2> QED
    BY <1>9, <2>3, <2>4 DEF AuditNumber, AfterReserve
<1>10. ASSUME NEW c \in Callers, ReadReview(c) PROVE IInv'
  <2>1. CASE Answer(c)
    BY <1>10, <2>1, AnswerEffect, IdleOK, CallStep DEF ReadReview, rows, TypeOK
  <2>2. CASE Proceed(c, "setStatus")
    <3>1. call[c] \in Calls /\ call[c].op \in ReviewOps
      BY <1>10, InFlight DEF ReadReview, At, HandlersOK, FollowsCode
    <3>2. /\ call' \in [Callers -> Calls \cup {Idle}]
          /\ call'[c] = [call[c] EXCEPT !.at = "setStatus"]
          /\ \A b \in Callers \ {c} : call'[b] = call[b]
      BY <1>10, <2>2, ProceedEffect DEF ReadReview, At, Statements
    <3>3. FollowsCode(call'[c]) /\ ReliesOnNumber(call[c])'
      BY <3>1, <3>2 DEF FollowsCode, ReliesOnNumber, Calls
    <3> QED
      BY <1>10, <3>2, <3>3, CallStep DEF ReadReview, rows, TypeOK
  <2> QED
    BY <1>10, <2>1, <2>2 DEF ReadReview
<1>11. ASSUME NEW c \in Callers, SetStatus(c) PROVE IInv'
  <2> DEFINE d == call[c].darta
             goal == Goal[call[c].op]
  <2>1. /\ call' \in [Callers -> Calls \cup {Idle}]
        /\ call'[c] = Idle
        /\ \A b \in Callers \ {c} : call'[b] = call[b]
    BY <1>11, AnswerEffect DEF SetStatus
  <2>2. goal \notin {"NUMBER_RESERVED", "REGISTERED"}
    BY <1>11, GoalOfSetters DEF SetStatus, At, HandlersOK, FollowsCode
  <2>3. TypeOK' /\ RegisteredHasNumber'
    BY <1>11, <2>1, <2>2 DEF SetStatus, TypeOK, RegisteredHasNumber
  <2> QED
    BY <1>11, <2>1, <2>3, IdleOK, OthersOK DEF SetStatus
<1>12. ASSUME NEW c \in Callers, Assign(c) PROVE IInv'
  <2>1. UNCHANGED <<status, number, classified, metadata, audit>>
    BY <1>12 DEF Assign
  <2>2. assigned' \in [Dartas -> BOOLEAN]
    BY <1>12 DEF Assign, TypeOK
  <2>3. CASE Answer(c)
    BY <2>1, <2>2, <2>3, AnswerEffect, IdleOK, CallStep DEF TypeOK
  <2>4. CASE Proceed(c, "markAssigned")
    <3>1. /\ call' \in [Callers -> Calls \cup {Idle}]
          /\ \A b \in Callers \ {c} : call'[b] = call[b]
          /\ FollowsCode(call'[c]) /\ ReliesOnNumber(call[c])'
      BY <1>12, <2>4, ProceedOK DEF Assign, At
    <3> QED
      BY <2>1, <2>2, <3>1, CallStep DEF TypeOK
  <2> QED
    BY <1>12, <2>3, <2>4 DEF Assign
<1>13. ASSUME NEW c \in Callers, MarkAssigned(c) PROVE IInv'
  <2>1. /\ call[c] \in Calls
        /\ call' \in [Callers -> Calls \cup {Idle}]
        /\ call'[c] = [call[c] EXCEPT !.at = "auditAssigned"]
        /\ \A b \in Callers \ {c} : call'[b] = call[b]
    BY <1>13, InFlight, ProceedEffect DEF MarkAssigned, At, Statements
  <2>2. TypeOK' /\ RegisteredHasNumber'
    BY <1>13, <2>1 DEF MarkAssigned, TypeOK, RegisteredHasNumber, Statuses
  <2>3. FollowsCode(call'[c]) /\ ReliesOnNumber(call[c])'
    BY <2>1 DEF FollowsCode, ReliesOnNumber, Calls
  <2> QED
    BY <1>13, <2>1, <2>2, <2>3, OthersOK DEF MarkAssigned
<1>14. ASSUME NEW c \in Callers, AuditAssigned(c) PROVE IInv'
  <2>1. audit' \in [Dartas -> AuditEntries]
    BY <1>14 DEF AuditAssigned, TypeOK, AuditEntries, Statuses, NoNumber
  <2> QED
    BY <1>14, <2>1, AnswerEffect, IdleOK, CallStep DEF AuditAssigned, rows, TypeOK
<1>15. ASSUME NEW c \in Callers, Classify(c) PROVE IInv'
  <2>1. /\ call[c] \in Calls
        /\ call' \in [Callers -> Calls \cup {Idle}]
        /\ call'[c] = [call[c] EXCEPT !.at = "readStatus"]
        /\ \A b \in Callers \ {c} : call'[b] = call[b]
    BY <1>15, InFlight, ProceedEffect DEF Classify, At, Statements
  <2>2. call[c].op = "Classify"
    BY <1>15 DEF Classify, At, HandlersOK, FollowsCode
  <2>3. TypeOK'
    BY <1>15, <2>1 DEF Classify, TypeOK
  <2>4. FollowsCode(call'[c]) /\ ReliesOnNumber(call[c])'
    BY <2>1, <2>2 DEF FollowsCode, ReliesOnNumber, Calls, StatusCallers
  <2> QED
    BY <1>15, <2>1, <2>3, <2>4, CallStep DEF Classify
<1>16. ASSUME NEW c \in Callers, WriteMetadata(c) PROVE IInv'
  <2>1. call[c] \in Calls /\ call[c].op \in MetadataOps
    BY <1>16, InFlight DEF WriteMetadata, At, HandlersOK, FollowsCode
  <2>2. metadata' \in [Dartas -> SUBSET MetadataKeys]
    <3>1. MetadataOf[call[c].op] \in SUBSET MetadataKeys
      BY <2>1 DEF MetadataOf, MetadataKeys, MetadataOps
    <3> QED
      BY <1>16, <3>1 DEF WriteMetadata, TypeOK
  <2> QED
    BY <1>16, <2>2, AnswerEffect, IdleOK, CallStep DEF WriteMetadata, TypeOK
<1>17. ASSUME NEW c \in Callers, StatementFails(c) PROVE IInv'
  <2>1. UNCHANGED <<rows, audit>> /\ call[c].at # "idle"
    BY <1>17, InFlight DEF StatementFails, TypeOK, Calls, Statements, Idle
  <2>2. CASE Answer(c)
    BY <2>1, <2>2, AnswerEffect, IdleOK, CallStep DEF rows, TypeOK
  <2>3. ASSUME NEW s \in {"auditNumber", "auditAssigned", "readStatus"},
               Proceed(c, s), s = "readStatus" => call[c].op = "DirectRegister"
        PROVE  IInv'
    <3>1. /\ call' \in [Callers -> Calls \cup {Idle}]
          /\ \A b \in Callers \ {c} : call'[b] = call[b]
          /\ FollowsCode(call'[c]) /\ ReliesOnNumber(call[c])'
      BY <2>1, <2>3, ProceedOK DEF StatusCallers
    <3> QED
      BY <2>1, <3>1, CallStep DEF rows, TypeOK
  <2> QED
    BY <1>17, <2>2, <2>3 DEF StatementFails, AfterReserve
<1>18. CASE Crash
  BY <1>18, IdleOK
     DEF Crash, TypeOK, HandlersOK, RegisteredHasNumber, rows, ReliesOnNumber
<1>19. CASE UNCHANGED vars
  BY <1>19 DEF vars, rows, TypeOK, HandlersOK, RegisteredHasNumber,
               ReliesOnNumber
<1> QED
  BY <1>1, <1>2, <1>3, <1>4, <1>5, <1>6, <1>7, <1>8, <1>9, <1>10, <1>11,
     <1>12, <1>13, <1>14, <1>15, <1>16, <1>17, <1>18, <1>19 DEF Next, Step

-----------------------------------------------------------------------------
(* The inductive invariant holds of every reachable state.                 *)
THEOREM Invariant == Spec => []IInv
BY InitIInv, NextIInv, PTL DEF Spec

(* Every column, audit entry and handler variable keeps its type: in       *)
(* particular no statement ever stores a status the CHECK does not admit.  *)
THEOREM TypeCorrect == Spec => []TypeOK
BY Invariant, PTL DEF IInv

(* Whatever handlers run together, whatever fails: a darta whose number is *)
(* reserved or that is registered has a number.                            *)
THEOREM RegisteredDartasAreNumbered == Spec => []RegisteredHasNumber
BY Invariant, PTL DEF IInv

-----------------------------------------------------------------------------
(* A number once stored is checked against the register in the statement   *)
(* that stores it, so the constraint survives every interleaving.          *)
LEMMA NextWardUnique ==
  TypeOK /\ WardNumbersUnique /\ [Next]_vars => WardNumbersUnique'
<1> SUFFICES ASSUME TypeOK, WardNumbersUnique, [Next]_vars
             PROVE  WardNumbersUnique'
  OBVIOUS
<1>1. CASE UNCHANGED number
  BY <1>1 DEF WardNumbersUnique
<1>2. ASSUME NEW c \in Callers, WriteNumber(c), number' # number
      PROVE  WardNumbersUnique'
  <2> DEFINE d == call[c].darta
  <2>1. ~ Taken(d, call[c].next) /\ number' = [number EXCEPT ![d] = call[c].next]
    BY <1>2 DEF WriteNumber
  <2>2. \A e \in Dartas : number'[e] = IF e = d THEN call[c].next ELSE number[e]
    BY <2>1 DEF TypeOK
  <2> SUFFICES ASSUME NEW a \in Dartas, NEW b \in Dartas, a # b,
                      Register[a] = Register[b], Register[a] \in WardRegisters,
                      number'[a] # NoNumber
               PROVE  number'[a] # number'[b]
    BY DEF WardNumbersUnique
  <2>3. CASE a = d
    BY <2>1, <2>2, <2>3 DEF Taken
  <2>4. CASE b = d
    BY <2>1, <2>2, <2>4 DEF Taken
  <2>5. CASE a # d /\ b # d
    BY <2>2, <2>5 DEF WardNumbersUnique
  <2> QED
    BY <2>3, <2>4, <2>5
<1>3. UNCHANGED number \/ \E c \in Callers : WriteNumber(c)
  BY DEF Next, Step, vars, rows, Begin, ReadStatus, WriteStatus, AuditStatus,
         ReadNumber, GetNextNumber, MarkReserved, AuditNumber, ReadReview,
         SetStatus, Assign, MarkAssigned, AuditAssigned, Classify,
         WriteMetadata, StatementFails, Crash
<1> QED
  BY <1>1, <1>2, <1>3

(* In a ward's register no two dartas ever hold the same number, however   *)
(* many handlers reserve numbers together and whatever fails.              *)
THEOREM WardRegistersHaveNoDuplicates == Spec => []WardNumbersUnique
<1>1. Init => WardNumbersUnique
  BY DEF Init, WardNumbersUnique
<1> QED
  BY <1>1, NextWardUnique, TypeCorrect, PTL DEF Spec
=============================================================================
