-------------------------- MODULE DartaIntake_proof --------------------------
(***************************************************************************)
(* What the idempotency key guarantees, for every set of requests and      *)
(* handlers and any number of sendings and faults.                         *)
(***************************************************************************)
EXTENDS DartaIntake, TLAPS

(* The unique index: two rows never carry one key.                         *)
KeysAreUnique ==
  \A i, j \in 1 .. Len(letters) :
    /\ Key[letters[i].request] = Key[letters[j].request]
    /\ Key[letters[i].request] # NoKey
    => i = j

(* A handler past its insert works on the letter it has inserted.          *)
HandlersOK ==
  \A c \in Callers : call[c].at = "annex" =>
    /\ call[c].letter \in 1 .. Len(letters)
    /\ letters[call[c].letter].request = call[c].request

IInv ==
  /\ TypeOK
  /\ KeysAreUnique
  /\ HandlersOK
  /\ ReturnedLetterIsOwn

-----------------------------------------------------------------------------
(* Steps that leave the table alone and move one handler, or all, keep     *)
(* what is said of rows and handlers.                                      *)

LEMMA RefuseKeeps ==
  ASSUME IInv, NEW c \in Callers, Refuse(c), UNCHANGED letters,
         sent' \in 0 .. MaxSends, faults' \in 0 .. MaxFaults
  PROVE  IInv'
BY DEF IInv, TypeOK, KeysAreUnique, HandlersOK, ReturnedLetterIsOwn, Refuse, Idle

LEMMA ReturnKeeps ==
  ASSUME IInv, NEW c \in Callers, NEW i \in 1 .. Len(letters),
         call[c].at # "idle", Return(c, i), UNCHANGED letters,
         Key[letters[i].request] = Key[call[c].request],
         Tenant[letters[i].request] = Tenant[call[c].request],
         sent' \in 0 .. MaxSends, faults' \in 0 .. MaxFaults
  PROVE  IInv'
<1>1. call[c] \in Calls
  BY DEF IInv, TypeOK, Idle
<1>2. /\ call' \in [Callers -> Calls \cup {Idle}]
      /\ answers' \in [Requests -> SUBSET (1 .. Len(letters))]
  BY <1>1 DEF IInv, TypeOK, Return, Calls
<1>3. HandlersOK'
  BY DEF IInv, TypeOK, HandlersOK, Return, Idle
<1>4. ReturnedLetterIsOwn'
  BY <1>1 DEF IInv, TypeOK, ReturnedLetterIsOwn, Return, Calls
<1> QED
  BY <1>2, <1>3, <1>4 DEF IInv, TypeOK, KeysAreUnique

LEMMA ProceedKeeps ==
  ASSUME IInv, NEW c \in Callers, call[c].at # "idle",
         NEW s \in Statements \ {"annex"}, Proceed(c, s),
         UNCHANGED <<letters, answers>>,
         sent' \in 0 .. MaxSends, faults' \in 0 .. MaxFaults
  PROVE  IInv'
<1>1. call[c] \in Calls
  BY DEF IInv, TypeOK, Idle
<1>2. /\ call' \in [Callers -> Calls \cup {Idle}]
      /\ call'[c].at = s
      /\ \A b \in Callers \ {c} : call'[b] = call[b]
  BY <1>1 DEF IInv, TypeOK, Proceed, Calls
<1> QED
  BY <1>2 DEF IInv, TypeOK, KeysAreUnique, HandlersOK, ReturnedLetterIsOwn

(* The loop over the annexes moves on: nothing but the list is touched.    *)
LEMMA NextAnnexKeeps ==
  ASSUME IInv, NEW c \in Callers, call[c].at = "annex", call[c].todo # <<>>
  PROVE  LET next == [call EXCEPT ![c].todo = Tail(@)] IN
         /\ next \in [Callers -> Calls \cup {Idle}]
         /\ \A b \in Callers : /\ next[b].at = call[b].at
                               /\ next[b].letter = call[b].letter
                               /\ next[b].request = call[b].request
<1>1. call[c] \in Calls
  BY DEF IInv, TypeOK, Idle
<1>2. Tail(call[c].todo) \in Seq(AnnexIds)
  BY <1>1 DEF Calls
<1> QED
  BY <1>1, <1>2 DEF IInv, TypeOK, Calls

-----------------------------------------------------------------------------
LEMMA InitIInv == Init => IInv
BY IntakeAssumption
   DEF Init, IInv, TypeOK, KeysAreUnique, HandlersOK, ReturnedLetterIsOwn, Idle

LEMMA SendKeeps ==
  ASSUME IInv, NEW c \in Callers, Send(c)
  PROVE  IInv'
<1>1. sent' \in 0 .. MaxSends
  BY IntakeAssumption DEF IInv, TypeOK, Send
<1>2. CASE UNCHANGED call
  BY <1>1, <1>2
     DEF IInv, TypeOK, KeysAreUnique, HandlersOK, ReturnedLetterIsOwn, Send
<1>3. ASSUME NEW r \in Requests, NEW entry \in Entries,
             call' = [call EXCEPT ![c] =
                        [at |-> FirstStatement(r, entry), request |-> r,
                         letter |-> 0, todo |-> Annexes[r]]]
      PROVE  IInv'
  <2>1. FirstStatement(r, entry) \in Statements \ {"annex"}
    BY IntakeAssumption DEF FirstStatement, Statements
  <2>2. call'[c] \in Calls /\ call'[c].at # "annex"
    BY <1>3, <2>1, IntakeAssumption DEF IInv, TypeOK, Calls
  <2>3. \A b \in Callers \ {c} : call'[b] = call[b]
    BY <1>3 DEF IInv, TypeOK
  <2>4. call' \in [Callers -> Calls \cup {Idle}]
    BY <1>3, <2>2 DEF IInv, TypeOK
  <2> QED
    BY <1>1, <2>2, <2>3, <2>4
       DEF IInv, TypeOK, KeysAreUnique, HandlersOK, ReturnedLetterIsOwn, Send
<1> QED
  BY <1>2, <1>3 DEF Send

(* The insert: a row with a key not in use, and its handler.               *)
LEMMA InsertKeeps ==
  ASSUME IInv, NEW c \in Callers, Insert(c)
  PROVE  IInv'
<1>1. call[c] \in Calls
  BY DEF IInv, TypeOK, Insert, At, Idle
<1> DEFINE r == call[c].request
           n == Len(letters) + 1
<1>2. CASE KeyTaken(Key[r])
  <2>1. Refuse(c) /\ UNCHANGED <<letters, sent, faults>>
    BY <1>2 DEF Insert
  <2>2. sent' \in 0 .. MaxSends /\ faults' \in 0 .. MaxFaults
    BY <2>1 DEF IInv, TypeOK
  <2> QED
    BY <2>1, <2>2, RefuseKeeps
<1>3. CASE ~ KeyTaken(Key[r])
  <2>1. /\ letters' = Append(letters, [request |-> r, annexes |-> {},
                                       audited |-> FALSE])
        /\ call' = [call EXCEPT ![c].at = "annex", ![c].letter = n]
        /\ UNCHANGED <<answers, sent, faults>>
    BY <1>3 DEF Insert
  <2>2. /\ letters' \in Seq(Letters)
        /\ Len(letters') = n
        /\ letters'[n].request = r
        /\ \A i \in 1 .. Len(letters) : letters'[i] = letters[i]
    BY <1>1, <2>1 DEF IInv, TypeOK, Letters, Calls
  <2>3. /\ call' \in [Callers -> Calls \cup {Idle}]
        /\ call'[c].letter = n /\ call'[c].request = r
        /\ \A b \in Callers \ {c} : call'[b] = call[b]
    <3>1. n \in Nat
      BY DEF IInv, TypeOK
    <3>2. /\ call'[c] = [call[c] EXCEPT !.at = "annex", !.letter = n]
          /\ \A b \in Callers \ {c} : call'[b] = call[b]
      BY <2>1 DEF IInv, TypeOK
    <3>3. call'[c] \in Calls /\ call'[c].letter = n /\ call'[c].request = r
      BY <1>1, <3>1, <3>2 DEF Calls, Statements
    <3> QED
      BY <2>1, <3>2, <3>3 DEF IInv, TypeOK
  <2>4. KeysAreUnique'
    <3>1. \A i \in 1 .. Len(letters) :
            Key[r] # NoKey => Key[letters[i].request] # Key[r]
      BY <1>3 DEF KeyTaken
    <3>2. n = Len(letters) + 1 /\ Len(letters) \in Nat
      BY DEF IInv, TypeOK
    <3>3. \A i \in 1 .. n : i = n \/ i \in 1 .. Len(letters)
      BY <3>2
    <3> HIDE DEF n, r
    <3> QED
      BY <2>2, <3>1, <3>3 DEF IInv, KeysAreUnique
  <2>5. HandlersOK'
    BY <2>2, <2>3 DEF IInv, TypeOK, HandlersOK
  <2>6. ReturnedLetterIsOwn'
    BY <2>1, <2>2 DEF IInv, TypeOK, ReturnedLetterIsOwn
  <2>7. answers' \in [Requests -> SUBSET (1 .. Len(letters'))]
    BY <2>1, <2>2 DEF IInv, TypeOK
  <2> QED
    BY <2>1, <2>2, <2>3, <2>4, <2>5, <2>6, <2>7 DEF IInv, TypeOK
<1> QED
  BY <1>2, <1>3 DEF Insert

(* A change of a row's other columns keeps whose row it is.                *)
LEMMA RowsKeep ==
  ASSUME IInv, letters' \in Seq(Letters), Len(letters') = Len(letters),
         \A i \in 1 .. Len(letters) : letters'[i].request = letters[i].request
  PROVE  KeysAreUnique'
BY DEF IInv, TypeOK, KeysAreUnique

LEMMA AddAnnexKeeps ==
  ASSUME IInv, NEW c \in Callers, AddAnnex(c)
  PROVE  IInv'
<1> DEFINE i == call[c].letter
<1>1. /\ call[c] \in Calls
      /\ i \in 1 .. Len(letters)
  BY DEF IInv, TypeOK, HandlersOK, AddAnnex, At, Idle
<1>2. call' = [call EXCEPT ![c].todo = Tail(@)]
  BY DEF AddAnnex, AfterFailedAnnex
<1>3. /\ call' \in [Callers -> Calls \cup {Idle}]
      /\ \A b \in Callers : /\ call'[b].at = call[b].at
                            /\ call'[b].letter = call[b].letter
                            /\ call'[b].request = call[b].request
  BY <1>2, NextAnnexKeeps DEF AddAnnex, At
<1>4. /\ letters' \in Seq(Letters)
      /\ Len(letters') = Len(letters)
      /\ \A k \in 1 .. Len(letters) : letters'[k].request = letters[k].request
  <2>1. CASE UNCHANGED letters
    BY <2>1 DEF IInv, TypeOK
  <2>2. ASSUME NEW a \in Attachments,
               letters' = [letters EXCEPT ![i].annexes = @ \cup {a}]
        PROVE  <1>4!1 /\ <1>4!2 /\ <1>4!3
    <3>0. letters[i] \in Letters
      BY <1>1 DEF IInv, TypeOK
    <3>1. [letters[i] EXCEPT !.annexes = @ \cup {a}] \in Letters
      BY <3>0 DEF Letters
    <3> QED
      BY <1>1, <2>2, <3>1 DEF IInv, TypeOK, Letters
  <2> QED
    BY <2>1, <2>2 DEF AddAnnex
<1>5. KeysAreUnique'
  BY <1>4, RowsKeep
<1>6. HandlersOK'
  BY <1>3, <1>4 DEF IInv, HandlersOK
<1>7. ReturnedLetterIsOwn'
  BY <1>4 DEF IInv, TypeOK, ReturnedLetterIsOwn, AddAnnex
<1> QED
  BY <1>3, <1>4, <1>5, <1>6, <1>7 DEF IInv, TypeOK, AddAnnex

LEMMA AuditKeeps ==
  ASSUME IInv, NEW c \in Callers, Audit(c)
  PROVE  IInv'
<1> DEFINE i == call[c].letter
<1>1. /\ call[c] \in Calls
      /\ i \in 1 .. Len(letters)
      /\ letters[i].request = call[c].request
  BY DEF IInv, TypeOK, HandlersOK, Audit, At, Idle
<1>2. [letters[i] EXCEPT !.audited = TRUE] \in Letters
  <2>1. letters[i] \in Letters
    BY <1>1 DEF IInv, TypeOK
  <2> QED
    BY <2>1 DEF Letters
<1>3. /\ letters' \in Seq(Letters)
      /\ Len(letters') = Len(letters)
      /\ \A k \in 1 .. Len(letters) : letters'[k].request = letters[k].request
  BY <1>1, <1>2 DEF IInv, TypeOK, Letters, Audit
<1>4. /\ call' \in [Callers -> Calls \cup {Idle}]
      /\ answers' \in [Requests -> SUBSET (1 .. Len(letters'))]
  BY <1>1, <1>3 DEF IInv, TypeOK, Audit, Return, Calls
<1>5. KeysAreUnique'
  BY <1>3, RowsKeep
<1>6. HandlersOK'
  BY <1>3 DEF IInv, TypeOK, HandlersOK, Audit, Return, Idle
<1>7. ReturnedLetterIsOwn'
  BY <1>1, <1>3 DEF IInv, TypeOK, ReturnedLetterIsOwn, Audit, Return, Calls
<1> QED
  BY <1>3, <1>4, <1>5, <1>6, <1>7 DEF IInv, TypeOK, Audit

LEMMA StatementFailsKeeps ==
  ASSUME IInv, NEW c \in Callers, StatementFails(c)
  PROVE  IInv'
<1>1. faults' \in 0 .. MaxFaults /\ sent' \in 0 .. MaxSends
  BY IntakeAssumption DEF IInv, TypeOK, StatementFails
<1>2. CASE Refuse(c)
  BY <1>1, <1>2, RefuseKeeps DEF StatementFails
<1>3. CASE At(c, "lookUp") /\ Proceed(c, "verify") /\ UNCHANGED answers
  BY <1>1, <1>3, ProceedKeeps DEF StatementFails, At, Statements
<1>4. CASE At(c, "annex") /\ Return(c, call[c].letter)
  <2>1. /\ call[c].letter \in 1 .. Len(letters)
        /\ letters[call[c].letter].request = call[c].request
    BY <1>4 DEF IInv, HandlersOK, At
  <2> QED
    BY <1>1, <1>4, <2>1, ReturnKeeps DEF StatementFails, At
<1>5. CASE /\ At(c, "annex") /\ call[c].todo # <<>>
           /\ AfterFailedAnnex(c) /\ UNCHANGED answers
  <2>1. /\ call' \in [Callers -> Calls \cup {Idle}]
        /\ \A b \in Callers : /\ call'[b].at = call[b].at
                              /\ call'[b].letter = call[b].letter
                              /\ call'[b].request = call[b].request
    BY <1>5, NextAnnexKeeps DEF At, AfterFailedAnnex
  <2> QED
    BY <1>1, <1>5, <2>1
       DEF IInv, TypeOK, KeysAreUnique, HandlersOK, ReturnedLetterIsOwn,
           StatementFails
<1> QED
  BY <1>2, <1>3, <1>4, <1>5 DEF StatementFails

LEMMA NextIInv == IInv /\ [Next]_vars => IInv'
<1> SUFFICES ASSUME IInv, [Next]_vars PROVE IInv'
  OBVIOUS
<1>1. /\ sent \in 0 .. MaxSends /\ faults \in 0 .. MaxFaults
  BY DEF IInv, TypeOK
<1>2. ASSUME NEW c \in Callers, InsertApplicant(c) PROVE IInv'
  BY <1>1, <1>2, RefuseKeeps DEF InsertApplicant
<1>3. ASSUME NEW c \in Callers, LookUp(c) PROVE IInv'
  <2>1. CASE Proceed(c, "verify") /\ UNCHANGED answers
    BY <1>1, <1>3, <2>1, ProceedKeeps DEF LookUp, At, Statements
  <2>2. ASSUME NEW i \in Entered(call[c].request), Return(c, i) PROVE IInv'
    BY <1>1, <1>3, <2>2, ReturnKeeps DEF LookUp, At, Entered
  <2> QED
    BY <1>3, <2>1, <2>2 DEF LookUp
<1>4. ASSUME NEW c \in Callers, Verify(c) PROVE IInv'
  <2>1. CASE Refuse(c)
    BY <1>1, <1>4, <2>1, RefuseKeeps DEF Verify
  <2>2. CASE Proceed(c, "insert") /\ UNCHANGED answers
    BY <1>1, <1>4, <2>2, ProceedKeeps DEF Verify, At, Statements
  <2> QED
    BY <1>4, <2>1, <2>2 DEF Verify
<1>5. CASE Crash
  BY <1>5, IntakeAssumption
     DEF IInv, TypeOK, KeysAreUnique, HandlersOK, ReturnedLetterIsOwn, Crash, Idle
<1>6. CASE UNCHANGED vars
  BY <1>6 DEF IInv, TypeOK, KeysAreUnique, HandlersOK, ReturnedLetterIsOwn, vars
<1> QED
  BY <1>2, <1>3, <1>4, <1>5, <1>6, SendKeeps, InsertKeeps, AddAnnexKeeps,
     AuditKeeps, StatementFailsKeeps
     DEF Next, Step

(* The invariant holds of every reachable state.                           *)
THEOREM IntakeInvariant == Spec => []IInv
BY InitIInv, NextIInv, PTL DEF Spec

(* Every row, handler variable and answer keeps its type; in particular an *)
(* answer names a row that exists.                                         *)
THEOREM TypeCorrect == Spec => []TypeOK
BY IntakeInvariant, PTL DEF IInv

(* No request is ever answered with a letter of another tenant or key.     *)
THEOREM AnswersAreOwn == Spec => []ReturnedLetterIsOwn
BY IntakeInvariant, PTL DEF IInv

(* However often a keyed request is sent, it is entered once, and all      *)
(* answers name that letter.                                               *)
THEOREM KeyedRequestsAreEnteredOnce == Spec => []KeyedRequestsEnterOnce
<1>1. IInv => KeyedRequestsEnterOnce
  BY DEF IInv, TypeOK, KeysAreUnique, ReturnedLetterIsOwn,
         KeyedRequestsEnterOnce, Entered
<1> QED
  BY <1>1, IntakeInvariant, PTL

-----------------------------------------------------------------------------
(* Letters are complete: what is still to be done for a letter is in hand  *)
(* of a handler, and what a handler has still to do is all that is missing.*)

Listed(s) == {s[k] : k \in DOMAIN s}
Due(r)    == Listed(Annexes[r]) \cap Attachments

Complete(i) == letters[i].audited /\ letters[i].annexes = Due(letters[i].request)
InHand(i)   == \E c \in Callers : At(c, "annex") /\ call[c].letter = i

(* A handler before its insert has the whole list before it.               *)
ListsAreWhole ==
  \A c \in Callers : call[c].at \notin {"idle", "annex"} =>
    call[c].todo = Annexes[call[c].request]

NothingIsLeftOut ==
  \A c \in Callers : call[c].at = "annex" =>
    LET letter == letters[call[c].letter] IN
    letter.annexes \cup (Listed(call[c].todo) \cap Attachments)
      = Due(letter.request)

NothingIsForgotten ==
  \A i \in 1 .. Len(letters) : InHand(i) \/ Complete(i)

Progress == ListsAreWhole /\ NothingIsLeftOut /\ NothingIsForgotten
PInv     == faults = 0 => Progress

LEMMA ListedTail ==
  ASSUME NEW s \in Seq(AnnexIds), s # <<>>
  PROVE  Listed(s) = {Head(s)} \cup Listed(Tail(s))
<1>1. /\ Len(s) \in Nat \ {0} /\ DOMAIN s = 1 .. Len(s)
      /\ DOMAIN Tail(s) = 1 .. (Len(s) - 1)
      /\ \A k \in 1 .. (Len(s) - 1) : Tail(s)[k] = s[k + 1]
      /\ Head(s) = s[1]
  OBVIOUS
<1>2. \A k \in 1 .. Len(s) : k = 1 \/ k - 1 \in 1 .. (Len(s) - 1)
  BY <1>1
<1>3. ASSUME NEW x \in Listed(s) PROVE x \in {Head(s)} \cup Listed(Tail(s))
  <2>1. PICK k \in 1 .. Len(s) : x = s[k]
    BY <1>1, <1>3 DEF Listed
  <2>2. CASE k = 1
    BY <1>1, <2>1, <2>2
  <2>3. CASE k - 1 \in 1 .. (Len(s) - 1)
    <3>1. Tail(s)[k - 1] = x
      BY <1>1, <2>1, <2>3
    <3> QED
      BY <1>1, <2>3, <3>1 DEF Listed
  <2> QED
    BY <1>2, <2>1, <2>2, <2>3
<1>4. Head(s) \in Listed(s)
  BY <1>1 DEF Listed
<1>5. Listed(Tail(s)) \subseteq Listed(s)
  BY <1>1 DEF Listed
<1> QED
  BY <1>3, <1>4, <1>5

(* One row replaced.                                                       *)
LEMMA UpdatedRow ==
  ASSUME NEW s \in Seq(Letters), NEW i \in 1 .. Len(s), NEW row \in Letters
  PROVE  LET t == [s EXCEPT ![i] = row] IN
         /\ Len(t) = Len(s) /\ t[i] = row
         /\ \A k \in 1 .. Len(s) : k # i => t[k] = s[k]
OBVIOUS

(* A step that leaves the rows alone, and of the handlers changes only one *)
(* that has not inserted yet.                                              *)
LEMMA BeforeInsertKeeps ==
  ASSUME IInv, Progress, NEW c \in Callers, UNCHANGED letters,
         call[c].at # "annex", call'[c].at # "annex",
         call'[c].at # "idle" => call'[c].todo = Annexes[call'[c].request],
         \A b \in Callers \ {c} : call'[b] = call[b]
  PROVE  Progress'
<1>1. ListsAreWhole'
  BY DEF Progress, ListsAreWhole
<1>2. NothingIsLeftOut'
  BY DEF Progress, NothingIsLeftOut
<1>3. NothingIsForgotten'
  BY DEF Progress, NothingIsForgotten, InHand, At, Complete
<1> QED
  BY <1>1, <1>2, <1>3 DEF Progress

LEMMA SendProgress ==
  ASSUME IInv, Progress, NEW c \in Callers, Send(c)
  PROVE  Progress'
<1>1. CASE UNCHANGED call
  BY <1>1 DEF Send, Progress, ListsAreWhole, NothingIsLeftOut,
              NothingIsForgotten, InHand, At, Complete
<1>2. ASSUME NEW r \in Requests, NEW entry \in Entries,
             call' = [call EXCEPT ![c] =
                        [at |-> FirstStatement(r, entry), request |-> r,
                         letter |-> 0, todo |-> Annexes[r]]]
      PROVE  Progress'
  <2>1. FirstStatement(r, entry) # "annex"
    BY IntakeAssumption DEF FirstStatement
  <2>2. /\ call'[c].at # "annex" /\ call'[c].todo = Annexes[call'[c].request]
        /\ \A b \in Callers \ {c} : call'[b] = call[b]
    BY <1>2, <2>1 DEF IInv, TypeOK
  <2>3. call[c].at # "annex" /\ UNCHANGED letters
    BY DEF Send, Idle
  <2> QED
    BY <2>2, <2>3, BeforeInsertKeeps
<1> QED
  BY <1>1, <1>2 DEF Send

LEMMA RefuseProgress ==
  ASSUME IInv, Progress, NEW c \in Callers, call[c].at # "annex",
         call' = [call EXCEPT ![c] = Idle], UNCHANGED letters
  PROVE  Progress'
<1>1. call'[c].at = "idle" /\ \A b \in Callers \ {c} : call'[b] = call[b]
  BY DEF IInv, TypeOK, Idle
<1> QED
  BY <1>1, BeforeInsertKeeps

LEMMA ProceedProgress ==
  ASSUME IInv, Progress, NEW c \in Callers, call[c].at \notin {"idle", "annex"},
         NEW s \in Statements \ {"annex"}, Proceed(c, s), UNCHANGED letters
  PROVE  Progress'
<1>1. /\ call'[c] = [call[c] EXCEPT !.at = s]
      /\ \A b \in Callers \ {c} : call'[b] = call[b]
  BY DEF IInv, TypeOK, Proceed
<1>2. call[c] \in Calls
  BY DEF IInv, TypeOK, Idle
<1>3. /\ call'[c].at = s /\ call'[c].todo = call[c].todo
      /\ call'[c].request = call[c].request
  BY <1>1, <1>2 DEF Calls
<1>4. call'[c].todo = Annexes[call'[c].request]
  BY <1>3 DEF Progress, ListsAreWhole
<1> QED
  BY <1>1, <1>3, <1>4, BeforeInsertKeeps

LEMMA InsertProgress ==
  ASSUME IInv, Progress, NEW c \in Callers, Insert(c)
  PROVE  Progress'
<1> DEFINE r == call[c].request
           n == Len(letters) + 1
<1>1. CASE KeyTaken(Key[r])
  BY <1>1, RefuseProgress DEF Insert, At, Refuse
<1>2. CASE ~ KeyTaken(Key[r])
  <2>1. /\ letters' = Append(letters, [request |-> r, annexes |-> {},
                                       audited |-> FALSE])
        /\ call' = [call EXCEPT ![c].at = "annex", ![c].letter = n]
    BY <1>2 DEF Insert
  <2>2. /\ Len(letters') = n /\ n = Len(letters) + 1 /\ Len(letters) \in Nat
        /\ letters'[n].request = r /\ letters'[n].annexes = {}
        /\ \A i \in 1 .. Len(letters) : letters'[i] = letters[i]
    BY <2>1 DEF IInv, TypeOK
  <2>3. call[c] \in Calls /\ call[c].todo = Annexes[r]
    BY DEF IInv, TypeOK, Insert, At, Idle, Progress, ListsAreWhole
  <2>4. /\ call'[c].at = "annex" /\ call'[c].letter = n
        /\ call'[c].todo = Annexes[r]
        /\ \A b \in Callers \ {c} : call'[b] = call[b]
    BY <2>1, <2>3 DEF IInv, TypeOK, Calls
  <2> HIDE DEF n, r
  <2>7. ListsAreWhole'
    BY <2>4 DEF Progress, ListsAreWhole
  <2>8. NothingIsLeftOut'
    <3>1. ASSUME NEW b \in Callers \ {c}, call'[b].at = "annex"
          PROVE  letters'[call'[b].letter].annexes
                   \cup (Listed(call'[b].todo) \cap Attachments)
                   = Due(letters'[call'[b].letter].request)
      <4>1. call'[b] = call[b] /\ call[b].letter \in 1 .. Len(letters)
        BY <2>4, <3>1 DEF IInv, HandlersOK
      <4>2. letters'[call'[b].letter] = letters[call[b].letter]
        BY <2>2, <4>1
      <4> QED
        BY <3>1, <4>1, <4>2 DEF Progress, NothingIsLeftOut
    <3>2. letters'[call'[c].letter].annexes
            \cup (Listed(call'[c].todo) \cap Attachments)
            = Due(letters'[call'[c].letter].request)
      BY <2>2, <2>4 DEF Due
    <3> QED
      BY <3>1, <3>2 DEF NothingIsLeftOut
  <2>9. NothingIsForgotten'
    <3>1. ASSUME NEW i \in 1 .. Len(letters'), i = n PROVE InHand(i)'
      BY <2>4, <3>1 DEF InHand, At
    <3>2. ASSUME NEW i \in 1 .. Len(letters) PROVE InHand(i)' \/ Complete(i)'
      <4>1. CASE InHand(i)
        BY <2>4, <4>1 DEF InHand, At, Insert
      <4>2. CASE Complete(i)
        BY <2>2, <4>2 DEF Complete
      <4> QED
        BY <4>1, <4>2 DEF Progress, NothingIsForgotten
    <3>3. \A i \in 1 .. Len(letters') : i = n \/ i \in 1 .. Len(letters)
      BY <2>2
    <3> QED
      BY <3>1, <3>2, <3>3 DEF NothingIsForgotten
  <2> QED
    BY <2>7, <2>8, <2>9 DEF Progress
<1> QED
  BY <1>1, <1>2 DEF Insert

(* One annex of the list of c is dealt with: those that exist are stored.  *)
LEMMA AddAnnexProgress ==
  ASSUME IInv, Progress, NEW c \in Callers, AddAnnex(c)
  PROVE  Progress'
<1> DEFINE l == call[c].letter
           a == Head(call[c].todo)
           new == {a} \cap Attachments
<1>1. /\ call[c] \in Calls /\ l \in 1 .. Len(letters)
      /\ call[c].at = "annex" /\ call[c].todo # <<>>
  BY DEF IInv, TypeOK, HandlersOK, AddAnnex, At, Idle
<1>2. call' = [call EXCEPT ![c].todo = Tail(@)]
  BY DEF AddAnnex, AfterFailedAnnex
<1>3. /\ call'[c].at = "annex" /\ call'[c].letter = l
      /\ call'[c].todo = Tail(call[c].todo)
      /\ \A b \in Callers \ {c} : call'[b] = call[b]
  BY <1>1, <1>2 DEF IInv, TypeOK, Calls
<1>4. /\ Len(letters') = Len(letters)
      /\ letters'[l].annexes = letters[l].annexes \cup new
      /\ \A i \in 1 .. Len(letters) :
           /\ letters'[i].request = letters[i].request
           /\ letters'[i].audited = letters[i].audited
           /\ i # l => letters'[i].annexes = letters[i].annexes
  <2>0. letters \in Seq(Letters) /\ letters[l] \in Letters
    BY <1>1 DEF IInv, TypeOK
  <2>1. CASE UNCHANGED letters /\ a \notin Attachments
    BY <2>1
  <2>2. CASE /\ a \in Attachments
             /\ letters' = [letters EXCEPT ![l].annexes = @ \cup {a}]
    <3> DEFINE row == [letters[l] EXCEPT !.annexes = @ \cup {a}]
    <3>0. row \in Letters /\ letters' = [letters EXCEPT ![l] = row]
      BY <2>0, <2>2 DEF Letters
    <3> HIDE DEF row, a, l
    <3>1. Len(letters') = Len(letters)
      BY <1>1, <2>0, <3>0, UpdatedRow
    <3>2. /\ letters'[l] = row
          /\ \A i \in 1 .. Len(letters) : i # l => letters'[i] = letters[i]
      BY <1>1, <2>0, <3>0, UpdatedRow
    <3>3. /\ letters'[l].annexes = letters[l].annexes \cup {a}
          /\ letters'[l].request = letters[l].request
          /\ letters'[l].audited = letters[l].audited
      BY <2>0, <3>2 DEF Letters, row
    <3>4. new = {a}
      BY <2>2
    <3> QED
      BY <3>1, <3>2, <3>3, <3>4
  <2> QED
    BY <2>1, <2>2 DEF AddAnnex
<1>5. Listed(call[c].todo) = {a} \cup Listed(call'[c].todo)
  BY <1>1, <1>3, ListedTail DEF Calls
<1>6. letters[l].annexes \cup (Listed(call[c].todo) \cap Attachments)
        = Due(letters[l].request)
  BY <1>1 DEF Progress, NothingIsLeftOut
<1>7. new \subseteq Due(letters[l].request)
  BY <1>5, <1>6
<1> HIDE DEF l, a, new
<1>9. ListsAreWhole'
  BY <1>3 DEF Progress, ListsAreWhole
<1>10. NothingIsLeftOut'
  <2>1. ASSUME NEW b \in Callers \ {c}, call'[b].at = "annex"
        PROVE  letters'[call'[b].letter].annexes
                 \cup (Listed(call'[b].todo) \cap Attachments)
                 = Due(letters'[call'[b].letter].request)
    <3>1. call'[b] = call[b] /\ call[b].letter \in 1 .. Len(letters)
      BY <1>3, <2>1 DEF IInv, HandlersOK
    <3>2. letters[call[b].letter].annexes
            \cup (Listed(call[b].todo) \cap Attachments)
            = Due(letters[call[b].letter].request)
      BY <2>1, <3>1 DEF Progress, NothingIsLeftOut
    <3>3. letters'[call'[b].letter].request = letters[call[b].letter].request
      BY <1>4, <3>1
    <3>4. CASE call[b].letter = l
      BY <1>4, <1>7, <3>1, <3>2, <3>3, <3>4
    <3>5. CASE call[b].letter # l
      BY <1>4, <3>1, <3>2, <3>3, <3>5
    <3> QED
      BY <3>4, <3>5
  <2>2. letters'[call'[c].letter].annexes
          \cup (Listed(call'[c].todo) \cap Attachments)
          = Due(letters'[call'[c].letter].request)
    <3>1. letters'[call'[c].letter].request = letters[l].request
      BY <1>1, <1>3, <1>4
    <3> QED
      BY <1>3, <1>4, <1>5, <1>6, <3>1 DEF new
  <2> QED
    BY <2>1, <2>2 DEF NothingIsLeftOut
<1>11. NothingIsForgotten'
  <2>1. ASSUME NEW i \in 1 .. Len(letters) PROVE InHand(i)' \/ Complete(i)'
    <3>1. CASE i = l
      BY <1>3, <3>1 DEF InHand, At
    <3>2. CASE InHand(i)
      <4>1. PICK b \in Callers : call[b].at = "annex" /\ call[b].letter = i
        BY <3>2 DEF InHand, At
      <4>2. call'[b].at = "annex" /\ call'[b].letter = i
        BY <1>3, <4>1 DEF l
      <4> QED
        BY <4>2 DEF InHand, At
    <3>3. CASE i # l /\ Complete(i)
      BY <1>4, <3>3 DEF Complete
    <3> QED
      BY <3>1, <3>2, <3>3 DEF Progress, NothingIsForgotten
  <2> QED
    BY <1>4, <2>1 DEF NothingIsForgotten
<1> QED
  BY <1>9, <1>10, <1>11 DEF Progress

LEMMA AuditProgress ==
  ASSUME IInv, Progress, NEW c \in Callers, Audit(c)
  PROVE  Progress'
<1> DEFINE l == call[c].letter
<1>1. /\ call[c] \in Calls /\ l \in 1 .. Len(letters)
      /\ call[c].at = "annex" /\ call[c].todo = <<>>
  BY DEF IInv, TypeOK, HandlersOK, Audit, At, Idle
<1>2. call'[c].at = "idle" /\ \A b \in Callers \ {c} : call'[b] = call[b]
  BY DEF IInv, TypeOK, Audit, Return, Idle
<1>3. /\ Len(letters') = Len(letters) /\ letters'[l].audited
      /\ \A i \in 1 .. Len(letters) :
           /\ letters'[i].request = letters[i].request
           /\ letters'[i].annexes = letters[i].annexes
           /\ letters[i].audited => letters'[i].audited
  <2>0. letters \in Seq(Letters) /\ letters[l] \in Letters
    BY <1>1 DEF IInv, TypeOK
  <2> DEFINE row == [letters[l] EXCEPT !.audited = TRUE]
  <2>1. row \in Letters /\ letters' = [letters EXCEPT ![l] = row]
    BY <2>0 DEF Audit, Letters
  <2> HIDE DEF row, l
  <2>2. /\ Len(letters') = Len(letters) /\ letters'[l] = row
        /\ \A i \in 1 .. Len(letters) : i # l => letters'[i] = letters[i]
    BY <1>1, <2>0, <2>1, UpdatedRow
  <2>3. /\ letters'[l].request = letters[l].request
        /\ letters'[l].annexes = letters[l].annexes
        /\ letters'[l].audited
    BY <2>0, <2>2 DEF Letters, row
  <2> QED
    BY <2>2, <2>3
<1>4. letters[l].annexes = Due(letters[l].request)
  <2>1. Listed(call[c].todo) = {}
    BY <1>1 DEF Listed
  <2> QED
    BY <1>1, <2>1 DEF Progress, NothingIsLeftOut
<1> HIDE DEF l
<1>6. ListsAreWhole'
  BY <1>2 DEF Progress, ListsAreWhole
<1>7. NothingIsLeftOut'
  <2>1. ASSUME NEW b \in Callers, call'[b].at = "annex"
        PROVE  letters'[call'[b].letter].annexes
                 \cup (Listed(call'[b].todo) \cap Attachments)
                 = Due(letters'[call'[b].letter].request)
    <3>1. /\ b # c /\ call'[b] = call[b] /\ call[b].at = "annex"
          /\ call[b].letter \in 1 .. Len(letters)
      BY <1>2, <2>1 DEF IInv, HandlersOK
    <3> QED
      BY <1>3, <3>1 DEF Progress, NothingIsLeftOut
  <2> QED
    BY <2>1 DEF NothingIsLeftOut
<1>8. NothingIsForgotten'
  <2>1. ASSUME NEW i \in 1 .. Len(letters) PROVE InHand(i)' \/ Complete(i)'
    <3>1. CASE i = l
      BY <1>1, <1>3, <1>4, <3>1 DEF Complete
    <3>2. CASE i # l /\ InHand(i)
      <4>1. PICK b \in Callers : call[b].at = "annex" /\ call[b].letter = i
        BY <3>2 DEF InHand, At
      <4> QED
        BY <1>2, <3>2, <4>1 DEF InHand, At, l
    <3>3. CASE Complete(i)
      BY <1>3, <3>3 DEF Complete
    <3> QED
      BY <3>1, <3>2, <3>3 DEF Progress, NothingIsForgotten
  <2> QED
    BY <1>3, <2>1 DEF NothingIsForgotten
<1> QED
  BY <1>6, <1>7, <1>8 DEF Progress

LEMMA StepProgress ==
  ASSUME IInv, Progress, NEW c \in Callers, Step(c)
  PROVE  Progress'
<1>1. CASE InsertApplicant(c)
  BY <1>1, RefuseProgress DEF InsertApplicant, At, Refuse
<1>2. CASE LookUp(c)
  <2>1. CASE call' = [call EXCEPT ![c] = Idle]
    BY <1>2, <2>1, RefuseProgress DEF LookUp, At
  <2>2. CASE Proceed(c, "verify")
    BY <1>2, <2>2, ProceedProgress DEF LookUp, At, Statements
  <2> QED
    BY <1>2, <2>1, <2>2 DEF LookUp, Return
<1>3. CASE Verify(c)
  <2>1. CASE Refuse(c)
    BY <1>3, <2>1, RefuseProgress DEF Verify, At, Refuse
  <2>2. CASE Proceed(c, "insert")
    BY <1>3, <2>2, ProceedProgress DEF Verify, At, Statements
  <2> QED
    BY <1>3, <2>1, <2>2 DEF Verify
<1> QED
  BY <1>1, <1>2, <1>3, InsertProgress, AddAnnexProgress, AuditProgress DEF Step

LEMMA InitPInv == Init => PInv
BY DEF Init, PInv, Progress, ListsAreWhole, NothingIsLeftOut,
       NothingIsForgotten, Idle

LEMMA NextPInv == IInv /\ PInv /\ [Next]_vars => PInv'
<1> SUFFICES ASSUME IInv, PInv, [Next]_vars, faults' = 0 PROVE Progress'
  BY DEF PInv
<1>0. faults \in Nat
  BY DEF IInv, TypeOK
<1>1. ~ Crash /\ \A c \in Callers : ~ StatementFails(c)
  BY <1>0 DEF Crash, StatementFails
<1>2. faults = 0
  BY <1>1 DEF Next, vars, Send, Step, InsertApplicant, LookUp, Verify, Insert,
              AddAnnex, Audit
<1>3. Progress
  BY <1>2 DEF PInv
<1>4. CASE UNCHANGED vars
  BY <1>3, <1>4 DEF vars, Progress, ListsAreWhole, NothingIsLeftOut,
                    NothingIsForgotten, InHand, At, Complete
<1> QED
  BY <1>1, <1>3, <1>4, SendProgress, StepProgress DEF Next

(* When every handler has answered, each letter that was entered has all   *)
(* the annexes that exist and its CREATED entry, however the sendings of   *)
(* its request were interleaved; only a fault can cost it one.             *)
THEOREM LettersAreAlwaysComplete == Spec => []LettersAreComplete
<1>1. IInv /\ PInv => LettersAreComplete
  <2> SUFFICES ASSUME IInv, PInv, faults = 0, NEW i \in 1 .. Len(letters),
                      Quiet(letters[i].request)
               PROVE  Complete(i)
    BY DEF LettersAreComplete, Complete, Due, Listed
  <2>1. ~ InHand(i)
    BY DEF InHand, At, Quiet, IInv, HandlersOK
  <2> QED
    BY <2>1 DEF PInv, Progress, NothingIsForgotten
<1> QED
  BY <1>1, InitPInv, NextPInv, IntakeInvariant, PTL DEF Spec
=============================================================================
