------------------------ MODULE ChalaniLifecycle_proof ------------------------
(***************************************************************************)
(* What the mock database of outgoing letters guarantees for any seeds,    *)
(* numbers and bounds.  Every mutation of a letter has the same shape      *)
(* (Effect): one status, one entry, and for a superseded letter a copy.    *)
(***************************************************************************)
EXTENDS ChalaniLifecycle, TLAPS

LEMMA OnwardFacts ==
  ASSUME NEW s \in Statuses
  PROVE  /\ Onward[s] \subseteq Statuses \ Marks
         /\ s \in Ended => Onward[s] = {}
  BY DEF Onward, Statuses, Marks, Ended

(* A letter x becomes y by a move to the status to.                        *)
Effect(x, to, y) ==
  /\ to \in Onward[x.status] \cup Marks
  /\ y \in Letters
  /\ y.status = to
  /\ y.supersedes = x.supersedes
  /\ y.number = x.number \/ to = "NUMBER_RESERVED"
  /\ y.auditTrail = Append(x.auditTrail, [from |-> x.status, to |-> to])

Copy(l) == Created([letters[l] EXCEPT !.supersedes = l])

Outcome(l, to, y) ==
  /\ Effect(letters[l], to, y)
  /\ letters' = IF to = "SUPERSEDED"
                THEN Append([letters EXCEPT ![l] = y], Copy(l))
                ELSE [letters EXCEPT ![l] = y]

LEMMA MovedEffect ==
  ASSUME NEW x \in Letters, NEW to \in Onward[x.status] \cup Marks
  PROVE  /\ Moved(x, to) \in Letters
         /\ Effect(x, to, Moved(x, to))
<1>1. x.status \in Statuses /\ x.auditTrail \in Seq(Entries)
  BY DEF Letters
<1>2. to \in Statuses
  BY <1>1, OnwardFacts DEF Marks, Statuses
<1>3. [from |-> x.status, to |-> to] \in Entries
  BY <1>1, <1>2 DEF Entries
<1>4. Append(x.auditTrail, [from |-> x.status, to |-> to]) \in Seq(Entries)
  BY <1>1, <1>3
<1> QED
  BY <1>2, <1>4 DEF Moved, Effect, Letters

LEMMA ChangeHasOutcome ==
  ASSUME TypeOK, NEW l \in DOMAIN letters, Change(l)
  PROVE  \E to, y : Outcome(l, to, y)
<1> DEFINE x == letters[l]
<1>1. x \in Letters
  BY DEF TypeOK
<1>2. x.status \in Statuses
  BY <1>1 DEF Letters
<1>3. \A to : May(l, to) => to \in Onward[x.status] /\ to # "SUPERSEDED"
  BY <1>2, OnwardFacts DEF May, Marks
<1>4. CASE Move(l)
  <2>1. PICK to : May(l, to) /\ letters' = [letters EXCEPT ![l] = Moved(x, to)]
    BY <1>4 DEF Move
  <2>2. Outcome(l, to, Moved(x, to))
    BY <1>1, <1>3, <2>1, MovedEffect DEF Outcome
  <2> QED
    BY <2>2
<1>5. CASE Reserve(l)
  <2>1. PICK n \in Numbers :
          letters' = [letters EXCEPT
                        ![l] = [Moved(x, "NUMBER_RESERVED") EXCEPT !.number = n]]
    BY <1>5 DEF Reserve
  <2>2. May(l, "NUMBER_RESERVED")
    BY <1>5 DEF Reserve
  <2> DEFINE y == [Moved(x, "NUMBER_RESERVED") EXCEPT !.number = n]
  <2>3. Effect(x, "NUMBER_RESERVED", Moved(x, "NUMBER_RESERVED"))
    BY <1>1, <1>3, <2>2, MovedEffect
  <2>4. Effect(x, "NUMBER_RESERVED", y)
    BY <2>3 DEF Effect, Letters
  <2>5. Outcome(l, "NUMBER_RESERVED", y)
    BY <2>1, <2>4 DEF Outcome
  <2> QED
    BY <2>5
<1>6. CASE Dispatch(l)
  <2> DEFINE y == [Moved(x, "DISPATCHED") EXCEPT !.channel = TRUE]
  <2>1. May(l, "DISPATCHED") /\ letters' = [letters EXCEPT ![l] = y]
    BY <1>6 DEF Dispatch
  <2>2. Effect(x, "DISPATCHED", Moved(x, "DISPATCHED"))
    BY <1>1, <1>3, <2>1, MovedEffect
  <2>3. Effect(x, "DISPATCHED", y)
    BY <2>2 DEF Effect, Letters
  <2>4. Outcome(l, "DISPATCHED", y)
    BY <2>1, <2>3 DEF Outcome
  <2> QED
    BY <2>4
<1>7. CASE Acknowledge(l)
  <2> DEFINE y == [Moved(x, "ACKNOWLEDGED") EXCEPT !.isAcknowledged = TRUE]
  <2>1. May(l, "ACKNOWLEDGED") /\ letters' = [letters EXCEPT ![l] = y]
    BY <1>7 DEF Acknowledge
  <2>2. Effect(x, "ACKNOWLEDGED", Moved(x, "ACKNOWLEDGED"))
    BY <1>1, <1>3, <2>1, MovedEffect
  <2>3. Effect(x, "ACKNOWLEDGED", y)
    BY <2>2 DEF Effect, Letters
  <2>4. Outcome(l, "ACKNOWLEDGED", y)
    BY <2>1, <2>3 DEF Outcome
  <2> QED
    BY <2>4
<1>8. CASE Resend(l)
  <2>1. May(l, "DISPATCHED")
          /\ letters' = [letters EXCEPT ![l] = Moved(x, "DISPATCHED")]
    BY <1>8 DEF Resend
  <2>2. Outcome(l, "DISPATCHED", Moved(x, "DISPATCHED"))
    BY <1>1, <1>3, <2>1, MovedEffect DEF Outcome
  <2> QED
    BY <2>2
<1>9. CASE Void(l)
  <2>1. letters' = [letters EXCEPT ![l] = Moved(x, "VOIDED")]
    BY <1>9 DEF Void
  <2>2. Outcome(l, "VOIDED", Moved(x, "VOIDED"))
    BY <1>1, <2>1, MovedEffect DEF Outcome, Marks
  <2> QED
    BY <2>2
<1>10. CASE Supersede(l)
  <2>1. letters' = Append([letters EXCEPT ![l] = Moved(x, "SUPERSEDED")],
                          Copy(l))
    BY <1>10 DEF Supersede, Copy
  <2>2. Outcome(l, "SUPERSEDED", Moved(x, "SUPERSEDED"))
    BY <1>1, <2>1, MovedEffect DEF Outcome, Marks
  <2> QED
    BY <2>2
<1> QED
  BY <1>4, <1>5, <1>6, <1>7, <1>8, <1>9, <1>10 DEF Change

-----------------------------------------------------------------------------
(* Letters are only ever added at the end, and changed where they are.     *)

LEMMA CopyFacts ==
  ASSUME TypeOK, NEW l \in DOMAIN letters
  PROVE  /\ Copy(l) \in Letters
         /\ Copy(l).supersedes = l
         /\ Copy(l).status = "DRAFT"
         /\ Copy(l).auditTrail = <<[from |-> NoStatus, to |-> "DRAFT"]>>
<1>1. letters[l] \in Letters /\ l \in Nat
  BY DEF TypeOK
<1>2. [from |-> NoStatus, to |-> "DRAFT"] \in Entries
  BY DEF Entries, Statuses
<1>3. <<[from |-> NoStatus, to |-> "DRAFT"]>> \in Seq(Entries)
  BY <1>2
<1> QED
  BY <1>1, <1>3 DEF Copy, Created, Letters, Statuses

LEMMA BlankFacts ==
  /\ Created(Blank) \in Letters
  /\ Created(Blank).auditTrail = <<[from |-> NoStatus, to |-> "DRAFT"]>>
  /\ Created(Blank).status = "DRAFT"
<1>1. [from |-> NoStatus, to |-> "DRAFT"] \in Entries
  BY DEF Entries, Statuses
<1>2. <<[from |-> NoStatus, to |-> "DRAFT"]>> \in Seq(Entries)
  BY <1>1
<1> QED
  BY <1>2 DEF Created, Blank, Letters, Statuses, Nothing

LEMMA OutcomeLetters ==
  ASSUME TypeOK, NEW l \in DOMAIN letters, NEW to, NEW y, Outcome(l, to, y)
  PROVE  /\ letters' \in Seq(Letters)
         /\ DOMAIN letters \subseteq DOMAIN letters'
         /\ \A m \in DOMAIN letters :
              letters'[m] = IF m = l THEN y ELSE letters[m]
         /\ \A m \in DOMAIN letters' \ DOMAIN letters :
              letters'[m] = Copy(l)
         /\ to = "SUPERSEDED" => Len(letters) + 1 \in DOMAIN letters'
<1> DEFINE s == [letters EXCEPT ![l] = y]
<1>1. y \in Letters
  BY DEF Outcome, Effect
<1>2. s \in Seq(Letters) /\ Len(s) = Len(letters)
  BY <1>1 DEF TypeOK
<1>3. \A m \in DOMAIN letters : s[m] = IF m = l THEN y ELSE letters[m]
  BY DEF TypeOK
<1>4. CASE to = "SUPERSEDED"
  <2>1. letters' = Append(s, Copy(l))
    BY <1>4 DEF Outcome
  <2> HIDE DEF s
  <2> QED
    BY <1>2, <1>3, <2>1, CopyFacts DEF TypeOK
<1>5. CASE to # "SUPERSEDED"
  <2>1. letters' = s
    BY <1>5 DEF Outcome
  <2> HIDE DEF s
  <2> QED
    BY <1>2, <1>3, <1>5, <2>1 DEF TypeOK
<1> QED
  BY <1>4, <1>5

LEMMA CreateLetters ==
  ASSUME TypeOK, Create
  PROVE  /\ letters' \in Seq(Letters)
         /\ DOMAIN letters \subseteq DOMAIN letters'
         /\ \A m \in DOMAIN letters : letters'[m] = letters[m]
         /\ \A m \in DOMAIN letters' \ DOMAIN letters :
              letters'[m] = Created(Blank)
<1>1. letters' = Append(letters, Created(Blank))
  BY DEF Create
<1> QED
  BY <1>1, BlankFacts DEF TypeOK

LEMMA TypeStep == TypeOK /\ [Next]_vars => TypeOK'
<1> SUFFICES ASSUME TypeOK, [Next]_vars PROVE TypeOK'
  OBVIOUS
<1>1. CASE Create
  BY <1>1, CreateLetters, LifecycleAssumption DEF Create, Counted, TypeOK
<1>2. ASSUME NEW l \in DOMAIN letters, Change(l) PROVE TypeOK'
  <2>1. letters' \in Seq(Letters)
    BY <1>2, ChangeHasOutcome, OutcomeLetters
  <2>2. Counted
    BY <1>2 DEF Change, Move, Reserve, Dispatch, Acknowledge, Resend, Void,
                Supersede
  <2> QED
    BY <2>1, <2>2, LifecycleAssumption DEF Counted, TypeOK
<1>3. CASE UNCHANGED vars
  BY <1>3 DEF vars, TypeOK
<1> QED
  BY <1>1, <1>2, <1>3 DEF Next

-----------------------------------------------------------------------------
(* The audit trail.                                                        *)

LEMMA EffectWalks ==
  ASSUME NEW x \in Letters, NEW to, NEW y, Effect(x, to, y), Walk(x)
  PROVE  Walk(y)
<1> DEFINE t == x.auditTrail
           e == [from |-> x.status, to |-> to]
<1>1. t \in Seq(Entries) /\ x.status \in Statuses /\ to \in Statuses
  BY OnwardFacts DEF Letters, Effect, Marks, Statuses
<1>2. y.auditTrail = Append(t, e) /\ y.status = to
  BY DEF Effect
<1>3. Follows(e)
  BY <1>1 DEF Follows, Effect, Marks
<1>4. t # <<>> => t[Len(t)].to = e.from
  BY DEF Walk
<1>5. /\ Len(Append(t, e)) = Len(t) + 1
      /\ Append(t, e)[Len(t) + 1] = e
      /\ \A i \in 1 .. Len(t) : Append(t, e)[i] = t[i]
      /\ DOMAIN Append(t, e) = 1 .. Len(t) + 1
      /\ DOMAIN t = 1 .. Len(t) /\ Len(t) \in Nat
      /\ t = <<>> <=> Len(t) = 0
  BY <1>1
<1>6. /\ \A i \in DOMAIN t : Follows(t[i])
      /\ \A i \in DOMAIN t \ {1} : t[i].from = t[i - 1].to
  BY DEF Walk
<1>7. e.to = to /\ e.from = x.status
  OBVIOUS
<1> HIDE DEF t, e
<1>8. \A i \in 1 .. Len(t) + 1 : Follows(Append(t, e)[i])
  BY <1>3, <1>5, <1>6
<1>9. \A i \in (1 .. Len(t) + 1) \ {1} :
         Append(t, e)[i].from = Append(t, e)[i - 1].to
  <2> TAKE i \in (1 .. Len(t) + 1) \ {1}
  <2>1. CASE i = Len(t) + 1
    <3>1. Len(t) \in 1 .. Len(t) /\ i - 1 = Len(t)
      BY <1>5, <2>1
    <3>2. Append(t, e)[i] = e /\ Append(t, e)[i - 1] = t[Len(t)]
      BY <1>5, <2>1, <3>1
    <3> QED
      BY <1>4, <1>5, <3>1, <3>2
  <2>2. CASE i # Len(t) + 1
    BY <1>5, <1>6, <2>2
  <2> QED
    BY <2>1, <2>2
<1> QED
  BY <1>2, <1>5, <1>7, <1>8, <1>9 DEF Walk

LEMMA NewWalks ==
  ASSUME NEW x, x.status = "DRAFT",
         x.auditTrail = <<[from |-> NoStatus, to |-> "DRAFT"]>>
  PROVE  Walk(x)
  BY DEF Walk, Follows

(* A letter that is superseded has a successor among the letters.          *)
Superseded(x) ==
  "SUPERSEDED" \in {x.auditTrail[i].to : i \in DOMAIN x.auditTrail}

IInv == /\ TypeOK /\ AuditIsAWalk /\ SupersededHasSuccessor
        /\ EndedNeverMovesOn /\ ReplacedStaysBehind

LEMMA WalkStep == TypeOK /\ AuditIsAWalk /\ [Next]_vars => AuditIsAWalk'
<1> SUFFICES ASSUME TypeOK, AuditIsAWalk, [Next]_vars,
                    NEW m \in DOMAIN letters'
             PROVE  Walk(letters'[m])
  BY DEF AuditIsAWalk, Walk
<1>1. CASE Create
  BY <1>1, CreateLetters, BlankFacts, NewWalks DEF AuditIsAWalk
<1>2. ASSUME NEW l \in DOMAIN letters, Change(l) PROVE Walk(letters'[m])
  <2>1. PICK to, y : Outcome(l, to, y)
    BY <1>2, ChangeHasOutcome
  <2>2. Walk(y)
    <3>1. letters[l] \in Letters /\ Walk(letters[l])
      BY DEF TypeOK, AuditIsAWalk
    <3> QED
      BY <2>1, <3>1, EffectWalks DEF Outcome
  <2>3. Walk(Copy(l))
    BY CopyFacts, NewWalks
  <2>4. CASE m \in DOMAIN letters
    BY <2>1, <2>2, <2>4, OutcomeLetters DEF AuditIsAWalk
  <2>5. CASE m \notin DOMAIN letters
    BY <2>1, <2>3, <2>5, OutcomeLetters
  <2> QED
    BY <2>4, <2>5
<1>3. CASE UNCHANGED vars
  BY <1>3 DEF vars, AuditIsAWalk
<1> QED
  BY <1>1, <1>2, <1>3 DEF Next

LEMMA SuccessorStep ==
  TypeOK /\ SupersededHasSuccessor /\ [Next]_vars => SupersededHasSuccessor'
<1> SUFFICES ASSUME TypeOK, SupersededHasSuccessor, [Next]_vars,
                    NEW k \in DOMAIN letters', Superseded(letters'[k])
             PROVE  \E m \in DOMAIN letters' : m > k /\ letters'[m].supersedes = k
  BY DEF SupersededHasSuccessor, Superseded
<1>0. \A j \in DOMAIN letters :
        Superseded(letters[j])
          => \E m \in DOMAIN letters : m > j /\ letters[m].supersedes = j
  BY DEF SupersededHasSuccessor, Superseded
<1>1. CASE Create
  <2>1. ~ Superseded(Created(Blank))
    BY BlankFacts DEF Superseded
  <2> QED
    BY <1>0, <1>1, <2>1, CreateLetters
<1>2. ASSUME NEW l \in DOMAIN letters, Change(l)
      PROVE  \E m \in DOMAIN letters' : m > k /\ letters'[m].supersedes = k
  <2>1. PICK to, y : Outcome(l, to, y)
    BY <1>2, ChangeHasOutcome
  <2>2. ~ Superseded(Copy(l))
    BY CopyFacts DEF Superseded
  <2>3. k \in DOMAIN letters
    BY <2>1, <2>2, OutcomeLetters
  <2>4. y.supersedes = letters[l].supersedes
    BY <2>1 DEF Outcome, Effect
  <2>5. CASE Superseded(letters[k])
    BY <1>0, <2>1, <2>3, <2>4, <2>5, OutcomeLetters
  <2>6. CASE ~ Superseded(letters[k])
    <3>1. k = l
      BY <2>1, <2>3, <2>6, OutcomeLetters
    <3>2. to = "SUPERSEDED"
      <4>1. Superseded(y) /\ ~ Superseded(letters[l])
        BY <2>1, <2>3, <2>6, <3>1, OutcomeLetters
      <4>0. letters[l] \in Letters
        BY DEF TypeOK
      <4>2. letters[l].auditTrail \in Seq(Entries)
        BY <4>0 DEF Letters
      <4>3. y.auditTrail = Append(letters[l].auditTrail,
                                  [from |-> letters[l].status, to |-> to])
        BY <2>1 DEF Outcome, Effect
      <4> QED
        BY <4>1, <4>2, <4>3 DEF Superseded
    <3>3. /\ Len(letters) + 1 \in DOMAIN letters'
          /\ letters'[Len(letters) + 1] = Copy(l)
          /\ Len(letters) + 1 > l
      BY <2>1, <3>2, OutcomeLetters DEF TypeOK
    <3> QED
      BY <3>1, <3>3, CopyFacts
  <2> QED
    BY <2>5, <2>6
<1>3. CASE UNCHANGED vars
  BY <1>0, <1>3 DEF vars
<1> QED
  BY <1>1, <1>2, <1>3 DEF Next

(* Nothing leads on from an end, where the trail of an ended letter is.     *)
LEMMA EffectStaysEnded ==
  ASSUME NEW x \in Letters, NEW to, NEW y, Effect(x, to, y), Walk(x),
         StaysEnded(x.auditTrail)
  PROVE  StaysEnded(y.auditTrail)
<1> DEFINE t == x.auditTrail
           e == [from |-> x.status, to |-> to]
<1>1. t \in Seq(Entries) /\ x.status \in Statuses
  BY DEF Letters
<1>2. y.auditTrail = Append(t, e)
  BY DEF Effect
<1>3. t # <<>> => t[Len(t)].to = x.status
  BY DEF Walk
<1>4. \A i, j \in DOMAIN t : i < j /\ t[i].to \in Ended => t[j].to \in Marks
  BY DEF StaysEnded
<1>5. x.status \in Ended => to \in Marks
  BY <1>1, OnwardFacts DEF Effect
<1>6. /\ Append(t, e)[Len(t) + 1] = e /\ e.to = to
      /\ \A i \in 1 .. Len(t) : Append(t, e)[i] = t[i]
      /\ DOMAIN Append(t, e) = 1 .. Len(t) + 1
      /\ DOMAIN t = 1 .. Len(t) /\ Len(t) \in Nat
      /\ t = <<>> <=> Len(t) = 0
  BY <1>1
<1>7. Marks \subseteq Ended /\ Len(t) \in Nat
  BY <1>1 DEF Ended
<1> HIDE DEF t, e
<1>8. \A i \in 1 .. Len(t) : t[i].to \in Ended => x.status \in Ended
  <2> TAKE i \in 1 .. Len(t)
  <2>1. CASE i = Len(t)
    BY <1>3, <1>6, <2>1
  <2>2. CASE i # Len(t)
    <3>1. i < Len(t) /\ Len(t) \in 1 .. Len(t)
      BY <1>7, <2>2
    <3>2. t[i].to \in Ended => t[Len(t)].to \in Ended
      BY <1>4, <1>6, <1>7, <3>1
    <3>3. t[Len(t)].to = x.status
      BY <1>3, <1>6, <3>1
    <3> QED
      BY <3>2, <3>3
  <2> QED
    BY <2>1, <2>2
<1>9. ASSUME NEW i \in 1 .. Len(t) + 1, NEW j \in 1 .. Len(t) + 1, i < j,
             Append(t, e)[i].to \in Ended
      PROVE  Append(t, e)[j].to \in Marks
  <2>1. i \in 1 .. Len(t) /\ Append(t, e)[i] = t[i]
    BY <1>6, <1>9
  <2>2. CASE j = Len(t) + 1
    BY <1>5, <1>6, <1>8, <1>9, <2>1, <2>2
  <2>3. CASE j # Len(t) + 1
    BY <1>4, <1>6, <1>9, <2>1, <2>3
  <2> QED
    BY <2>2, <2>3
<1> QED
  BY <1>2, <1>6, <1>9 DEF StaysEnded

LEMMA EndStep ==
  TypeOK /\ AuditIsAWalk /\ EndedNeverMovesOn /\ [Next]_vars
    => EndedNeverMovesOn'
<1> SUFFICES ASSUME TypeOK, AuditIsAWalk, EndedNeverMovesOn, [Next]_vars,
                    NEW m \in DOMAIN letters'
             PROVE  StaysEnded(letters'[m].auditTrail)
  BY DEF EndedNeverMovesOn, StaysEnded
<1>1. ASSUME NEW x, x.auditTrail = <<[from |-> NoStatus, to |-> "DRAFT"]>>
      PROVE  StaysEnded(x.auditTrail)
  BY <1>1 DEF StaysEnded
<1>2. CASE Create
  BY <1>1, <1>2, CreateLetters, BlankFacts DEF EndedNeverMovesOn
<1>3. ASSUME NEW l \in DOMAIN letters, Change(l)
      PROVE  StaysEnded(letters'[m].auditTrail)
  <2>1. PICK to, y : Outcome(l, to, y)
    BY <1>3, ChangeHasOutcome
  <2>2. StaysEnded(y.auditTrail)
    <3>1. /\ letters[l] \in Letters /\ Walk(letters[l])
          /\ StaysEnded(letters[l].auditTrail)
      BY DEF TypeOK, AuditIsAWalk, EndedNeverMovesOn
    <3> QED
      BY <2>1, <3>1, EffectStaysEnded DEF Outcome
  <2>3. StaysEnded(Copy(l).auditTrail)
    BY <1>1, CopyFacts
  <2> QED
    BY <2>1, <2>2, <2>3, OutcomeLetters DEF EndedNeverMovesOn
<1>4. CASE UNCHANGED vars
  BY <1>4 DEF vars, EndedNeverMovesOn
<1> QED
  BY <1>2, <1>3, <1>4 DEF Next

LEMMA ReplacedStep ==
  TypeOK /\ ReplacedStaysBehind /\ [Next]_vars => ReplacedStaysBehind'
<1> DEFINE Behind(old, m) ==
      old \in 1 .. m - 1 /\ letters'[old].status \in Marks
<1> SUFFICES ASSUME TypeOK, ReplacedStaysBehind, [Next]_vars,
                    NEW m \in DOMAIN letters',
                    letters'[m].supersedes # Nothing
             PROVE  Behind(letters'[m].supersedes, m)
  BY DEF ReplacedStaysBehind
<1>1. \A k \in DOMAIN letters :
        letters[k].supersedes # Nothing =>
          /\ letters[k].supersedes \in 1 .. k - 1
          /\ letters[k].supersedes \in DOMAIN letters
          /\ letters[letters[k].supersedes].status \in Marks
  BY DEF ReplacedStaysBehind, TypeOK
<1>2. CASE Create
  <2>1. Created(Blank).supersedes = Nothing
    BY DEF Created, Blank
  <2> QED
    BY <1>1, <1>2, <2>1, CreateLetters
<1>3. ASSUME NEW l \in DOMAIN letters, Change(l)
      PROVE  Behind(letters'[m].supersedes, m)
  <2>1. PICK to, y : Outcome(l, to, y)
    BY <1>3, ChangeHasOutcome
  <2>2. y.status = to /\ y.supersedes = letters[l].supersedes
    BY <2>1 DEF Outcome, Effect
  <2>3. letters[l].status \in Marks => to \in Marks
    <3>1. letters[l] \in Letters
      BY DEF TypeOK
    <3>2. letters[l].status \in Statuses
      BY <3>1 DEF Letters
    <3> QED
      BY <2>1, <3>2, OnwardFacts DEF Outcome, Effect, Ended
  <2>4. \A k \in DOMAIN letters :
          letters[k].status \in Marks => letters'[k].status \in Marks
    BY <2>1, <2>2, <2>3, OutcomeLetters
  <2>5. CASE m \in DOMAIN letters
    <3>1. letters'[m].supersedes = letters[m].supersedes
      BY <2>1, <2>2, <2>5, OutcomeLetters
    <3> QED
      BY <1>1, <2>4, <2>5, <3>1
  <2>6. CASE m \notin DOMAIN letters
    <3>1. letters'[m].supersedes = l
      BY <2>1, <2>6, OutcomeLetters, CopyFacts
    <3>2. to = "SUPERSEDED"
      BY <2>1, <2>6 DEF Outcome, TypeOK
    <3>3. letters'[l].status \in Marks
      BY <2>1, <2>2, <3>2, OutcomeLetters DEF Marks
    <3>4. l \in 1 .. m - 1
      BY <2>1, <2>6, OutcomeLetters DEF TypeOK
    <3> QED
      BY <3>1, <3>3, <3>4
  <2> QED
    BY <2>5, <2>6
<1>4. CASE UNCHANGED vars
  BY <1>1, <1>4 DEF vars
<1> QED
  BY <1>2, <1>3, <1>4 DEF Next

(* Types, trails and successors are kept by every mutation together.       *)
THEOREM LifecycleInvariant == Spec => []IInv
<1>1. Init => IInv
  <2> SUFFICES ASSUME Init PROVE IInv
    OBVIOUS
  <2>1. TypeOK
    BY LifecycleAssumption DEF Init, TypeOK
  <2>2. \A l \in DOMAIN letters : letters[l].auditTrail = <<>>
    BY LifecycleAssumption DEF Init
  <2>3. AuditIsAWalk
    BY <2>2 DEF AuditIsAWalk, Walk
  <2>4. SupersededHasSuccessor
    BY <2>2 DEF SupersededHasSuccessor
  <2>5. EndedNeverMovesOn /\ ReplacedStaysBehind
    <3>1. \A l \in DOMAIN letters : letters[l].supersedes = Nothing
      BY LifecycleAssumption DEF Init
    <3> QED
      BY <2>2, <3>1 DEF EndedNeverMovesOn, StaysEnded, ReplacedStaysBehind
  <2> QED
    BY <2>1, <2>3, <2>4, <2>5 DEF IInv
<1>2. IInv /\ [Next]_vars => IInv'
  BY TypeStep, WalkStep, SuccessorStep, EndStep, ReplacedStep DEF IInv
<1> QED
  BY <1>1, <1>2, PTL DEF Spec

(* Every letter is one, with a status of the table, in every state.        *)
THEOREM TypeCorrect == Spec => []TypeOK
  BY LifecycleInvariant, PTL DEF IInv

(* The audit trail of every letter is a gapless walk along the table       *)
(* (recordAudit and assertTransition), voiding and superseding apart.      *)
THEOREM AuditIsAlwaysAWalk == Spec => []AuditIsAWalk
  BY LifecycleInvariant, PTL DEF IInv

(* A letter that was ever superseded has a successor (supersedeChalani).   *)
THEOREM SupersededAlwaysHasSuccessor == Spec => []SupersededHasSuccessor
  BY LifecycleInvariant, PTL DEF IInv

(* However often a voided, superseded or closed letter is voided or        *)
(* superseded again, its trail tells nothing else from then on             *)
(* (assertTransition in every other mutation).                             *)
THEOREM EndedIsAlwaysEnded == Spec => []EndedNeverMovesOn
  BY LifecycleInvariant, PTL DEF IInv

(* A letter with a successor stays superseded or void (supersedeChalani).  *)
THEOREM ReplacedAlwaysStaysBehind == Spec => []ReplacedStaysBehind
  BY LifecycleInvariant, PTL DEF IInv

-----------------------------------------------------------------------------
(* What a letter has been through since it was last a draft.               *)

LEMMA SinceDraftAppend ==
  ASSUME NEW t \in Seq(Entries), NEW e \in Entries
  PROVE  SinceDraft(Append(t, e)) =
           IF e.to = "DRAFT" THEN {} ELSE SinceDraft(t) \cup {e.to}
<1> DEFINE n == Len(t) + 1
           u == Append(t, e)
<1>1. /\ Len(t) \in Nat /\ DOMAIN t = 1 .. Len(t)
      /\ DOMAIN u = 1 .. n /\ u[n] = e
      /\ \A i \in 1 .. Len(t) : u[i] = t[i]
  OBVIOUS
<1>2. \A i \in 1 .. n : i # n => i \in 1 .. Len(t) /\ i < n
  BY <1>1
<1>3. \A i \in 1 .. Len(t) : i \in 1 .. n
  BY <1>1
<1> HIDE DEF n, u
<1>4. CASE e.to = "DRAFT"
  <2>1. \A i \in 1 .. n : u[n].to = "DRAFT" /\ ~ (n < i)
    BY <1>1, <1>2, <1>4 DEF n
  <2>2. n \in 1 .. n
    BY <1>1 DEF n
  <2> QED
    BY <1>1, <1>4, <2>1, <2>2 DEF SinceDraft, u
<1>5. CASE e.to # "DRAFT"
  <2> DEFINE late(s, m, i) == \A k \in 1 .. m : s[k].to = "DRAFT" => k < i
  <2>1. late(u, n, n) /\ n \in 1 .. n
    BY <1>1, <1>2, <1>5 DEF n
  <2>2. \A i \in 1 .. Len(t) : late(u, n, i) <=> late(t, Len(t), i)
    BY <1>1, <1>2, <1>3, <1>5
  <2>3. SinceDraft(u) = {u[i].to : i \in {j \in 1 .. n : late(u, n, j)}}
    BY <1>1 DEF SinceDraft
  <2>4. SinceDraft(t) = {t[i].to : i \in {j \in 1 .. Len(t) : late(t, Len(t), j)}}
    BY <1>1 DEF SinceDraft
  <2> HIDE DEF late
  <2> QED
    BY <1>1, <1>2, <1>3, <1>5, <2>1, <2>2, <2>3, <2>4 DEF u
<1> QED
  BY <1>4, <1>5

LEMMA FreshTrail ==
  SinceDraft(<<[from |-> NoStatus, to |-> "DRAFT"]>>) = {}
<1>1. [from |-> NoStatus, to |-> "DRAFT"] \in Entries
  BY DEF Entries, Statuses
<1>2. Append(<<>>, [from |-> NoStatus, to |-> "DRAFT"])
        = <<[from |-> NoStatus, to |-> "DRAFT"]>>
  OBVIOUS
<1>3. <<>> \in Seq(Entries)
  OBVIOUS
<1> QED
  BY <1>1, <1>2, <1>3, SinceDraftAppend

(* Whatever the mutation, a letter stays as it is, moves, or is new.       *)
LEMMA LetterStep ==
  ASSUME TypeOK, [Next]_vars, NEW m \in DOMAIN letters'
  PROVE  \/ m \in DOMAIN letters /\ letters'[m] = letters[m]
         \/ m \in DOMAIN letters /\ \E to : Effect(letters[m], to, letters'[m])
         \/ letters'[m] = Created(Blank)
         \/ \E l \in DOMAIN letters : letters'[m] = Copy(l)
<1>1. CASE Create
  BY <1>1, CreateLetters
<1>2. ASSUME NEW l \in DOMAIN letters, Change(l)
      PROVE  \/ m \in DOMAIN letters /\ letters'[m] = letters[m]
             \/ m \in DOMAIN letters /\ \E to : Effect(letters[m], to, letters'[m])
             \/ letters'[m] = Copy(l)
  <2>1. PICK to, y : Outcome(l, to, y)
    BY <1>2, ChangeHasOutcome
  <2> QED
    BY <2>1, OutcomeLetters DEF Outcome
<1>3. CASE UNCHANGED vars
  BY <1>3 DEF vars
<1> QED
  BY <1>1, <1>2, <1>3 DEF Next

(* The stages a letter in a status has passed since it was last a draft.   *)
Passed(s) ==
  CASE s \in {"DRAFT", "PENDING_REVIEW", "VOIDED", "SUPERSEDED"} -> {}
    [] s = "PENDING_APPROVAL" -> {"PENDING_APPROVAL"}
    [] s \in {"APPROVED", "NUMBER_RESERVED"} -> {"PENDING_APPROVAL", "APPROVED"}
    [] OTHER -> {"PENDING_APPROVAL", "APPROVED", "REGISTERED"}

(* One step along the table passes one stage.                              *)
LEMMA PassedOneMore ==
  ASSUME NEW s \in Statuses, NEW to \in Onward[s] \cup Marks
  PROVE  /\ Passed(to) \subseteq Passed(s) \cup {to}
         /\ to = "DRAFT" => Passed(to) = {}
         /\ to \in Unnumbered => s \in Unnumbered
         /\ to = "NUMBER_RESERVED" => s \in Unnumbered
BY DEF Passed, Onward, Statuses, Marks, Unnumbered

HasPassed(x) ==
  CreatedHere(x) => Passed(x.status) \subseteq SinceDraft(x.auditTrail)

(* A letter before its reservation has none behind it; a number it has     *)
(* comes from the letter it supersedes.                                    *)
NumberedInTime(x) ==
  x.status \in Unnumbered =>
    /\ "NUMBER_RESERVED" \notin SinceDraft(x.auditTrail)
    /\ x.number # NoNumber => x.supersedes # Nothing

LEMMA EffectPasses ==
  ASSUME NEW x \in Letters, NEW to, NEW y, Effect(x, to, y)
  PROVE  /\ HasPassed(x) => HasPassed(y)
         /\ NumberedInTime(x) => NumberedInTime(y)
<1> DEFINE t == x.auditTrail
           e == [from |-> x.status, to |-> to]
<1>1. t \in Seq(Entries) /\ x.status \in Statuses
  BY DEF Letters
<1>2. /\ to \in Onward[x.status] \cup Marks
      /\ to \in Statuses
      /\ y.status = to /\ y.auditTrail = Append(t, e)
      /\ y.supersedes = x.supersedes
      /\ y.number = x.number \/ to = "NUMBER_RESERVED"
  BY <1>1, OnwardFacts DEF Effect, Marks, Statuses
<1>3. e \in Entries /\ e.from # NoStatus /\ e.to = to
  BY <1>1, <1>2 DEF Entries, Statuses, NoStatus
<1>4. SinceDraft(Append(t, e)) =
        IF to = "DRAFT" THEN {} ELSE SinceDraft(t) \cup {to}
  BY <1>1, <1>3, SinceDraftAppend
<1>5. CreatedHere(y) => CreatedHere(x)
  <2>1. CASE t = <<>>
    <3>1. Append(t, e)[1] = e
      BY <2>1
    <3> HIDE DEF e
    <3> QED
      BY <1>2, <1>3, <3>1 DEF CreatedHere
  <2>2. CASE t # <<>>
    <3>1. Append(t, e)[1] = t[1]
      BY <1>1, <2>2
    <3> HIDE DEF e
    <3> QED
      BY <1>2, <2>2, <3>1 DEF CreatedHere
  <2> QED
    BY <2>1, <2>2
<1> HIDE DEF e, t
<1>6. HasPassed(x) => HasPassed(y)
  BY <1>1, <1>2, <1>4, <1>5, PassedOneMore DEF HasPassed, t
<1>7. NumberedInTime(x) => NumberedInTime(y)
  BY <1>1, <1>2, <1>4, PassedOneMore DEF NumberedInTime, t, Unnumbered
<1> QED
  BY <1>6, <1>7

LEMMA NewPasses ==
  ASSUME TypeOK
  PROVE  /\ HasPassed(Created(Blank)) /\ NumberedInTime(Created(Blank))
         /\ \A l \in DOMAIN letters :
              HasPassed(Copy(l)) /\ NumberedInTime(Copy(l))
<1>1. Passed("DRAFT") = {}
  BY DEF Passed
<1>2. Created(Blank).number = NoNumber
  BY DEF Created, Blank
<1>3. \A l \in DOMAIN letters : Copy(l).supersedes # Nothing
  BY CopyFacts DEF TypeOK, Nothing
<1> QED
  BY <1>1, <1>2, <1>3, FreshTrail, BlankFacts, CopyFacts
     DEF HasPassed, NumberedInTime

LifeInv ==
  \A l \in DOMAIN letters : HasPassed(letters[l]) /\ NumberedInTime(letters[l])

(* A letter has passed the stages its status stands for since it was last  *)
(* a draft, and has a number of its own only after its reservation.        *)
THEOREM LifeInvariant == Spec => []LifeInv
<1>1. Init => LifeInv
  <2> SUFFICES ASSUME Init, NEW l \in DOMAIN letters
               PROVE  HasPassed(letters[l]) /\ NumberedInTime(letters[l])
    BY DEF LifeInv
  <2>1. /\ letters[l].auditTrail = <<>>
        /\ letters[l].status \in Unnumbered => letters[l].number = NoNumber
    BY LifecycleAssumption DEF Init
  <2>2. SinceDraft(<<>>) = {}
    BY DEF SinceDraft
  <2> QED
    BY <2>1, <2>2 DEF HasPassed, NumberedInTime, CreatedHere
<1>2. TypeOK /\ LifeInv /\ [Next]_vars => LifeInv'
  <2> SUFFICES ASSUME TypeOK, LifeInv, [Next]_vars, NEW m \in DOMAIN letters'
               PROVE  HasPassed(letters'[m]) /\ NumberedInTime(letters'[m])
    BY DEF LifeInv, HasPassed, NumberedInTime, CreatedHere
  <2>1. m \in DOMAIN letters => letters[m] \in Letters
    BY DEF TypeOK
  <2> QED
    BY <2>1, LetterStep, EffectPasses, NewPasses DEF LifeInv
<1> QED
  BY <1>1, <1>2, TypeCorrect, PTL DEF Spec

(* A letter created here that has been sent was reviewed, approved and     *)
(* registered since it was last a draft, whatever sequence of mutations    *)
(* led there (assertTransition in every mutation that moves a letter on).  *)
THEOREM SentIsAlwaysApproved == Spec => []SentIsApproved
<1>1. LifeInv => SentIsApproved
  <2>1. \A s \in Sent : Passed(s) = {"PENDING_APPROVAL", "APPROVED", "REGISTERED"}
    BY DEF Sent, Passed
  <2> QED
    BY <2>1 DEF LifeInv, HasPassed, SentIsApproved
<1> QED
  BY <1>1, LifeInvariant, PTL

(* Once reserved, a number is the letter's for good: reserveChalaniNumber  *)
(* replaces no number but one that came with a superseded letter's copy.   *)
THEOREM NumberIsAlwaysKept == Spec => NumberIsKept
<1>1. TypeOK /\ LifeInv /\ [Next]_vars
        => [\A l \in DOMAIN letters :
              letters[l].number # NoNumber
                => \/ letters'[l].number = letters[l].number
                   \/ /\ letters[l].supersedes # Nothing
                      /\ "NUMBER_RESERVED" \notin
                           SinceDraft(letters[l].auditTrail)]_vars
  <2> SUFFICES ASSUME TypeOK, LifeInv, Next,
                      NEW k \in DOMAIN letters, letters[k].number # NoNumber,
                      letters'[k].number # letters[k].number
               PROVE  /\ letters[k].supersedes # Nothing
                      /\ "NUMBER_RESERVED" \notin
                           SinceDraft(letters[k].auditTrail)
    OBVIOUS
  <2>1. letters[k].status \in Unnumbered
    <3>1. PICK l \in DOMAIN letters : Change(l)
      BY CreateLetters DEF Next
    <3>2. PICK to, y : Outcome(l, to, y)
      BY <3>1, ChangeHasOutcome
    <3>3. k = l /\ letters'[k] = y
      BY <3>2, OutcomeLetters
    <3>4. letters[k] \in Letters
      BY DEF TypeOK
    <3> QED
      BY <3>2, <3>3, <3>4, PassedOneMore DEF Outcome, Effect, Letters
  <2> QED
    BY <2>1 DEF LifeInv, NumberedInTime
<1> QED
  BY <1>1, LifecycleInvariant, LifeInvariant, PTL DEF NumberIsKept, IInv, Spec
=============================================================================
