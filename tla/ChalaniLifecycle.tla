--------------------------- MODULE ChalaniLifecycle ---------------------------
(***************************************************************************)
(* The life cycle of outgoing letters as the web client runs it without a  *)
(* server: the mutations of packages/mock-db/src/chalani.ts over the array *)
(* mockDB.chalanis, with the guard table of utils/transition.ts.           *)
(*                                                                         *)
(* Every mutation waits first (utils/simulate.ts), may fail then without   *)
(* having changed anything, and runs to its end without a break: it is one *)
(* step.  A mutation that throws changes nothing and is no step at all.    *)
(***************************************************************************)
EXTENDS Naturals, Sequences

CONSTANTS
  Seeds,        \* the letters of seeds/chalaniSeeds.ts
  Numbers,      \* the numbers Math.random may draw
  MaxLetters,   \* bound: how many letters there are
  MaxCalls      \* bound: how many mutations succeed

VARIABLES
  letters,      \* mockDB.chalanis
  calls         \* the number of mutations that have succeeded

vars == <<letters, calls>>

Statuses == {"DRAFT", "PENDING_REVIEW", "PENDING_APPROVAL", "APPROVED",
             "NUMBER_RESERVED", "REGISTERED", "SIGNED", "SEALED",
             "DISPATCHED", "IN_TRANSIT", "ACKNOWLEDGED", "DELIVERED",
             "RETURNED_UNDELIVERED", "VOIDED", "SUPERSEDED", "CLOSED"}

(* chalaniTransitions.                                                     *)
Onward ==
  [s \in Statuses |->
     CASE s = "DRAFT"            -> {"PENDING_REVIEW"}
       [] s = "PENDING_REVIEW"   -> {"PENDING_APPROVAL", "DRAFT"}
       [] s = "PENDING_APPROVAL" -> {"APPROVED", "DRAFT"}
       [] s = "APPROVED"         -> {"NUMBER_RESERVED", "REGISTERED"}
       [] s = "NUMBER_RESERVED"  -> {"REGISTERED"}
       [] s = "REGISTERED"       -> {"SIGNED", "SEALED", "DISPATCHED"}
       [] s = "SIGNED"           -> {"SEALED", "DISPATCHED"}
       [] s = "SEALED"           -> {"DISPATCHED"}
       [] s = "DISPATCHED"       -> {"IN_TRANSIT", "ACKNOWLEDGED",
                                     "DELIVERED", "RETURNED_UNDELIVERED"}
       [] s = "IN_TRANSIT"       -> {"ACKNOWLEDGED", "DELIVERED",
                                     "RETURNED_UNDELIVERED"}
       [] s = "ACKNOWLEDGED"     -> {"DELIVERED"}
       [] s = "DELIVERED"        -> {"CLOSED"}
       [] s = "RETURNED_UNDELIVERED" -> {"DISPATCHED"}
       [] OTHER                  -> {}]

NoNumber == "-"     \* null
Nothing  == 0       \* null, for the letter a letter supersedes
NoStatus == "-"     \* the fromStatus of the entry of a creation

Entries == [from : Statuses \cup {NoStatus}, to : Statuses]
Letters == [status : Statuses, number : Numbers \cup {NoNumber},
            channel : BOOLEAN, isAcknowledged : BOOLEAN,
            supersedes : Nat, auditTrail : Seq(Entries)]

(* The stages before a number is reserved.                                 *)
Unnumbered == {"DRAFT", "PENDING_REVIEW", "PENDING_APPROVAL", "APPROVED"}

(* No seed has an audit trail or replaces another, and none has a number   *)
(* before its reservation.                                                 *)
ASSUME LifecycleAssumption ==
  /\ MaxLetters \in Nat /\ MaxCalls \in Nat
  /\ Seeds \in Seq(Letters)
  /\ \A i \in DOMAIN Seeds :
       /\ Seeds[i].auditTrail = <<>> /\ Seeds[i].supersedes = Nothing
       /\ Seeds[i].status \in Unnumbered => Seeds[i].number = NoNumber

TypeOK ==
  /\ letters \in Seq(Letters)
  /\ calls \in 0 .. MaxCalls

Init == letters = Seeds /\ calls = 0

-----------------------------------------------------------------------------
Counted == calls < MaxCalls /\ calls' = calls + 1

(* A slip to catch: a step back is allowed where the step forth is.        *)
MayReturn(l, to) ==
  to \in Onward[letters[l].status] \/ letters[l].status \in Onward[to]

(* assertTransition.                                                       *)
May(l, to) == to \in Onward[letters[l].status]

(* A slip to catch: the entry is written after the status.                 *)
MovedUnrecorded(x, to) ==
  [x EXCEPT !.status = to,
            !.auditTrail = Append(@, [from |-> to, to |-> to])]
(* recordAudit, then patch of the status.                                  *)
Moved(x, to) ==
  [x EXCEPT !.status = to,
            !.auditTrail = Append(@, [from |-> x.status, to |-> to])]

Created(x) ==
  [x EXCEPT !.status = "DRAFT",
            !.auditTrail = <<[from |-> NoStatus, to |-> "DRAFT"]>>]

Blank == [status |-> "DRAFT", number |-> NoNumber, channel |-> FALSE,
          isAcknowledged |-> FALSE, supersedes |-> Nothing,
          auditTrail |-> <<>>]

Create ==
  /\ Counted
  /\ Len(letters) < MaxLetters
  /\ letters' = Append(letters, Created(Blank))

(* The mutations that change the status alone: submit, review, approve,    *)
(* finalize and directRegister, sign, seal, in transit, delivered,         *)
(* returned, close.  A decision against the letter makes it a draft.       *)
Move(l) ==
  \E to \in Statuses \ {"NUMBER_RESERVED", "DISPATCHED", "ACKNOWLEDGED"} :
    /\ May(l, to)
    /\ Counted
    /\ letters' = [letters EXCEPT ![l] = Moved(@, to)]

(* Slips to catch: the allocation the screen asks for is stored in place  *)
(* of a number; a number may be reserved again.                            *)
ReserveAllocation(l) ==
  /\ May(l, "NUMBER_RESERVED")
  /\ Counted
  /\ letters' = [letters EXCEPT ![l] = [Moved(@, "NUMBER_RESERVED")
                                          EXCEPT !.number = "ALLOC-001"]]

ReserveAgain(l) ==
  /\ May(l, "NUMBER_RESERVED") \/ letters[l].status = "NUMBER_RESERVED"
  /\ Counted
  /\ \E n \in Numbers :
       letters' = [letters EXCEPT
                     ![l] = [Moved(@, "NUMBER_RESERVED") EXCEPT !.number = n]]

Reserve(l) ==
  /\ May(l, "NUMBER_RESERVED")
  /\ Counted
  /\ \E n \in Numbers :
       letters' = [letters EXCEPT
                     ![l] = [Moved(@, "NUMBER_RESERVED") EXCEPT !.number = n]]

Dispatch(l) ==
  /\ May(l, "DISPATCHED")
  /\ Counted
  /\ letters' = [letters EXCEPT
                   ![l] = [Moved(@, "DISPATCHED") EXCEPT !.channel = TRUE]]

Acknowledge(l) ==
  /\ May(l, "ACKNOWLEDGED")
  /\ Counted
  /\ letters' = [letters EXCEPT
                   ![l] = [Moved(@, "ACKNOWLEDGED")
                             EXCEPT !.isAcknowledged = TRUE]]

(* A slip to catch: resending is not guarded.                              *)
ResendAnything(l) ==
  /\ letters[l].status \in Statuses
  /\ Counted
  /\ letters' = [letters EXCEPT ![l] = Moved(@, "DISPATCHED")]

(* Guarded by the target only: what was never sent can be resent, and has  *)
(* no channel then.                                                        *)
Resend(l) ==
  /\ May(l, "DISPATCHED")
  /\ Counted
  /\ letters' = [letters EXCEPT ![l] = Moved(@, "DISPATCHED")]

(* Not guarded at all.                                                     *)
Void(l) ==
  /\ Counted
  /\ letters' = [letters EXCEPT ![l] = Moved(@, "VOIDED")]

(* A slip to catch: the copy is made before the letter is marked, and put  *)
(* in its place.                                                           *)
SupersedeInPlace(l) ==
  /\ Counted
  /\ Len(letters) < MaxLetters
  /\ letters' = Append([letters EXCEPT ![l] = Moved(@, "SUPERSEDED")],
                       Created([letters[l] EXCEPT !.supersedes = Nothing]))

(* Not guarded either.  The new draft is a copy of the old letter, with    *)
(* its number, its channel and its acknowledgement.                        *)
Supersede(l) ==
  /\ Counted
  /\ Len(letters) < MaxLetters
  /\ letters' = Append([letters EXCEPT ![l] = Moved(@, "SUPERSEDED")],
                       Created([letters[l] EXCEPT !.supersedes = l]))

Change(l) ==
  \/ Move(l) \/ Reserve(l)
  \/ Dispatch(l) \/ Acknowledge(l) \/ Resend(l)
  \/ Void(l) \/ Supersede(l)

Next == Create \/ \E l \in DOMAIN letters : Change(l)

Spec == Init /\ [][Next]_vars

-----------------------------------------------------------------------------
(* Properties.                                                             *)

(* The two ends that ask for no status, which any letter may come to.      *)
Marks == {"VOIDED", "SUPERSEDED"}
Ended == Marks \cup {"CLOSED"}

(* The audit trail of a letter tells its life without a gap: each entry    *)
(* starts from the status the one before it ended in, follows the table    *)
(* unless the letter is voided or superseded, and the last one ends in the *)
(* status the letter has.                                                  *)
Follows(e) ==
  \/ e.from = NoStatus /\ e.to = "DRAFT"
  \/ e.from \in Statuses /\ e.to \in Onward[e.from] \cup Marks

Walk(x) ==
  LET t == x.auditTrail IN
  /\ t # <<>> => t[Len(t)].to = x.status
  /\ \A i \in DOMAIN t : Follows(t[i])
  /\ \A i \in DOMAIN t \ {1} : t[i].from = t[i - 1].to

AuditIsAWalk == \A l \in DOMAIN letters : Walk(letters[l])

(* Whatever sequence of mutations a letter that was created here has gone  *)
(* through, once it has been sent it was reviewed, approved and registered *)
(* since it was last a draft.                                              *)
Sent == {"DISPATCHED", "IN_TRANSIT", "ACKNOWLEDGED", "DELIVERED",
         "RETURNED_UNDELIVERED", "CLOSED"}

SinceDraft(t) ==
  {t[i].to : i \in {j \in DOMAIN t :
                      \A k \in DOMAIN t : t[k].to = "DRAFT" => k < j}}

CreatedHere(x) == x.auditTrail # <<>> /\ x.auditTrail[1].from = NoStatus

SentIsApproved ==
  \A l \in DOMAIN letters :
    CreatedHere(letters[l]) /\ letters[l].status \in Sent
      => {"PENDING_APPROVAL", "APPROVED", "REGISTERED"}
           \subseteq SinceDraft(letters[l].auditTrail)

(* A superseded letter has a successor, whatever becomes of either.        *)
SupersededHasSuccessor ==
  \A l \in DOMAIN letters :
    "SUPERSEDED" \in {letters[l].auditTrail[i].to :
                        i \in DOMAIN letters[l].auditTrail}
      => \E m \in DOMAIN letters : m > l /\ letters[m].supersedes = l

(* A letter that was voided, superseded or closed never moves on or goes   *)
(* out again: all that its trail tells after that is that it was voided or *)
(* superseded.  That much may follow, since neither voidChalani nor        *)
(* supersedeChalani asks for a status, although the life-cycle document    *)
(* lets nothing leave the three states and calls a closed letter immutable.*)
StaysEnded(t) ==
  \A i, j \in DOMAIN t : i < j /\ t[i].to \in Ended => t[j].to \in Marks

EndedNeverMovesOn ==
  \A l \in DOMAIN letters : StaysEnded(letters[l].auditTrail)

(* A letter is never under way beside the one that replaced it: as soon as *)
(* it has a successor it is superseded, and can become nothing but void.   *)
(* It may be superseded again, though, and have two successors.            *)
ReplacedStaysBehind ==
  \A m \in DOMAIN letters :
    LET old == letters[m].supersedes IN
    old # Nothing => old \in 1 .. m - 1 /\ letters[old].status \in Marks

(* Once reserved, a number is the letter's for good.                       *)
NumberIsKept ==
  [][\A l \in DOMAIN letters :
       letters[l].number # NoNumber
         => \/ letters'[l].number = letters[l].number
            \/ /\ letters[l].supersedes # Nothing
               /\ "NUMBER_RESERVED" \notin SinceDraft(letters[l].auditTrail)]_vars
=============================================================================
