--------------------------- MODULE SerialRegister ---------------------------
(***************************************************************************)
(* What a register of incoming letters promises: in each series (the rows  *)
(* one tenant enters in one register of one fiscal year) a letter is given *)
(* the first number not in use, once, and keeps it.  This is the column    *)
(* darta_number alone, changed in one step; DartaRegister is the service   *)
(* that is meant to implement it.                                          *)
(***************************************************************************)
EXTENDS Naturals

CONSTANTS
  Dartas,     \* the rows
  Series      \* Series[d]: the series row d is numbered in

VARIABLE number

NoNumber == 0

Init == number = [d \in Dartas |-> NoNumber]

InUse(series) == {number[e] : e \in {f \in Dartas : Series[f] = series}}

(* ReserveDartaNumber, had it been one transaction.                        *)
Allocate(d) ==
  /\ number[d] = NoNumber
  /\ \E n \in {number[e] + 1 : e \in Dartas} :
       /\ n \notin InUse(Series[d])
       /\ 1 .. n - 1 \subseteq InUse(Series[d])
       /\ number' = [number EXCEPT ![d] = n]

Next == \E d \in Dartas : Allocate(d)

Spec == Init /\ [][Next]_number

-----------------------------------------------------------------------------
(* No duplicates: two letters of one series never bear the same number.    *)
NoDuplicates ==
  \A d, e \in Dartas :
    /\ d # e
    /\ Series[d] = Series[e]
    /\ number[d] # NoNumber
    => number[d] # number[e]

(* No gaps: below a number given in a series every number is given too.    *)
NoGaps == \A d \in Dartas : 1 .. number[d] \subseteq InUse(Series[d])

(* A letter that has a number keeps that number.                           *)
NumberIsKept ==
  [][\A d \in Dartas : number[d] # NoNumber => number'[d] = number[d]]_number
=============================================================================
