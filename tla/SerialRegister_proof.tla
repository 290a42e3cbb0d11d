------------------------ MODULE SerialRegister_proof ------------------------
(***************************************************************************)
(* The promises of SerialRegister, for every set of rows and every         *)
(* division of them into series.                                           *)
(***************************************************************************)
EXTENDS SerialRegister, TLAPS

SerialInv ==
  /\ number \in [Dartas -> Nat]
  /\ NoDuplicates
  /\ NoGaps

(* What an allocation does: d alone changes, to the first free number.     *)
LEMMA AllocateEffect ==
  ASSUME SerialInv, NEW d \in Dartas, Allocate(d)
  PROVE  /\ number' \in [Dartas -> Nat]
         /\ number'[d] \in Nat \ InUse(Series[d])
         /\ 1 .. number'[d] - 1 \subseteq InUse(Series[d])
         /\ \A e \in Dartas \ {d} : number'[e] = number[e]
BY DEF Allocate, SerialInv

(* An allocation takes no number out of use.                               *)
LEMMA InUseGrows ==
  ASSUME SerialInv, NEW d \in Dartas, Allocate(d), NEW s
  PROVE  InUse(s) \ {NoNumber} \subseteq InUse(s)'
<1> SUFFICES ASSUME NEW n \in InUse(s), n # NoNumber
             PROVE  n \in InUse(s)'
  OBVIOUS
<1>1. PICK e \in Dartas : Series[e] = s /\ number[e] = n
  BY DEF InUse
<1>2. e # d
  BY <1>1 DEF Allocate
<1> QED
  BY <1>1, <1>2, AllocateEffect DEF InUse

LEMMA InitSerialInv == Init => SerialInv
BY DEF Init, SerialInv, NoDuplicates, NoGaps, NoNumber

LEMMA NextSerialInv == SerialInv /\ [Next]_number => SerialInv'
<1> SUFFICES ASSUME SerialInv, [Next]_number PROVE SerialInv'
  OBVIOUS
<1>1. CASE UNCHANGED number
  BY <1>1 DEF SerialInv, NoDuplicates, NoGaps, InUse
<1>2. ASSUME NEW d \in Dartas, Allocate(d) PROVE SerialInv'
  <2>1. /\ number' \in [Dartas -> Nat]
        /\ number'[d] \in Nat \ InUse(Series[d])
        /\ 1 .. number'[d] - 1 \subseteq InUse(Series[d])
        /\ \A e \in Dartas \ {d} : number'[e] = number[e]
    BY <1>2, AllocateEffect
  <2>2. NoDuplicates'
    <3> SUFFICES ASSUME NEW a \in Dartas, NEW b \in Dartas, a # b,
                        Series[a] = Series[b], number'[a] # NoNumber
                 PROVE  number'[a] # number'[b]
      BY DEF NoDuplicates
    <3>1. CASE a # d /\ b # d
      BY <2>1, <3>1 DEF SerialInv, NoDuplicates
    <3>2. CASE a = d \/ b = d
      BY <2>1, <3>2 DEF InUse
    <3> QED
      BY <3>1, <3>2
  <2>3. NoGaps'
    <3> SUFFICES ASSUME NEW a \in Dartas, NEW n \in 1 .. number'[a]
                 PROVE  n \in InUse(Series[a])'
      BY DEF NoGaps
    <3>1. n # NoNumber
      BY <2>1 DEF NoNumber
    <3>2. CASE a # d
      <4>1. n \in InUse(Series[a])
        BY <2>1, <3>2 DEF SerialInv, NoGaps
      <4> QED
        BY <1>2, <3>1, <4>1, InUseGrows
    <3>3. CASE a = d /\ n = number'[d]
      BY <3>3 DEF InUse
    <3>4. CASE a = d /\ n # number'[d]
      <4>1. n \in 1 .. number'[d] - 1
        BY <2>1, <3>4
      <4>2. n \in InUse(Series[a])
        BY <2>1, <3>4, <4>1
      <4> QED
        BY <1>2, <3>1, <4>2, InUseGrows
    <3> QED
      BY <3>2, <3>3, <3>4
  <2> QED
    BY <2>1, <2>2, <2>3 DEF SerialInv
<1> QED
  BY <1>1, <1>2 DEF Next

(* The two promises and the type hold of every reachable state.            *)
THEOREM SerialInvariant == Spec => []SerialInv
BY InitSerialInv, NextSerialInv, PTL DEF Spec

(* No two letters of a series share a number.                              *)
THEOREM SerialHasNoDuplicates == Spec => []NoDuplicates
BY SerialInvariant, PTL DEF SerialInv

(* Below any number of a series all numbers are in use.                    *)
THEOREM SerialHasNoGaps == Spec => []NoGaps
BY SerialInvariant, PTL DEF SerialInv

(* A letter's number never changes.                                        *)
THEOREM SerialNumberIsKept == Spec => NumberIsKept
<1>1. SerialInv /\ [Next]_number
        => [\A d \in Dartas : number[d] # NoNumber => number'[d] = number[d]]_number
  BY DEF Next, Allocate, SerialInv
<1> QED
  BY <1>1, SerialInvariant, PTL DEF Spec, NumberIsKept
=============================================================================
