------------------------- MODULE DistributionProofs -------------------------
(***************************************************************************)
(* What the promise of Distribution gives, for every pool and every number *)
(* of requests: when the program ends every request was handled, by one    *)
(* thread each.                                                            *)
(***************************************************************************)
EXTENDS Distribution, ProofLemmas

DInv ==
  /\ TypeOK
  /\ HeldOnce
  /\ NothingLost
  /\ NotHandledTwice
  /\ StoppedByEnd
  /\ over => stopped = Traiteurs

LEMMA Pool ==
  ASSUME IsFiniteSet(Traiteurs), NbReq \in Nat
  PROVE  N \in Nat /\ Total \in Nat /\ Total = NbReq + N
BY FS_CardinalityType DEF N, Total

LEMMA Initiale ==
  ASSUME IsFiniteSet(Traiteurs), NbReq \in Nat
  PROVE  Init => DInv
<1> SUFFICES ASSUME Init PROVE DInv
  OBVIOUS
<1>1. TypeOK
  <2>1. sent \in 0..Total /\ taken \in 0..sent
    BY Pool DEF Init
  <2>2. current \in [Traiteurs -> 0..taken]
    BY DEF Init
  <2> QED BY <2>1, <2>2 DEF Init, TypeOK
<1>2. HeldOnce /\ NothingLost /\ NotHandledTwice /\ StoppedByEnd /\ (over => stopped = Traiteurs)
  BY DEF Init, HeldOnce, NothingLost, NotHandledTwice, StoppedByEnd
<1> QED BY <1>1, <1>2 DEF DInv

LEMMA Pas ==
  ASSUME IsFiniteSet(Traiteurs), NbReq \in Nat, DInv, [Next]_vars
  PROVE  DInv'
<1> USE DEF DInv
<1>0. N \in Nat /\ Total \in Nat /\ sent \in Nat /\ taken \in Nat /\ taken <= sent /\ sent <= Total
      /\ current \in [Traiteurs -> 0..taken] /\ \A t \in Traiteurs : current[t] \in Nat
  BY Pool DEF TypeOK
<1>1. CASE Send
  BY <1>0, <1>1 DEF Send, TypeOK, HeldOnce, NothingLost, NotHandledTwice, StoppedByEnd
<1>2. CASE Join
  BY <1>0, <1>2 DEF Join, TypeOK, HeldOnce, NothingLost, NotHandledTwice, StoppedByEnd
<1>3. ASSUME NEW t \in Traiteurs, Take(t) PROVE DInv'
  <2> USE <1>3 DEF Take
  <2>1. TypeOK'
    BY <1>0 DEF TypeOK
  <2>2. HeldOnce'
    BY <1>0 DEF HeldOnce
  <2>3. NothingLost'
    <3> SUFFICES ASSUME NEW m \in 1..taken', IsRequest(m)'
                 PROVE  m \in treated' \/ \E u \in Traiteurs : current'[u] = m
      BY DEF NothingLost
    <3>1. CASE m = taken + 1
      BY <3>1, <1>0
    <3>2. CASE m # taken + 1
      <4>1. m \in 1..taken /\ IsRequest(m) /\ m # 0
        BY <3>2, <1>0 DEF IsRequest
      <4> QED BY <4>1, <1>0 DEF NothingLost
    <3> QED BY <3>1, <3>2
  <2>4. NotHandledTwice'
    BY <1>0 DEF NotHandledTwice, TypeOK
  <2>5. StoppedByEnd' /\ (over => stopped = Traiteurs)'
    BY <1>0 DEF StoppedByEnd, TypeOK
  <2> QED BY <2>1, <2>2, <2>3, <2>4, <2>5
<1>4. ASSUME NEW t \in Traiteurs, Treat(t) PROVE DInv'
  <2> USE <1>4 DEF Treat, IsRequest
  <2>1. TypeOK'
    <3>1. treated' \subseteq 1..NbReq
      BY DEF TypeOK
    <3>2. current' \in [Traiteurs -> 0..taken]
      BY <1>0
    <3> QED BY <1>0, <3>1, <3>2 DEF TypeOK
  <2>2. HeldOnce'
    BY <1>0 DEF HeldOnce
  <2>3. NothingLost'
    BY <1>0 DEF NothingLost
  <2>4. NotHandledTwice'
    BY <1>0 DEF NotHandledTwice, HeldOnce, TypeOK
  <2>5. StoppedByEnd' /\ (over => stopped = Traiteurs)'
    BY <1>0 DEF StoppedByEnd, TypeOK
  <2> QED BY <2>1, <2>2, <2>3, <2>4, <2>5
<1>5. ASSUME NEW t \in Traiteurs, Stop(t) PROVE DInv'
  BY <1>0, <1>5 DEF Stop, TypeOK, HeldOnce, NothingLost, NotHandledTwice, StoppedByEnd
<1>6. CASE UNCHANGED vars
  BY <1>6 DEF vars, TypeOK, HeldOnce, NothingLost, NotHandledTwice, StoppedByEnd, IsRequest
<1> QED BY <1>1, <1>2, <1>3, <1>4, <1>5, <1>6 DEF Next

(* The stopped handlers hold as many end messages as there are, so the     *)
(* last message was taken, and with it every request before it.            *)
LEMMA Fin ==
  ASSUME IsFiniteSet(Traiteurs), Traiteurs # {}, NbReq \in Nat, DInv, over
  PROVE  treated = 1..NbReq
<1> USE DEF DInv
<1> DEFINE Fins == NbReq+1 .. Total
<1>1. N \in Nat /\ Total \in Nat /\ Total = NbReq + N /\ taken \in Nat
  BY Pool DEF TypeOK
<1>2. \A t \in Traiteurs : current[t] \in Fins /\ current[t] <= taken
  BY <1>1 DEF StoppedByEnd, TypeOK
<1>3. current \in Injection(Traiteurs, Fins)
  <2>1. current \in [Traiteurs -> Fins]
    BY <1>2 DEF TypeOK
  <2>2. \A t, u \in Traiteurs : current[t] = current[u] => t = u
    BY <1>1, <1>2 DEF HeldOnce
  <2> QED BY <2>1, <2>2 DEF Injection, IsInjective
<1>4. IsFiniteSet(Fins) /\ Cardinality(Fins) = N
  BY <1>1, FS_Interval
<1> HIDE DEF Fins
<1>5. current \in Surjection(Traiteurs, Fins)
  BY <1>3, <1>4, FS_Injection DEF N
<1>6. \A m \in 1..NbReq : m <= taken
  <2>1. N # 0
    BY FS_EmptySet DEF N
  <2>2. Total \in Fins
    BY <2>1, <1>1 DEF Fins
  <2>3. PICK t \in Traiteurs : current[t] = Total
    BY <2>2, <1>5 DEF Surjection
  <2> QED BY <2>3, <1>1, <1>2
<1>7. \A m \in 1..NbReq : \A t \in Traiteurs : current[t] # m
  BY <1>1, <1>2 DEF Fins
<1>8. 1..NbReq \subseteq treated
  BY <1>1, <1>6, <1>7 DEF NothingLost, IsRequest
<1> QED BY <1>8 DEF TypeOK

(* The program does not end before every request was handled. *)
THEOREM ToutEstTraite ==
  ASSUME IsFiniteSet(Traiteurs), Traiteurs # {}, NbReq \in Nat
  PROVE  Spec => []AllTreatedWhenOver
<1>1. Init => DInv
  BY Initiale
<1>2. DInv /\ [Next]_vars => DInv'
  BY Pas
<1>3. DInv => AllTreatedWhenOver
  BY Fin DEF AllTreatedWhenOver
<1> QED BY <1>1, <1>2, <1>3, PTL DEF Spec

(* No message is in the hands of two threads, and no request is lost or    *)
(* handled again.                                                          *)
THEOREM UnSeulTraiteur ==
  ASSUME IsFiniteSet(Traiteurs), NbReq \in Nat
  PROVE  Spec => [](HeldOnce /\ NothingLost /\ NotHandledTwice)
<1>1. Init => DInv
  BY Initiale
<1>2. DInv /\ [Next]_vars => DInv'
  BY Pas
<1>3. DInv => HeldOnce /\ NothingLost /\ NotHandledTwice
  BY DEF DInv
<1> QED BY <1>1, <1>2, <1>3, PTL DEF Spec

=============================================================================
