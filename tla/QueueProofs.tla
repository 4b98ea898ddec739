----------------------------- MODULE QueueProofs -----------------------------
(***************************************************************************)
(* The servers that live on a queue.  QueueServer, the benchmark's: for    *)
(* every number of handlers, of requests and of invocations, killed        *)
(* anywhere, and every capacity.  MsgServer, the echo servers of           *)
(* msg_queue/: for every number of clients, of threads and of launches,    *)
(* handle_request never runs twice at once, a server that is deaf stays    *)
(* so, and a client that is alone gets its own answer.                     *)
(***************************************************************************)
EXTENDS QueueServer, MsgServer, FiniteSetTheorems, SequenceTheorems, TLAPS

Charges == {t \in Traiteurs : tpc[t] \in {"teste", "fini"}}

(* Nothing comes from an invocation to be; and once the distributor has    *)
(* joined the handlers none of them does anything.                         *)
Passe ==
  /\ \A m \in treated : m[1] <= inv
  /\ \A i \in 1..Len(file) : file[i][1] <= inv
  /\ \A t \in Traiteurs : treq[t][1] <= inv
  /\ dpc \in {"libere", "termine"} => Arretes = Traiteurs /\ sent = Total
  /\ dpc = "termine" => file = <<>>

(* What an invocation that found the medium empty has there.               *)
Contenu ==
  /\ sent = taken + Len(file)
  /\ \A i \in 1..Len(file) : file[i] = <<inv, taken + i>>

(* Its handlers hold its own messages, each one another.                   *)
Mains ==
  /\ \A t \in Traiteurs : treq[t][1] = inv
  /\ \A t \in Charges : treq[t][2] \in 1..taken
  /\ \A t \in Arretes : treq[t][2] > NbReq
  /\ \A t, u \in Charges : treq[t][2] = treq[u][2] => t = u

(* What was received is handled, or held by a handler that will.           *)
RienDePerdu == \A m \in 1..NbReq : m <= taken =>
  <<inv, m>> \in treated \/ \E t \in Traiteurs : tpc[t] = "teste" /\ treq[t][2] = m

IInv == TypeOK /\ Passe /\ (~herite => Contenu /\ Mains /\ RienDePerdu)

Places == {"attend", "teste", "fini"}

-----------------------------------------------------------------------------
LEMMA Bornes ==
  ASSUME TypeOK
  PROVE  /\ N \in Nat /\ NbReq \in Nat /\ Total = NbReq + N /\ Total \in Nat
         /\ sent \in Nat /\ sent <= Total /\ taken \in Nat /\ inv \in Nat
         /\ inv \in 1..MaxInvocations /\ MaxInvocations \in Nat
         /\ file \in Seq(Messages) /\ Len(file) \in Nat
         /\ tpc \in [Traiteurs -> Places] /\ treq \in [Traiteurs -> Messages]
         /\ \A m : m \in Messages <=>
              \E j \in 1..MaxInvocations, k \in 0..Total : m = <<j, k>>
<1>1. N \in Nat
  BY QueueServerAssumption, FS_CardinalityType DEF N
<1>2. \A m : m \in Messages <=> \E j \in 1..MaxInvocations, k \in 0..Total : m = <<j, k>>
  BY DEF Messages
<1> QED BY <1>1, <1>2, QueueServerAssumption DEF TypeOK, Total, Places

LEMMA Initialisation == Init => IInv
<1> SUFFICES ASSUME Init PROVE IInv
  OBVIOUS
<1>1. N \in Nat /\ N # 0 /\ Total \in Nat
  BY QueueServerAssumption, FS_CardinalityType, FS_EmptySet DEF N, Total
<1>2. <<1, 0>> \in Messages
  BY <1>1, QueueServerAssumption DEF Messages
<1>3. TypeOK
  <2>1. file \in Seq(Messages) /\ Len(file) = 0
    BY EmptySeq DEF Init
  <2>2. /\ inv \in 1..MaxInvocations /\ sent \in 0..Total /\ taken \in Nat
        /\ Len(file) <= Capacite
    BY <1>1, <2>1, QueueServerAssumption DEF Init
  <2>3. /\ tpc \in [Traiteurs -> {"attend", "teste", "fini"}]
        /\ treq \in [Traiteurs -> Messages]
    BY <1>2 DEF Init
  <2> QED BY <2>1, <2>2, <2>3 DEF Init, TypeOK
<1>4. Passe /\ Contenu /\ Mains /\ RienDePerdu
  BY <1>1, QueueServerAssumption
     DEF Init, Passe, Contenu, Mains, RienDePerdu, Charges, Arretes
<1> QED BY <1>3, <1>4 DEF IInv

(* Handlers stop for end messages only, each for another one: when all     *)
(* have stopped, all end messages were received, and so was everything     *)
(* sent before them.                                                       *)
LEMMA TousArretes ==
  ASSUME TypeOK, Contenu, Mains, Arretes = Traiteurs
  PROVE  taken = Total /\ sent = Total /\ file = <<>>
<1>0. /\ NbReq \in Nat /\ N \in Nat /\ Total = NbReq + N /\ taken \in Nat /\ sent <= Total
      /\ sent \in Nat /\ Len(file) \in Nat /\ file \in Seq(Messages)
      /\ treq \in [Traiteurs -> Messages]
  BY Bornes
<1>1. taken <= sent
  BY <1>0 DEF Contenu
<1> DEFINE Fins == NbReq + 1 .. taken
           rang == [t \in Traiteurs |-> treq[t][2]]
<1>2. Traiteurs = Charges
  BY DEF Arretes, Charges
<1>3. \A t \in Traiteurs : treq[t][2] \in 1..taken /\ treq[t][2] > NbReq
  BY <1>2 DEF Mains
<1>4. rang \in Injection(Traiteurs, Fins)
  <2>1. rang \in [Traiteurs -> Fins]
    BY <1>0, <1>3
  <2>2. \A t, u \in Traiteurs : rang[t] = rang[u] => t = u
    BY <1>2 DEF Mains
  <2> QED BY <2>1, <2>2 DEF Injection, IsInjective
<1>5. IsFiniteSet(Fins) /\ Cardinality(Fins) = IF NbReq + 1 > taken THEN 0 ELSE taken - (NbReq + 1) + 1
  <2>1. NbReq + 1 \in Int /\ taken \in Int
    BY <1>0
  <2> QED BY <2>1, FS_Interval
<1>6. N <= Cardinality(Fins)
  BY <1>4, <1>5, FS_Injection, Zenon DEF N
<1>7. N # 0
  BY QueueServerAssumption, FS_EmptySet DEF N
<1>8. taken = Total /\ sent = Total
  BY <1>0, <1>1, <1>5, <1>6, <1>7
<1>9. Len(file) = 0
  BY <1>0, <1>8 DEF Contenu
<1> QED BY <1>0, <1>8, <1>9, EmptySeq

(* The main thread, and the kill.                                          *)
LEMMA PasDistributeur == IInv /\ (Distributeur \/ Tuer) => IInv'
<1> SUFFICES ASSUME IInv, Distributeur \/ Tuer PROVE IInv'
  OBVIOUS
<1> USE DEF IInv
<1>0. /\ N \in Nat /\ NbReq \in Nat /\ Total = NbReq + N /\ Total \in Nat
      /\ sent \in Nat /\ sent <= Total /\ taken \in Nat /\ inv \in Nat
      /\ inv \in 1..MaxInvocations /\ MaxInvocations \in Nat
      /\ file \in Seq(Messages) /\ Len(file) \in Nat
  BY Bornes
<1>1. CASE EnvoyerVersThreadTraiteur
  <2> USE <1>1 DEF EnvoyerVersThreadTraiteur
  <2>1. <<inv, sent + 1>> \in Messages /\ sent + 1 \in 0..Total
    BY <1>0, Bornes DEF Messages
  <2>2. /\ file' \in Seq(Messages) /\ Len(file') = Len(file) + 1
        /\ \A i \in 1..Len(file) : file'[i] = file[i]
        /\ file'[Len(file) + 1] = <<inv, sent + 1>>
    BY <1>0, <2>1, AppendProperties
  <2>3. TypeOK'
    BY <1>0, <2>1, <2>2, QueueServerAssumption DEF TypeOK
  <2>4. ASSUME Contenu PROVE Contenu'
    <3>1. sent' = taken' + Len(file')
      BY <1>0, <2>2, <2>4 DEF Contenu
    <3>2. ASSUME NEW i \in 1..Len(file') PROVE file'[i] = <<inv, taken + i>>
      <4>1. CASE i = Len(file) + 1
        BY <1>0, <2>2, <2>4, <4>1 DEF Contenu
      <4>2. CASE i # Len(file) + 1
        BY <1>0, <2>2, <2>4, <4>2 DEF Contenu
      <4> QED BY <4>1, <4>2
    <3> QED BY <3>1, <3>2 DEF Contenu
  <2>5. Passe'
    <3>1. ASSUME NEW i \in 1..Len(file') PROVE file'[i][1] <= inv
      <4>1. CASE i = Len(file) + 1
        BY <1>0, <2>2, <4>1
      <4>2. CASE i # Len(file) + 1
        BY <1>0, <2>2, <4>2 DEF Passe
      <4> QED BY <4>1, <4>2
    <3> QED BY <3>1 DEF Passe
  <2>6. (Mains => Mains') /\ (RienDePerdu => RienDePerdu')
    BY DEF Mains, RienDePerdu, Charges, Arretes
  <2> QED BY <2>3, <2>4, <2>5, <2>6
<1>2. CASE Joindre \/ Tuer
  <2>1. UNCHANGED <<file, inv, herite, sent, tpc, treq, taken, treated>>
    BY <1>2 DEF Joindre, Tuer
  <2>2. TypeOK'
    BY <1>2, <2>1 DEF Joindre, Tuer, TypeOK
  <2>3. Passe'
    BY <1>2, <2>1 DEF Joindre, Tuer, Passe, Arretes
  <2>4. /\ Contenu => Contenu'
        /\ Mains => Mains'
        /\ RienDePerdu => RienDePerdu'
    BY <2>1 DEF Contenu, Mains, RienDePerdu, Charges, Arretes
  <2> QED BY <2>1, <2>2, <2>3, <2>4
<1>3. CASE LibererMedium
  <2>1. TypeOK' /\ Passe'
    BY <1>0, <1>3, QueueServerAssumption DEF LibererMedium, TypeOK, Passe, Arretes
  <2>2. ASSUME ~herite PROVE Contenu' /\ Mains' /\ RienDePerdu'
    <3>1. file = <<>>
      BY <1>3, <2>2, TousArretes DEF LibererMedium, Passe
    <3> QED BY <1>3, <2>2, <3>1 DEF LibererMedium, Contenu, Mains, RienDePerdu, Charges, Arretes
  <2> QED BY <1>3, <2>1, <2>2 DEF LibererMedium
<1> QED BY <1>1, <1>2, <1>3 DEF Distributeur

(* The handlers.                                                           *)
LEMMA PasTraiteur ==
  ASSUME IInv, NEW t \in Traiteurs, Traiteur(t)
  PROVE  IInv'
<1> USE DEF IInv
<1>0. /\ N \in Nat /\ NbReq \in Nat /\ Total = NbReq + N /\ Total \in Nat
      /\ sent \in Nat /\ sent <= Total /\ taken \in Nat /\ inv \in Nat
      /\ inv \in 1..MaxInvocations /\ MaxInvocations \in Nat
      /\ file \in Seq(Messages) /\ Len(file) \in Nat
      /\ tpc \in [Traiteurs -> Places] /\ treq \in [Traiteurs -> Messages]
  BY Bornes
<1>1. CASE Recevoir(t)
  <2>1. /\ tpc[t] = "attend" /\ file # <<>> /\ tpc' = [tpc EXCEPT ![t] = "teste"]
        /\ treq' = [treq EXCEPT ![t] = Head(file)] /\ file' = Tail(file) /\ taken' = taken + 1
        /\ UNCHANGED <<inv, herite, dpc, sent, treated>>
    BY <1>1 DEF Recevoir
  <2>2. /\ Len(file) >= 1 /\ Head(file) = file[1] /\ Head(file) \in Messages
        /\ file' \in Seq(Messages) /\ Len(file') = Len(file) - 1
        /\ \A i \in 1..Len(file') : file'[i] = file[i + 1]
    BY <1>0, <2>1, HeadTailProperties, EmptySeq
  <2>3. dpc = "envoie"
    BY <1>1, <2>1 DEF Traiteur, Passe, Arretes
  <2>4. TypeOK'
    BY <1>0, <2>1, <2>2, QueueServerAssumption DEF TypeOK
  <2>5. Passe'
    <3>1. ASSUME NEW i \in 1..Len(file') PROVE file'[i][1] <= inv
      <4>1. i + 1 \in 1..Len(file) /\ file'[i] = file[i + 1]
        BY <1>0, <2>2
      <4> QED BY <4>1 DEF Passe
    <3>2. ASSUME NEW u \in Traiteurs PROVE treq'[u][1] <= inv
      BY <1>0, <2>1, <2>2 DEF Passe
    <3> QED BY <2>1, <2>3, <3>1, <3>2 DEF Passe
  <2>6. Arretes' = Arretes /\ t \notin Charges /\ Charges' = Charges \union {t}
    BY <1>0, <2>1 DEF Arretes, Charges
  <2>7. ASSUME ~herite PROVE Contenu' /\ Mains' /\ RienDePerdu'
    <3>1. Head(file) = <<inv, taken + 1>>
      BY <1>0, <2>2, <2>7 DEF Contenu
    <3>2. Contenu'
      <4>1. sent' = taken' + Len(file')
        BY <1>0, <2>1, <2>2, <2>7 DEF Contenu
      <4>2. ASSUME NEW i \in 1..Len(file') PROVE file'[i] = <<inv, taken' + i>>
        <5>1. i + 1 \in 1..Len(file)
          BY <1>0, <2>2
        <5>2. file[i + 1] = <<inv, taken + (i + 1)>>
          BY <2>7, <5>1 DEF Contenu
        <5>3. taken + (i + 1) = taken' + i
          BY <1>0, <2>1, <2>2
        <5> QED BY <2>2, <5>2, <5>3
      <4> QED BY <2>1, <4>1, <4>2 DEF Contenu
    <3>3. /\ treq'[t][1] = inv /\ treq'[t][2] = taken + 1
          /\ \A u \in Traiteurs \ {t} : treq'[u] = treq[u]
      BY <1>0, <2>1, <3>1
    <3>4. Mains'
      <4>1. \A u \in Charges : treq[u][2] \in 1..taken /\ u \in Traiteurs /\ u # t
        BY <2>6, <2>7 DEF Mains, Charges
      <4>2. \A u \in Arretes : treq[u][2] > NbReq /\ u \in Traiteurs /\ u # t
        BY <2>1, <2>7 DEF Mains, Arretes
      <4>3. \A u \in Traiteurs : treq'[u][1] = inv
        BY <2>7, <3>3 DEF Mains
      <4>4. \A u \in Charges' : treq'[u][2] \in 1..taken'
        BY <1>0, <2>1, <2>6, <3>3, <4>1
      <4>5. \A u, v \in Charges' : treq'[u][2] = treq'[v][2] => u = v
        BY <1>0, <2>6, <2>7, <3>3, <4>1 DEF Mains
      <4> QED BY <2>1, <2>6, <3>3, <4>2, <4>3, <4>4, <4>5 DEF Mains
    <3>5. RienDePerdu'
      <4>1. ASSUME NEW m \in 1..NbReq, m <= taken + 1
            PROVE  <<inv, m>> \in treated \/ \E u \in Traiteurs : tpc'[u] = "teste" /\ treq'[u][2] = m
        <5>1. CASE m = taken + 1
          BY <1>0, <2>1, <3>3, <5>1
        <5>2. CASE m # taken + 1
          <6>1. <<inv, m>> \in treated \/ \E u \in Traiteurs : tpc[u] = "teste" /\ treq[u][2] = m
            BY <1>0, <2>7, <4>1, <5>2 DEF RienDePerdu
          <6> QED BY <1>0, <2>1, <3>3, <6>1
        <5> QED BY <5>1, <5>2
      <4> QED BY <2>1, <4>1 DEF RienDePerdu
    <3> QED BY <3>2, <3>4, <3>5
  <2> QED BY <2>1, <2>4, <2>5, <2>7
<1>2. CASE Arreter(t)
  <2>1. /\ tpc[t] = "teste" /\ tpc' = [tpc EXCEPT ![t] = "fini"] /\ treq[t][2] \notin 1..NbReq
        /\ UNCHANGED <<file, inv, herite, dpc, sent, treq, taken, treated>>
    BY <1>2 DEF Arreter, EstRequete
  <2>2. dpc = "envoie"
    BY <1>2, <2>1 DEF Traiteur, Passe, Arretes
  <2>3. TypeOK' /\ Passe'
    BY <1>0, <2>1, <2>2 DEF TypeOK, Passe
  <2>4. t \in Charges /\ Charges' = Charges /\ Arretes' = Arretes \union {t}
    BY <1>0, <2>1 DEF Charges, Arretes
  <2>5. ASSUME ~herite PROVE Contenu' /\ Mains' /\ RienDePerdu'
    <3>1. treq[t][2] \in 1..taken /\ treq[t][2] > NbReq
      BY <1>0, <2>1, <2>4, <2>5 DEF Mains
    <3>2. Contenu' /\ Mains'
      BY <2>1, <2>4, <2>5, <3>1 DEF Contenu, Mains
    <3>3. RienDePerdu'
      <4>1. ASSUME NEW m \in 1..NbReq, NEW u \in Traiteurs, tpc[u] = "teste", treq[u][2] = m
            PROVE  tpc'[u] = "teste"
        BY <1>0, <2>1, <4>1
      <4> QED BY <2>1, <2>5, <4>1 DEF RienDePerdu
    <3> QED BY <3>2, <3>3
  <2> QED BY <2>1, <2>3, <2>5
<1>3. CASE Traiter(t)
  <2>1. /\ tpc[t] = "teste" /\ tpc' = [tpc EXCEPT ![t] = "attend"] /\ treq[t][2] \in 1..NbReq
        /\ treated' = treated \union {treq[t]}
        /\ UNCHANGED <<file, inv, herite, dpc, sent, treq, taken>>
    BY <1>3 DEF Traiter, EstRequete
  <2>2. dpc = "envoie"
    BY <1>3, <2>1 DEF Traiteur, Passe, Arretes
  <2>3. TypeOK'
    BY <1>0, <2>1 DEF TypeOK
  <2>4. Passe'
    BY <2>1, <2>2 DEF Passe
  <2>5. t \in Charges /\ t \notin Arretes /\ Charges' = Charges \ {t} /\ Arretes' = Arretes
    BY <1>0, <2>1 DEF Charges, Arretes
  <2>6. ASSUME ~herite PROVE Contenu' /\ Mains' /\ RienDePerdu'
    <3>1. Contenu' /\ Mains'
      BY <2>1, <2>5, <2>6 DEF Contenu, Mains
    <3>2. treq[t] = <<inv, treq[t][2]>>
      BY <1>0, <2>6 DEF Mains, Messages
    <3>3. ASSUME NEW m \in 1..NbReq, m <= taken
          PROVE  <<inv, m>> \in treated' \/ \E u \in Traiteurs : tpc'[u] = "teste" /\ treq[u][2] = m
      <4>1. CASE treq[t][2] = m
        BY <2>1, <3>2, <4>1
      <4>2. CASE treq[t][2] # m
        <5>1. \A u \in Traiteurs : tpc[u] = "teste" /\ treq[u][2] = m => tpc'[u] = "teste"
          BY <1>0, <2>1, <4>2
        <5> QED BY <2>1, <2>6, <3>3, <5>1 DEF RienDePerdu
      <4> QED BY <4>1, <4>2
    <3> QED BY <2>1, <3>1, <3>3 DEF RienDePerdu
  <2> QED BY <2>1, <2>3, <2>4, <2>6
<1> QED BY <1>1, <1>2, <1>3 DEF Traiteur

(* A new invocation. *)
LEMMA PasLancer == IInv /\ Lancer => IInv'
<1> SUFFICES ASSUME IInv, Lancer PROVE IInv'
  OBVIOUS
<1> USE DEF IInv
<1>0. /\ N \in Nat /\ NbReq \in Nat /\ Total = NbReq + N /\ Total \in Nat
      /\ inv \in Nat /\ MaxInvocations \in Nat /\ inv + 1 \in 1..MaxInvocations
      /\ file \in Seq(Messages) /\ Len(file) \in Nat
      /\ \A m \in Messages : m[1] \in Nat
  BY Bornes DEF Lancer, Messages
<1>1. <<inv + 1, 0>> \in Messages
  BY <1>0 DEF Messages
<1>2. /\ inv' = inv + 1 /\ herite' = (file # <<>>) /\ dpc' = "envoie" /\ sent' = 0 /\ taken' = 0
      /\ tpc' = [t \in Traiteurs |-> "attend"] /\ treq' = [t \in Traiteurs |-> <<inv + 1, 0>>]
      /\ UNCHANGED <<file, treated>>
  BY DEF Lancer
<1>3. TypeOK'
  BY <1>0, <1>1, <1>2 DEF TypeOK
<1>4. Passe'
  <2>1. /\ \A m \in treated : m[1] <= inv + 1
        /\ \A i \in 1..Len(file) : file[i][1] <= inv + 1
    BY <1>0 DEF Passe, TypeOK
  <2> QED BY <1>0, <1>2, <2>1 DEF Passe
<1>5. ASSUME ~herite' PROVE Contenu' /\ Mains' /\ RienDePerdu'
  <2>1. file' = <<>> /\ Len(file') = 0
    BY <1>2, <1>5, EmptySeq
  <2>2. Contenu'
    BY <1>2, <2>1 DEF Contenu
  <2>3. Charges' = {} /\ Arretes' = {}
    BY <1>2 DEF Charges, Arretes
  <2>4. \A t \in Traiteurs : treq'[t][1] = inv'
    BY <1>2
  <2>5. Mains'
    BY <2>3, <2>4 DEF Mains
  <2>6. RienDePerdu'
    BY <1>0, <1>2 DEF RienDePerdu
  <2> QED BY <2>2, <2>5, <2>6
<1> QED BY <1>3, <1>4, <1>5

(* IInv is an inductive invariant. *)
THEOREM Invariance == Spec => []IInv
<1>1. ASSUME IInv, UNCHANGED vars PROVE IInv'
  BY <1>1 DEF vars, IInv, TypeOK, Passe, Contenu, Mains, RienDePerdu, Charges, Arretes
<1>2. ASSUME IInv, [Next]_vars PROVE IInv'
  BY <1>1, <1>2, PasDistributeur, PasTraiteur, PasLancer DEF Next, Termine
<1> QED BY Initialisation, <1>2, PTL DEF Spec

(* For any pool and medium, and wherever earlier invocations were killed,  *)
(* an invocation that found the medium empty handles its own requests, all *)
(* of them before it ends, and never sends to a pool that has stopped.     *)
THEOREM Proprete == Spec => []InvocationPropre
<1>1. ASSUME IInv, ~herite PROVE
        /\ \A t \in Traiteurs : treq[t][1] = inv
        /\ dpc \in {"libere", "termine"} =>
             file = <<>> /\ \A m \in 1..NbReq : <<inv, m>> \in treated
        /\ dpc = "envoie" /\ sent < Total => Arretes # Traiteurs
  <2>0. sent \in Nat /\ NbReq \in Nat /\ N \in Nat /\ Total = NbReq + N
    BY <1>1, Bornes DEF IInv
  <2>1. ASSUME Arretes = Traiteurs PROVE taken = Total /\ sent = Total /\ file = <<>>
    BY <1>1, <2>1, TousArretes DEF IInv
  <2>2. ASSUME Arretes = Traiteurs, NEW m \in 1..NbReq PROVE <<inv, m>> \in treated
    <3>1. m <= taken
      BY <2>0, <2>1, <2>2
    <3>2. \A t \in Traiteurs : tpc[t] # "teste"
      BY <2>2 DEF Arretes
    <3> QED BY <1>1, <3>1, <3>2 DEF IInv, RienDePerdu
  <2> QED BY <1>1, <2>0, <2>1, <2>2 DEF IInv, Mains, Passe
<1>2. IInv => InvocationPropre
  BY <1>1 DEF InvocationPropre, IInv
<1> QED BY <1>2, Invariance, PTL

(* Only a kill leaves messages behind.                                     *)
THEOREM Heritage == Spec => HeriteDUnTue
<1>1. IInv /\ [Next]_vars => [inv' # inv /\ herite' => dpc = "tue"]_vars
  BY DEF IInv, Passe, Next, Distributeur, EnvoyerVersThreadTraiteur, Joindre, LibererMedium,
         Traiteur, Recevoir, Arreter, Traiter, Tuer, Lancer, Termine, vars
<1> QED BY <1>1, Invariance, PTL DEF Spec, HeriteDUnTue

-----------------------------------------------------------------------------
LEMMA MemeTotal == D!Total = Total
BY DEF D!Total, D!N, Total, N, D!Cardinality, Cardinality

(* What the distribution sees of the server.                               *)
Courant == [t \in Traiteurs |->
              IF Observee /\ tpc[t] \in {"teste", "fini"} THEN treq[t][2] ELSE 0]
Traites == {m \in 1..NbReq : Observee /\ <<inv, m>> \in treated}

(* Every step of the last invocation is a step of the distribution or      *)
(* changes nothing it speaks of, and so is everything before.              *)
LEMMA PasRaffine ==
  ASSUME IInv, [Next]_vars
  PROVE  [D!Next]_(D!vars)
<1> USE DEF IInv
<1>0. /\ N \in Nat /\ NbReq \in Nat /\ Total = NbReq + N /\ D!Total = Total
      /\ sent \in Nat /\ sent <= Total /\ taken \in Nat /\ inv \in Nat
      /\ inv \in 1..MaxInvocations /\ MaxInvocations \in Nat
      /\ file \in Seq(Messages) /\ Len(file) \in Nat
      /\ tpc \in [Traiteurs -> Places] /\ treq \in [Traiteurs -> Messages]
  BY Bornes, MemeTotal
<1>1. ASSUME ~Observee, UNCHANGED <<inv, herite>> PROVE UNCHANGED D!vars
  BY <1>1 DEF D!vars, Observee
<1>2. CASE Lancer
  <2>1. ~Observee
    BY <1>0, <1>2 DEF Lancer, Observee
  <2>2. /\ sent' = 0 /\ taken' = 0 /\ dpc' # "termine"
        /\ \A t \in Traiteurs : tpc'[t] = "attend"
        /\ \A m : <<inv', m>> \notin treated'
    <3>1. inv' = inv + 1 /\ treated' = treated
      BY <1>2 DEF Lancer
    <3>2. ASSUME NEW m, <<inv', m>> \in treated PROVE FALSE
      <4>1. <<inv', m>>[1] <= inv
        BY <3>2 DEF Passe
      <4> QED BY <1>0, <3>1, <4>1
    <3> QED BY <1>2, <3>1, <3>2 DEF Lancer
  <2> QED BY <2>1, <2>2 DEF D!vars, Arretes
<1>3. CASE Observee /\ Distributeur
  <2>1. UNCHANGED <<inv, herite, tpc, treq, taken, treated>> /\ Observee'
    BY <1>3 DEF Distributeur, EnvoyerVersThreadTraiteur, Joindre, LibererMedium, Observee
  <2>2. CASE EnvoyerVersThreadTraiteur
    <3>1. D!Send
      BY <1>0, <1>3, <2>1, <2>2 DEF EnvoyerVersThreadTraiteur, D!Send, Arretes
    <3> QED BY <3>1 DEF D!Next
  <2>3. CASE Joindre
    BY <1>3, <2>1, <2>3 DEF Joindre, D!vars, Arretes
  <2>4. CASE LibererMedium
    <3>1. D!Join
      BY <1>0, <1>3, <2>1, <2>4 DEF LibererMedium, D!Join, Passe, Arretes
    <3> QED BY <3>1 DEF D!Next
  <2> QED BY <1>3, <2>2, <2>3, <2>4 DEF Distributeur
<1>4. CASE Observee /\ Tuer
  BY <1>4 DEF Tuer, D!vars, Observee, Arretes
<1>5. ASSUME Observee, NEW t \in Traiteurs, Traiteur(t) PROVE D!Next
  <2>0. UNCHANGED <<inv, herite, dpc, sent>> /\ Observee' /\ ~herite /\ dpc # "termine"
    BY <1>5 DEF Traiteur, Recevoir, Arreter, Traiter, Observee
  <2>1. CASE Recevoir(t)
    <3>1. Len(file) >= 1 /\ Head(file) = file[1]
      BY <1>0, <2>1, EmptySeq DEF Recevoir
    <3>2. Head(file) = <<inv, taken + 1>> /\ taken < sent
      BY <1>0, <2>0, <3>1 DEF Contenu
    <3>3. Courant[t] = 0 /\ Courant' = [Courant EXCEPT ![t] = taken + 1]
      <4>1. /\ tpc[t] = "attend" /\ tpc' = [tpc EXCEPT ![t] = "teste"]
            /\ treq' = [treq EXCEPT ![t] = <<inv, taken + 1>>]
        BY <2>1, <3>2 DEF Recevoir
      <4>2. /\ tpc'[t] = "teste" /\ treq'[t][2] = taken + 1
            /\ \A u \in Traiteurs \ {t} : tpc'[u] = tpc[u] /\ treq'[u] = treq[u]
        BY <1>0, <4>1
      <4>3. /\ Courant[t] = 0 /\ Courant'[t] = taken + 1
            /\ \A u \in Traiteurs \ {t} : Courant'[u] = Courant[u]
        <5>1. Courant[t] = 0
          BY <1>5, <4>1 DEF Courant
        <5>2. Courant'[t] = taken + 1
          BY <1>5, <2>0, <4>2 DEF Courant
        <5>3. ASSUME NEW u \in Traiteurs \ {t} PROVE Courant'[u] = Courant[u]
          BY <1>5, <2>0, <4>2 DEF Courant
        <5> QED BY <5>1, <5>2, <5>3
      <4>4. Courant' = [u \in Traiteurs |-> Courant'[u]] /\ Courant = [u \in Traiteurs |-> Courant[u]]
        BY DEF Courant
      <4> QED BY <4>3, <4>4
    <3>4. Arretes' = Arretes /\ Traites' = Traites
      BY <1>0, <1>5, <2>0, <2>1 DEF Recevoir, Arretes, Traites
    <3>5. D!Take(t)
      BY <1>5, <2>0, <2>1, <3>2, <3>3, <3>4 DEF Recevoir, Courant, Traites, D!Take
    <3> QED BY <3>5 DEF D!Next
  <2>2. CASE Arreter(t)
    <3>1. t \in Charges /\ treq[t][2] \in 1..taken /\ treq[t][2] > NbReq
      BY <1>0, <2>0, <2>2 DEF Arreter, EstRequete, Mains, Charges
    <3>2. Courant[t] = treq[t][2] /\ Courant' = Courant
      BY <1>0, <1>5, <2>0, <2>2 DEF Arreter, Courant
    <3>3. t \notin Arretes /\ Arretes' = Arretes \union {t} /\ Traites' = Traites
      BY <1>0, <1>5, <2>0, <2>2 DEF Arreter, Arretes, Traites
    <3>4. D!Stop(t)
      BY <1>5, <2>0, <2>2, <3>1, <3>2, <3>3 DEF Arreter, Courant, Traites, D!Stop
    <3> QED BY <3>4 DEF D!Next
  <2>3. CASE Traiter(t)
    <3>1. treq[t][2] \in 1..NbReq /\ treq[t] = <<inv, treq[t][2]>>
      BY <1>0, <2>0, <2>3 DEF Traiter, EstRequete, Mains, Messages
    <3>2. Courant[t] = treq[t][2] /\ Courant' = [Courant EXCEPT ![t] = 0]
      BY <1>0, <1>5, <2>0, <2>3 DEF Traiter, Courant
    <3>3. Arretes' = Arretes /\ Traites' = Traites \union {treq[t][2]}
      BY <1>0, <1>5, <2>0, <2>3, <3>1 DEF Traiter, Arretes, Traites
    <3>4. D!Treat(t)
      BY <1>5, <2>0, <2>3, <3>1, <3>2, <3>3 DEF Traiter, Courant, Traites, D!Treat, D!IsRequest
    <3> QED BY <3>4 DEF D!Next
  <2> QED BY <1>5, <2>1, <2>2, <2>3 DEF Traiteur
<1>6. CASE ~Observee /\ ~Lancer
  <2>1. UNCHANGED <<inv, herite>>
    BY <1>6 DEF Next, Distributeur, EnvoyerVersThreadTraiteur, Joindre, LibererMedium,
                Traiteur, Recevoir, Arreter, Traiter, Tuer, Termine, vars
  <2> QED BY <1>1, <1>6, <2>1
<1>7. ASSUME UNCHANGED vars PROVE UNCHANGED D!vars
  BY <1>7 DEF vars, D!vars, Observee, Arretes
<1> QED BY <1>2, <1>3, <1>4, <1>5, <1>6, <1>7 DEF Next, Termine

(* The last invocation implements the distribution if it found the medium  *)
(* empty, for any pool and medium and however many were killed before it.  *)
THEOREM Raffinement == Spec => DSpec
<1>1. Init => D!Init
  BY DEF Init, D!Init, Arretes
<1>2. IInv /\ [Next]_vars => [D!Next]_(D!vars)
  BY PasRaffine
<1> QED BY <1>1, <1>2, Invariance, PTL DEF Spec, DSpec, D!Spec

Promesse == INSTANCE DistributionProofs WITH
       sent    <- IF Observee THEN sent ELSE 0,
       taken   <- IF Observee THEN taken ELSE 0,
       current <- [t \in Traiteurs |->
                     IF Observee /\ tpc[t] \in {"teste", "fini"} THEN treq[t][2] ELSE 0],
       treated <- {m \in 1..NbReq : Observee /\ <<inv, m>> \in treated},
       stopped <- IF Observee THEN Arretes ELSE {},
       over    <- Observee /\ dpc = "termine"

(* An invocation that found the medium empty handled all its requests when *)
(* it ends, however many were killed before it.                            *)
THEOREM ToutEstTraite ==
  Spec => [](Observee /\ dpc = "termine" => \A m \in 1..NbReq : <<inv, m>> \in treated)
<1>0. Promesse!IsFiniteSet(Traiteurs) /\ Traiteurs # {} /\ NbReq \in Nat
  BY QueueServerAssumption DEF Promesse!IsFiniteSet, IsFiniteSet
<1>1. Init => Promesse!DInv
  <2>1. Init => Promesse!Init
    BY DEF Init, Promesse!Init, Arretes
  <2> QED BY <1>0, <2>1, Promesse!Initiale
<1>2. IInv /\ Promesse!DInv /\ [Next]_vars => Promesse!DInv'
  <2>1. D!Total = Promesse!Total
    BY DEF D!Total, D!N, Promesse!Total, Promesse!N, D!Cardinality, Promesse!Cardinality
  <2>2. [D!Next]_(D!vars) => [Promesse!Next]_(Promesse!vars)
    <3>1. D!vars = Promesse!vars /\ (UNCHANGED D!vars => UNCHANGED Promesse!vars)
      BY DEF D!vars, Promesse!vars
    <3>2. D!Send => Promesse!Send
      BY <2>1 DEF D!Send, Promesse!Send
    <3>3. D!Join => Promesse!Join
      BY <2>1 DEF D!Join, Promesse!Join
    <3>4. \A t \in Traiteurs : D!Take(t) => Promesse!Take(t)
      BY DEF D!Take, Promesse!Take
    <3>5. \A t \in Traiteurs : D!Treat(t) => Promesse!Treat(t)
      BY DEF D!Treat, Promesse!Treat, D!IsRequest, Promesse!IsRequest
    <3>6. \A t \in Traiteurs : D!Stop(t) => Promesse!Stop(t)
      BY DEF D!Stop, Promesse!Stop
    <3> QED BY <3>1, <3>2, <3>3, <3>4, <3>5, <3>6 DEF D!Next, Promesse!Next
  <2> QED BY <1>0, <2>2, PasRaffine, Promesse!Pas
<1>3. Promesse!DInv => (Observee /\ dpc = "termine" => \A m \in 1..NbReq : <<inv, m>> \in treated)
  <2>1. Promesse!DInv /\ Observee /\ dpc = "termine" =>
        {m \in 1..NbReq : Observee /\ <<inv, m>> \in treated} = 1..NbReq
    BY <1>0, Promesse!Fin
  <2> QED BY <2>1
<1> QED BY <1>1, <1>2, <1>3, Invariance, PTL DEF Spec

-----------------------------------------------------------------------------
(* The echo servers on message queues. *)

(* The queues, and the types. *)
Contenus ==
  /\ MqTypeOK
  /\ requetes \in [Files -> Seq(Clients)] /\ reponses \in [Files -> Seq(Clients \cup {Adieu})]

(* A process that runs has its descriptors; what was never created is empty; *)
(* the name of the requests leads to the last server's queue, if anywhere. *)
Descripteurs ==
  /\ prog = "aucun" => ~arme /\ \A t \in Fils : pc[t] = "aucun"
  /\ prog # "aucun" => sreq \in Files /\ lances \in Files /\ (pc[Main] # "ouvrir_rep" => srep \in Files)
  /\ pc[Main] = "ouvrir_rep" => srep = 0
  /\ nomReq \in {0, sreq} /\ sreq <= lances
  /\ \A c \in Clients : /\ cpc[c] \in {"ouvrir_rep", "envoyer", "attendre"} => creq[c] \in Files
                        /\ creq[c] <= lances
  /\ \A f \in Files : f > lances => requetes[f] = <<>>

(* A thread runs handle_request only while main sleeps and nothing is      *)
(* registered.                                                             *)
Exclusion ==
  /\ arme => pc[Main] = "veille" /\ Actifs = {}
  /\ Actifs # {} => pc[Main] = "veille"
  /\ \A s, t \in Actifs : s = t
  /\ \A t \in Threads : pc[t] \notin {"ouvrir_rep", "veille"}

(* The answer c expects is the oldest one that is due: the first reply in  *)
(* the queue, else what the thread at work will reply, else what the first *)
(* request in the queue asks for.  Only a reply outlives the server.       *)
Prive(c) == attendu[c] # {} =>
  /\ cpc[c] = "attendre" =>
       /\ crep[c] \in Files
       /\ reponses[crep[c]] # <<>> => attendu[c] = {Head(reponses[crep[c]])}
       /\ reponses[crep[c]] = <<>> =>
            /\ prog # "aucun" /\ pc[Main] # "ouvrir_rep" /\ crep[c] = srep
            /\ \A t \in Fils : pc[t] = "repondre" => attendu[c] = {Reponse(msg[t])}
            /\ \/ \E t \in Fils : pc[t] = "repondre"
               \/ requetes[sreq] # <<>> /\ attendu[c] = {Reponse(Head(requetes[sreq]))}
  /\ cpc[c] = "fini" => recu[c] = attendu[c]

MqIInv == Contenus /\ Descripteurs /\ Exclusion

MqPInv == MqIInv /\ \A c \in Clients : Prive(c)
-----------------------------------------------------------------------------
LEMMA MqBornes ==
  /\ MaxMsg \in Nat /\ MaxMsg >= 1 /\ MaxLancements \in Nat \ {0} /\ Files = 1 .. MaxLancements
  /\ Main \in Fils /\ Main \notin Threads /\ Fils = Threads \cup {Main}
  /\ Programmes \subseteq {"boucle", "notify"} /\ "aucun" \notin Programmes
BY MsgAssumption DEF Files, Fils

LEMMA MqInitialisation == MqInit => MqPInv
<1> SUFFICES ASSUME MqInit PROVE MqPInv
  OBVIOUS
<1>1. /\ requetes \in [Files -> Seq(Clients)] /\ reponses \in [Files -> Seq(Clients \cup {Adieu})]
      /\ \A f \in Files : requetes[f] = <<>> /\ reponses[f] = <<>>
  BY DEF MqInit
<1>2. Contenus
  <2>1. \A f \in Files : /\ requetes[f] \in Seq(Clients) /\ Len(requetes[f]) <= MaxMsg
                         /\ reponses[f] \in Seq(Clients \cup {Adieu}) /\ Len(reponses[f]) <= MaxMsg
    BY <1>1, MqBornes
  <2>2. /\ {nomReq, nomRep, lances, sreq, srep} \subseteq 0 .. MaxLancements
        /\ creq \in [Clients -> 0 .. MaxLancements] /\ crep \in [Clients -> 0 .. MaxLancements]
    BY MqBornes DEF MqInit
  <2>3. /\ pc \in [Fils -> EtatsServeur] /\ msg \in [Fils -> Clients \cup {Adieu}]
        /\ cpc \in [Clients -> EtatsClient]
        /\ recu \in [Clients -> SUBSET (Clients \cup {Adieu})]
        /\ attendu \in [Clients -> SUBSET (Clients \cup {Adieu})]
    BY DEF MqInit, EtatsServeur, EtatsClient
  <2> QED BY <1>1, <2>1, <2>2, <2>3 DEF MqInit, Contenus, MqTypeOK
<1>3. Descripteurs /\ Exclusion
  BY <1>1, MqBornes DEF MqInit, Descripteurs, Exclusion, Actifs
<1>4. ASSUME NEW c \in Clients PROVE Prive(c)
  BY DEF MqInit, Prive
<1> QED BY <1>2, <1>3, <1>4 DEF MqPInv, MqIInv

(* A process that ends leaves its queues, and no thread.                   *)
LEMMA PasQuitter ==
  ASSUME MqIInv, Quitter, nomReq' \in {0, nomReq}, nomRep' \in {0, nomRep},
         UNCHANGED <<requetes, reponses, client>>
  PROVE  MqIInv'
<1> USE MqBornes DEF MqIInv
<1>1. Contenus'
  <2>1. {nomReq', nomRep', lances', sreq', srep'} \subseteq 0 .. MaxLancements
    BY DEF Quitter, Contenus, MqTypeOK
  <2>2. pc' \in [Fils -> EtatsServeur] /\ msg' \in [Fils -> Clients \cup {Adieu}]
    BY DEF Quitter, EtatsServeur
  <2>3. prog' \in Programmes \cup {"aucun"} /\ arme' \in BOOLEAN
        /\ attendu' \in [Clients -> SUBSET (Clients \cup {Adieu})]
    BY DEF Quitter, Contenus, MqTypeOK
  <2> QED BY <2>1, <2>2, <2>3 DEF client, Contenus, MqTypeOK
<1>2. Descripteurs'
  BY DEF Quitter, client, Contenus, MqTypeOK, Descripteurs
<1>3. Exclusion'
  BY DEF Quitter, Exclusion, Actifs
<1> QED BY <1>1, <1>2, <1>3

LEMMA PasLancerServeur == MqIInv /\ LancerServeur => MqIInv'
<1> SUFFICES ASSUME MqIInv, LancerServeur PROVE MqIInv'
  OBVIOUS
<1> USE MqBornes DEF MqIInv
<1>1. /\ lances \in 0 .. MaxLancements - 1 /\ lances' = lances + 1 /\ sreq' = nomReq' /\ prog = "aucun"
      /\ nomReq' = (IF nomReq = 0 THEN lances' ELSE nomReq) /\ prog' \in Programmes
      /\ UNCHANGED <<requetes, reponses, nomRep, arme, msg, client, attendu>> /\ srep' = 0
      /\ pc' = [pc EXCEPT ![Main] = "ouvrir_rep"]
  BY DEF LancerServeur, Contenus, MqTypeOK
<1>2. lances' \in Files /\ nomReq' \in Files /\ nomReq' <= lances'
  <2>1. nomReq \in 0 .. MaxLancements /\ sreq \in 0 .. MaxLancements
    BY DEF Contenus, MqTypeOK
  <2>2. nomReq \in {0, sreq} /\ sreq <= lances
    BY DEF Descripteurs
  <2> HIDE DEF MqIInv
  <2>3. lances' \in 1 .. MaxLancements /\ nomReq \in 0 .. MaxLancements /\ nomReq <= lances
    BY <1>1, <2>1, <2>2
  <2> QED BY <1>1, <2>3
<1>3. Contenus'
  <2>1. {nomReq', nomRep', lances', sreq', srep'} \subseteq 0 .. MaxLancements
    BY <1>1, <1>2 DEF Contenus, MqTypeOK
  <2>2. pc' \in [Fils -> EtatsServeur] /\ prog' \in Programmes \cup {"aucun"}
    BY <1>1 DEF Contenus, MqTypeOK, EtatsServeur
  <2> QED BY <1>1, <2>1, <2>2 DEF client, Contenus, MqTypeOK
<1>4. Descripteurs'
  <2>1. pc'[Main] = "ouvrir_rep" /\ prog' # "aucun"
    BY <1>1 DEF Contenus, MqTypeOK
  <2>2. ASSUME NEW c \in Clients PROVE creq'[c] <= lances'
                                        /\ (cpc'[c] \in {"ouvrir_rep", "envoyer", "attendre"} => creq'[c] \in Files)
    <3>1. creq' = creq /\ cpc' = cpc
      BY <1>1 DEF client
    <3>2. creq[c] \in 0 .. MaxLancements
      BY DEF Contenus, MqTypeOK
    <3> QED BY <1>1, <3>1, <3>2 DEF Descripteurs
  <2>3. ASSUME NEW f \in Files, f > lances' PROVE requetes'[f] = <<>>
    BY <1>1, <2>3 DEF Descripteurs
  <2> QED BY <1>1, <1>2, <2>1, <2>2, <2>3 DEF Descripteurs
<1>5. Exclusion'
  BY <1>1 DEF Contenus, MqTypeOK, Descripteurs, Exclusion, Actifs, EtatsServeur
<1> QED BY <1>3, <1>4, <1>5

LEMMA PasOuvrirReponses == MqIInv /\ OuvrirReponses => MqIInv'
<1> SUFFICES ASSUME MqIInv, OuvrirReponses PROVE MqIInv'
  OBVIOUS
<1> USE MqBornes DEF MqIInv
<1>1. prog # "aucun" /\ lances \in Files
  BY DEF OuvrirReponses, Descripteurs
<1>2. nomRep' \in Files /\ srep' \in Files
  BY <1>1 DEF OuvrirReponses, Contenus, MqTypeOK
<1>3. Contenus'
  BY <1>2 DEF OuvrirReponses, client, Contenus, MqTypeOK, EtatsServeur
<1>4. Descripteurs'
  BY <1>1, <1>2 DEF OuvrirReponses, client, Contenus, MqTypeOK, Descripteurs, EtatsServeur
<1>5. Exclusion'
  BY DEF OuvrirReponses, Contenus, MqTypeOK, Exclusion, Actifs, EtatsServeur
<1> QED BY <1>3, <1>4, <1>5

LEMMA PasTraiterMessage == ASSUME NEW t \in Fils PROVE MqIInv /\ TraiterMessage(t) => MqIInv'
<1> SUFFICES ASSUME MqIInv, TraiterMessage(t) PROVE MqIInv'
  OBVIOUS
<1> USE MqBornes DEF MqIInv
<1>0. prog # "aucun" /\ sreq \in Files /\ (pc[t] = "repondre" => srep \in Files)
  BY DEF TraiterMessage, DemanderNotification, RecevoirMessage, Repondre, DetruireRequetes, DetruireReponses,
    Descripteurs, Exclusion, Actifs
<1>1. CASE DemanderNotification(t)
  <2>1. CASE arme
    BY <1>1, <2>1, PasQuitter DEF DemanderNotification, files
  <2>2. CASE ~arme
    <3>1. /\ arme' = TRUE /\ pc' = [pc EXCEPT ![t] = IF t = Main THEN "veille" ELSE "aucun"]
          /\ UNCHANGED <<files, client, attendu, lances, prog, sreq, srep, msg>> /\ pc[t] = "rearmer"
      BY <1>1, <2>2 DEF DemanderNotification
    <3>2. Contenus'
      BY <3>1 DEF files, client, Contenus, MqTypeOK, EtatsServeur
    <3>3. Descripteurs'
      BY <1>0, <3>1 DEF files, client, Contenus, MqTypeOK, Descripteurs, EtatsServeur
    <3>4. Exclusion'
      BY <3>1 DEF Contenus, MqTypeOK, Exclusion, Actifs, EtatsServeur
    <3> QED BY <3>2, <3>3, <3>4
  <2> QED BY <2>1, <2>2
<1>2. CASE RecevoirMessage(t)
  <2>1. Head(requetes[sreq]) \in Clients /\ Tail(requetes[sreq]) \in Seq(Clients)
        /\ Len(Tail(requetes[sreq])) <= MaxMsg
    BY <1>0, <1>2 DEF RecevoirMessage, Contenus, MqTypeOK
  <2>2. Contenus'
    BY <1>0, <1>2, <2>1 DEF RecevoirMessage, client, Contenus, MqTypeOK, EtatsServeur
  <2>3. Descripteurs'
    BY <1>0, <1>2 DEF RecevoirMessage, client, Contenus, MqTypeOK, Descripteurs, EtatsServeur
  <2>4. Exclusion'
    BY <1>2 DEF RecevoirMessage, Contenus, MqTypeOK, Exclusion, Actifs, EtatsServeur
  <2> QED BY <2>2, <2>3, <2>4
<1>3. CASE Repondre(t)
  <2>1. Reponse(msg[t]) \in Clients \cup {Adieu}
    BY DEF Contenus, MqTypeOK, Reponse
  <2>2. /\ Append(reponses[srep], Reponse(msg[t])) \in Seq(Clients \cup {Adieu})
        /\ Len(Append(reponses[srep], Reponse(msg[t]))) <= MaxMsg
    BY <1>0, <1>3, <2>1 DEF Repondre, Contenus, MqTypeOK
  <2>3. Contenus'
    BY <1>0, <1>3, <2>2 DEF Repondre, client, Contenus, MqTypeOK, EtatsServeur
  <2>4. Descripteurs'
    BY <1>0, <1>3 DEF Repondre, client, Contenus, MqTypeOK, Descripteurs, EtatsServeur
  <2>5. Exclusion'
    BY <1>3 DEF Repondre, Contenus, MqTypeOK, Exclusion, Actifs, EtatsServeur
  <2> QED BY <2>3, <2>4, <2>5
<1>4. CASE DetruireRequetes(t)
  <2>1. Contenus'
    BY <1>4 DEF DetruireRequetes, client, Contenus, MqTypeOK, EtatsServeur
  <2>2. Descripteurs'
    BY <1>0, <1>4 DEF DetruireRequetes, client, Contenus, MqTypeOK, Descripteurs, EtatsServeur
  <2>3. Exclusion'
    BY <1>4 DEF DetruireRequetes, Contenus, MqTypeOK, Exclusion, Actifs, EtatsServeur
  <2> QED BY <2>1, <2>2, <2>3
<1>5. CASE DetruireReponses(t)
  BY <1>5, PasQuitter DEF DetruireReponses
<1> QED BY <1>1, <1>2, <1>3, <1>4, <1>5 DEF TraiterMessage

(* The end of a client's process.                                          *)
LEMMA PasFermer ==
  ASSUME MqIInv, NEW c \in Clients, NEW p \in {"fini", "echec", "tue"}, Fermer(c),
         cpc' = [cpc EXCEPT ![c] = p], UNCHANGED <<requetes, nomReq, nomRep, serveur>>
  PROVE  /\ cpc' \in [Clients -> EtatsClient]
         /\ creq' \in [Clients -> 0 .. MaxLancements] /\ crep' \in [Clients -> 0 .. MaxLancements]
         /\ Descripteurs' /\ Exclusion'
<1> USE DEF MqIInv
<1>1. 0 \in 0 .. MaxLancements /\ 0 <= lances
  BY MqBornes DEF Contenus, MqTypeOK
<1>2. /\ cpc' \in [Clients -> EtatsClient]
      /\ creq' \in [Clients -> 0 .. MaxLancements] /\ crep' \in [Clients -> 0 .. MaxLancements]
  BY <1>1 DEF Fermer, Contenus, MqTypeOK, EtatsClient
<1>3. \A d \in Clients : /\ cpc'[d] = IF d = c THEN p ELSE cpc[d]
                         /\ creq'[d] = IF d = c THEN 0 ELSE creq[d]
  BY DEF Fermer, Contenus, MqTypeOK
<1>4. Descripteurs'
  BY <1>1, <1>3 DEF serveur, Descripteurs
<1>5. Exclusion'
  BY DEF serveur, Exclusion, Actifs
<1> QED BY <1>2, <1>4, <1>5

LEMMA PasClient ==
  ASSUME NEW c \in Clients PROVE MqIInv /\ (OuvrirRequete(c) \/ Client(c) \/ Interrompre(c)) => MqIInv'
<1> SUFFICES ASSUME MqIInv, OuvrirRequete(c) \/ Client(c) \/ Interrompre(c) PROVE MqIInv'
  OBVIOUS
<1> USE MqBornes DEF MqIInv
<1>1. CASE OuvrirRequete(c)
  <2>1. Contenus' /\ Exclusion'
    BY <1>1 DEF OuvrirRequete, files, serveur, Contenus, MqTypeOK, EtatsClient, Exclusion, Actifs
  <2>2. Descripteurs'
    BY <1>1 DEF OuvrirRequete, files, serveur, Contenus, MqTypeOK, Descripteurs
  <2> QED BY <2>1, <2>2
<1>2. CASE OuvrirReponse(c)
  <2>1. /\ crep' = [crep EXCEPT ![c] = nomRep] /\ cpc' = [cpc EXCEPT ![c] = "envoyer"] /\ cpc[c] = "ouvrir_rep"
        /\ UNCHANGED <<files, serveur, creq, recu, attendu>>
    BY <1>2 DEF OuvrirReponse
  <2>2. crep' \in [Clients -> 0 .. MaxLancements] /\ cpc' \in [Clients -> EtatsClient]
    BY <2>1 DEF Contenus, MqTypeOK, EtatsClient
  <2>3. Contenus'
    BY <2>1, <2>2 DEF files, serveur, Contenus, MqTypeOK
  <2>4. \A d \in Clients : cpc'[d] \in {"ouvrir_rep", "envoyer", "attendre"}
                             => cpc[d] \in {"ouvrir_rep", "envoyer", "attendre"}
    BY <2>1 DEF Contenus, MqTypeOK
  <2>5. Descripteurs'
    BY <2>1, <2>4 DEF files, serveur, Descripteurs
  <2>6. Exclusion'
    BY <2>1 DEF serveur, Exclusion, Actifs
  <2> QED BY <2>3, <2>5, <2>6
<1>3. CASE Envoyer(c)
  <2>1. creq[c] \in Files /\ creq[c] <= lances
    BY <1>3 DEF Envoyer, Descripteurs
  <2>2. /\ Append(requetes[creq[c]], c) \in Seq(Clients)
        /\ Len(Append(requetes[creq[c]], c)) <= MaxMsg
    BY <1>3, <2>1 DEF Envoyer, Contenus, MqTypeOK
  <2>3. \/ UNCHANGED <<arme, pc>>
        \/ /\ arme /\ arme' = FALSE
           /\ \E t \in Threads : pc[t] = "aucun" /\ pc' = [pc EXCEPT ![t] = "recevoir"]
    BY <1>3 DEF Envoyer, Notifier
  <2>4. pc' \in [Fils -> EtatsServeur] /\ arme' \in BOOLEAN
    BY <2>3 DEF Contenus, MqTypeOK, EtatsServeur
  <2>5. attendu' \in [Clients -> SUBSET (Clients \cup {Adieu})]
    <3>1. ASSUME Relie(c) PROVE PlusAncienne(c) \subseteq Clients \cup {Adieu}
      <4>1. /\ reponses[srep] \in Seq(Clients \cup {Adieu}) /\ requetes[sreq] \in Seq(Clients)
            /\ \A t \in Fils : Reponse(msg[t]) \in Clients \cup {Adieu}
        BY <3>1 DEF Relie, Contenus, MqTypeOK, Descripteurs, Reponse, Files
      <4>2. Head(requetes[sreq] \o <<c>>) \in Clients
        BY <4>1
      <4>3. Reponse(Head(requetes[sreq] \o <<c>>)) \in Clients \cup {Adieu}
        BY <4>2 DEF Reponse
      <4>4. reponses[srep] # <<>> => Head(reponses[srep]) \in Clients \cup {Adieu}
        BY <4>1
      <4> QED BY <4>1, <4>3, <4>4 DEF PlusAncienne
    <3> QED BY <1>3, <3>1 DEF Envoyer, Contenus, MqTypeOK
  <2>6. Contenus'
    BY <1>3, <2>1, <2>2, <2>4, <2>5 DEF Envoyer, Contenus, MqTypeOK, EtatsClient
  <2>7. Descripteurs'
    <3>1. \A f \in Files : f > lances => requetes'[f] = <<>>
      <4>1. requetes' = [requetes EXCEPT ![creq[c]] = Append(@, c)] /\ lances' = lances
        BY <1>3 DEF Envoyer
      <4>2. \A f \in Files : f # creq[c] => requetes'[f] = requetes[f]
        BY <4>1 DEF Contenus
      <4>3. lances \in Nat
        BY DEF Contenus, MqTypeOK
      <4>4. \A f \in Files : f > lances => f # creq[c]
        BY <2>1, <4>3
      <4> QED BY <4>2, <4>4 DEF Descripteurs
    <3>2. prog = "aucun" => ~arme' /\ \A t \in Fils : pc'[t] = "aucun"
      BY <2>3 DEF Descripteurs
    <3>3. prog # "aucun" /\ pc'[Main] # "ouvrir_rep" => srep \in Files
      BY <2>3 DEF Descripteurs, Contenus, MqTypeOK
    <3>4. \A d \in Clients : cpc'[d] \in {"ouvrir_rep", "envoyer", "attendre"} => creq[d] \in Files
      <4>1. cpc' = [cpc EXCEPT ![c] = "attendre"]
        BY <1>3 DEF Envoyer
      <4>2. \A d \in Clients : d # c => cpc'[d] = cpc[d]
        BY <4>1 DEF Contenus, MqTypeOK
      <4> QED BY <2>1, <4>2 DEF Descripteurs
    <3>5. UNCHANGED <<prog, lances, nomReq, sreq, srep, creq>>
      BY <1>3 DEF Envoyer
    <3>6. pc'[Main] = "ouvrir_rep" => srep = 0
      BY <2>3 DEF Descripteurs, Contenus, MqTypeOK
    <3> QED BY <3>1, <3>2, <3>3, <3>4, <3>5, <3>6 DEF Descripteurs
  <2>8. Exclusion'
    <3>1. CASE UNCHANGED <<arme, pc>>
      BY <3>1 DEF Exclusion, Actifs
    <3>2. ASSUME arme, arme' = FALSE, NEW t \in Threads, pc' = [pc EXCEPT ![t] = "recevoir"]
          PROVE  Exclusion'
      BY <3>2 DEF Contenus, MqTypeOK, Exclusion, Actifs
    <3> QED BY <2>3, <3>1, <3>2
  <2> QED BY <2>6, <2>7, <2>8
<1>4. CASE RecevoirReponse(c)
  <2>1. CASE crep[c] = 0
    <3>1. Fermer(c) /\ cpc' = [cpc EXCEPT ![c] = "echec"] /\ UNCHANGED <<files, serveur, recu, attendu>>
      BY <1>4, <2>1 DEF RecevoirReponse, files
    <3> QED BY <3>1, PasFermer DEF files, serveur, Contenus, MqTypeOK
  <2>2. CASE crep[c] # 0
    <3>1. crep[c] \in Files
      BY <2>2 DEF Contenus, MqTypeOK
    <3>2. /\ Head(reponses[crep[c]]) \in Clients \cup {Adieu}
          /\ Tail(reponses[crep[c]]) \in Seq(Clients \cup {Adieu})
          /\ Len(Tail(reponses[crep[c]])) <= MaxMsg
      BY <1>4, <2>2, <3>1 DEF RecevoirReponse, Contenus, MqTypeOK
    <3>3. /\ recu' = [recu EXCEPT ![c] = {Head(reponses[crep[c]])}]
          /\ reponses' = [reponses EXCEPT ![crep[c]] = Tail(@)]
          /\ cpc' = [cpc EXCEPT ![c] = "fini"]
          /\ Fermer(c) /\ UNCHANGED <<requetes, nomReq, nomRep, serveur>>
          /\ attendu' = [d \in Clients |-> IF d # c /\ cpc[d] = "attendre" /\ crep[d] = crep[c]
                                           THEN {} ELSE attendu[d]]
      BY <1>4, <2>2 DEF RecevoirReponse
    <3>4. /\ recu' \in [Clients -> SUBSET (Clients \cup {Adieu})]
          /\ attendu' \in [Clients -> SUBSET (Clients \cup {Adieu})]
      BY <3>2, <3>3 DEF Contenus, MqTypeOK
    <3>5. /\ reponses' \in [Files -> Seq(Clients \cup {Adieu})]
          /\ \A f \in Files : Len(reponses'[f]) <= MaxMsg
      BY <3>1, <3>2, <3>3 DEF Contenus, MqTypeOK
    <3> QED BY <3>3, <3>4, <3>5, PasFermer DEF serveur, Contenus, MqTypeOK
  <2> QED BY <2>1, <2>2
<1>5. CASE Interrompre(c)
  BY <1>5, PasFermer DEF Interrompre, files, serveur, Contenus, MqTypeOK
<1> QED BY <1>1, <1>2, <1>3, <1>4, <1>5 DEF Client

LEMMA MqPas == MqIInv /\ [MqNext]_mqVars => MqIInv'
<1> SUFFICES ASSUME MqIInv, [MqNext]_mqVars PROVE MqIInv'
  OBVIOUS
<1>1. CASE TuerServeur
  BY <1>1, PasQuitter DEF TuerServeur, files
<1>2. CASE UNCHANGED mqVars
  BY <1>2 DEF mqVars, files, serveur, client, MqIInv, Contenus, MqTypeOK, Descripteurs, Exclusion, Actifs
<1> QED BY <1>1, <1>2, PasLancerServeur, PasOuvrirReponses, PasTraiterMessage, PasClient DEF MqNext

(* handle_request runs in one thread at most, and never finds the          *)
(* notification registered when it asks for it.                            *)
THEOREM UnSeulAppel == MqSpec => []UnSeulTraitement
<1>1. MqIInv => UnSeulTraitement
  <2> SUFFICES ASSUME MqIInv PROVE Cardinality(Actifs) <= 1
    BY DEF MqIInv, Contenus, Exclusion, UnSeulTraitement
  <2>1. CASE Actifs = {}
    BY <2>1, FS_EmptySet
  <2>2. ASSUME NEW s \in Actifs PROVE Cardinality(Actifs) = 1
    <3>1. Actifs = {s}
      BY DEF MqIInv, Exclusion
    <3> QED BY <3>1, FS_Singleton
  <2> QED BY <2>1, <2>2
<1>2. MqInit => MqIInv
  BY MqInitialisation DEF MqPInv
<1> QED BY <1>1, <1>2, MqPas, PTL DEF MqSpec

(* A message that arrives while others wait notifies nobody, and nothing   *)
(* but a message notifies: only the end of the process ends deafness.      *)
THEOREM Surdite == MqSpec => SourdPourToujours
<1>1. ASSUME MqIInv, [MqNext]_mqVars, Sourd PROVE Sourd' \/ prog' = "aucun"
  <2> USE <1>1, MqBornes
  <2>0. /\ prog = "notify" /\ arme /\ requetes[sreq] # <<>> /\ sreq \in Files
        /\ pc[Main] = "veille" /\ \A t \in Threads : pc[t] = "aucun"
    BY DEF Sourd, MqIInv, Descripteurs, Exclusion, Actifs
  <2>1. ~LancerServeur /\ ~OuvrirReponses /\ \A t \in Fils : ~TraiterMessage(t)
    BY <2>0 DEF LancerServeur, OuvrirReponses, TraiterMessage, DemanderNotification, RecevoirMessage, Repondre,
      DetruireRequetes, DetruireReponses
  <2>2. CASE TuerServeur
    BY <2>2 DEF TuerServeur, Quitter
  <2>3. ASSUME NEW c \in Clients, Envoyer(c) PROVE Sourd'
    <3>1. UNCHANGED <<arme, pc, prog, sreq>>
      BY <2>0, <2>3 DEF Envoyer, Notifier
    <3>2. requetes'[sreq] # <<>>
      <4>1. CASE creq[c] = sreq
        <5>1. requetes'[sreq] = Append(requetes[sreq], c) /\ requetes[sreq] \in Seq(Clients)
          BY <2>0, <2>3, <4>1 DEF Envoyer, MqIInv, Contenus
        <5> QED BY <5>1
      <4>2. CASE creq[c] # sreq
        BY <2>0, <2>3, <4>2 DEF Envoyer, MqIInv, Contenus
      <4> QED BY <4>1, <4>2
    <3> QED BY <2>0, <3>1, <3>2 DEF Sourd, Actifs
  <2>4. ASSUME NEW c \in Clients, OuvrirRequete(c) \/ OuvrirReponse(c) \/ RecevoirReponse(c) \/ Interrompre(c)
        PROVE  Sourd'
    <3>1. UNCHANGED <<requetes, serveur>>
      BY <2>4 DEF OuvrirRequete, OuvrirReponse, RecevoirReponse, Interrompre, files
    <3> QED BY <3>1 DEF serveur, Sourd, Actifs
  <2>5. CASE UNCHANGED mqVars
    BY <2>5 DEF mqVars, files, serveur, Sourd, Actifs
  <2> QED BY <2>1, <2>2, <2>3, <2>4, <2>5 DEF MqNext, Client
<1>2. MqIInv /\ [MqNext]_mqVars => [Sourd => Sourd' \/ prog' = "aucun"]_mqVars
  BY <1>1
<1>3. MqInit => MqIInv
  BY MqInitialisation DEF MqPInv
<1> QED BY <1>2, <1>3, MqPas, PTL DEF MqSpec, SourdPourToujours
-----------------------------------------------------------------------------
(* One thread at most has a request in hand, or is about to take one.      *)
LEMMA SeulEnMain ==
  ASSUME MqIInv, NEW t \in Fils, NEW u \in Fils,
         pc[t] \in {"recevoir", "repondre"}, pc[u] \in {"recevoir", "repondre"}
  PROVE  t = u
BY MqBornes DEF MqIInv, Exclusion, Actifs

(* The steps of the server: the end of its process, and the others.        *)
LEMMA PriveQuitter ==
  ASSUME NEW c \in Clients, MqIInv, Prive(c), Quitter, UNCHANGED <<requetes, reponses, client>>
  PROVE  Prive(c)'
<1> SUFFICES ASSUME attendu'[c] # {} PROVE Prive(c)'
  BY DEF Prive
<1>1. attendu'[c] = attendu[c] /\ ~(cpc[c] = "attendre" /\ crep[c] \in Files /\ reponses[crep[c]] = <<>>)
  BY DEF Quitter
<1> QED BY <1>1 DEF client, Prive

LEMMA PriveServeur ==
  ASSUME NEW c \in Clients, MqIInv, Prive(c), UNCHANGED <<client, attendu>>,
         LancerServeur \/ OuvrirReponses \/ \E t \in Fils : TraiterMessage(t)
  PROVE  Prive(c)'
<1> USE MqBornes DEF MqIInv
<1> DEFINE fileRep == reponses[crep[c]]
<1> DEFINE But ==
      /\ fileRep' # <<>> => attendu[c] = {Head(fileRep')}
      /\ fileRep' = <<>> =>
           /\ prog' # "aucun" /\ pc'[Main] # "ouvrir_rep" /\ crep[c] = srep'
           /\ \A t \in Fils : pc'[t] = "repondre" => attendu[c] = {Reponse(msg'[t])}
           /\ \/ \E t \in Fils : pc'[t] = "repondre"
              \/ requetes'[sreq'] # <<>> /\ attendu[c] = {Reponse(Head(requetes'[sreq']))}
<1> SUFFICES ASSUME attendu[c] # {}, cpc[c] = "attendre" PROVE But
  BY DEF client, Prive
<1>1. /\ crep[c] \in Files /\ fileRep \in Seq(Clients \cup {Adieu})
      /\ fileRep # <<>> => attendu[c] = {Head(fileRep)}
      /\ fileRep = <<>> =>
           /\ prog # "aucun" /\ pc[Main] # "ouvrir_rep" /\ crep[c] = srep
           /\ \A t \in Fils : pc[t] = "repondre" => attendu[c] = {Reponse(msg[t])}
           /\ \/ \E t \in Fils : pc[t] = "repondre"
              \/ requetes[sreq] # <<>> /\ attendu[c] = {Reponse(Head(requetes[sreq]))}
  BY DEF Prive, Contenus
<1>2. CASE LancerServeur \/ OuvrirReponses
  <2>1. fileRep # <<>> /\ UNCHANGED <<reponses, crep>>
    BY <1>1, <1>2 DEF LancerServeur, OuvrirReponses, client
  <2> QED BY <1>1, <2>1
<1>3. ASSUME NEW t \in Fils, (DemanderNotification(t) /\ ~arme) \/ DetruireRequetes(t)
      PROVE  /\ UNCHANGED <<requetes, reponses, prog, sreq, srep, msg, crep>>
             /\ \A u \in Fils : pc'[u] = "repondre" <=> pc[u] = "repondre"
             /\ pc[Main] # "ouvrir_rep" => pc'[Main] # "ouvrir_rep"
  BY <1>3 DEF DemanderNotification, DetruireRequetes, files, client, Contenus, MqTypeOK
<1>4. ASSUME NEW t \in Fils, RecevoirMessage(t), fileRep' = <<>>
      PROVE  /\ prog' # "aucun" /\ pc'[Main] # "ouvrir_rep" /\ crep[c] = srep' /\ pc'[t] = "repondre"
             /\ \A u \in Fils : pc'[u] = "repondre" => attendu[c] = {Reponse(msg'[u])}
  <2>1. /\ pc[t] = "recevoir" /\ requetes[sreq] # <<>> /\ msg' = [msg EXCEPT ![t] = Head(requetes[sreq])]
        /\ pc' = [pc EXCEPT ![t] = "repondre"] /\ UNCHANGED <<reponses, crep, prog, sreq, srep>>
    BY <1>4 DEF RecevoirMessage, client
  <2>2. \A u \in Fils : pc[u] # "repondre"
    BY <2>1, SeulEnMain
  <2>3. attendu[c] = {Reponse(Head(requetes[sreq]))}
    BY <1>1, <1>4, <2>1, <2>2
  <2>4. pc'[t] = "repondre" /\ msg'[t] = Head(requetes[sreq]) /\ \A u \in Fils \ {t} : pc'[u] = pc[u]
    BY <2>1 DEF Contenus, MqTypeOK
  <2>5. \A u \in Fils : pc'[u] = "repondre" => u = t
    BY <2>2, <2>4
  <2> QED BY <1>1, <1>4, <2>1, <2>3, <2>4, <2>5
<1>5. ASSUME NEW t \in Fils, Repondre(t)
      PROVE  fileRep' # <<>> /\ attendu[c] = {Head(fileRep')}
  <2>1. /\ pc[t] = "repondre" /\ reponses' = [reponses EXCEPT ![srep] = Append(@, Reponse(msg[t]))]
        /\ UNCHANGED crep
    BY <1>5 DEF Repondre, client
  <2>2. CASE crep[c] = srep
    <3>1. fileRep' = Append(fileRep, Reponse(msg[t]))
      BY <1>1, <2>1, <2>2 DEF Contenus
    <3>2. fileRep' # <<>> /\ Head(fileRep') = IF fileRep = <<>> THEN Reponse(msg[t]) ELSE Head(fileRep)
      BY <1>1, <3>1
    <3> QED BY <1>1, <2>1, <3>2
  <2>3. CASE crep[c] # srep
    <3>1. fileRep' = fileRep
      BY <1>1, <2>1, <2>3 DEF Contenus
    <3> QED BY <1>1, <2>3, <3>1
  <2> QED BY <2>2, <2>3
<1>6. ASSUME NEW t \in Fils, (DemanderNotification(t) /\ arme) \/ DetruireReponses(t)
      PROVE  Quitter /\ UNCHANGED <<requetes, reponses, client>>
  BY <1>6 DEF DemanderNotification, DetruireReponses, files
<1>7. ASSUME NEW t \in Fils, RecevoirMessage(t) PROVE UNCHANGED <<reponses, crep>>
  BY <1>7 DEF RecevoirMessage, client
<1>8. ASSUME NEW t \in Fils, (DemanderNotification(t) /\ ~arme) \/ DetruireRequetes(t) PROVE But
  BY <1>1, <1>3, <1>8
<1>9. ASSUME NEW t \in Fils, (DemanderNotification(t) /\ arme) \/ DetruireReponses(t) PROVE But
  <2>1. Quitter /\ UNCHANGED <<reponses, client>>
    BY <1>6, <1>9
  <2>2. fileRep # <<>> /\ fileRep' = fileRep
    BY <1>1, <2>1 DEF Quitter, client
  <2> QED BY <1>1, <2>2
<1>10. ASSUME NEW t \in Fils, TraiterMessage(t) PROVE But
  <2>1. CASE RecevoirMessage(t)
    BY <1>1, <1>4, <1>7, <2>1
  <2>2. CASE Repondre(t)
    BY <1>5, <2>2
  <2> QED BY <1>8, <1>9, <1>10, <2>1, <2>2 DEF TraiterMessage
<1> QED BY <1>2, <1>10

(* The steps of the clients: one that reads before c ends its expectation. *)
LEMMA PriveEnvoyer ==
  ASSUME NEW c \in Clients, MqIInv, Envoyer(c) PROVE Prive(c)'
<1> USE MqBornes DEF MqIInv
<1>1. /\ cpc' = [cpc EXCEPT ![c] = "attendre"] /\ requetes' = [requetes EXCEPT ![creq[c]] = Append(@, c)]
      /\ attendu' = [attendu EXCEPT ![c] = IF Relie(c) THEN PlusAncienne(c) ELSE {}]
      /\ UNCHANGED <<reponses, prog, sreq, srep, msg, crep>>
      /\ creq[c] \in Files
  BY DEF Envoyer, Descripteurs
<1>2. /\ cpc'[c] = "attendre" /\ attendu'[c] = IF Relie(c) THEN PlusAncienne(c) ELSE {}
  BY <1>1 DEF Contenus, MqTypeOK
<1> SUFFICES ASSUME Relie(c) PROVE Prive(c)'
  BY <1>2 DEF Prive
<1>3. /\ prog # "aucun" /\ creq[c] = sreq /\ crep[c] = srep /\ srep \in Files /\ pc[Main] # "ouvrir_rep"
  BY DEF Relie, Contenus, MqTypeOK, Descripteurs, Files
<1>4. /\ \A t \in Fils : pc'[t] = "repondre" <=> pc[t] = "repondre"
      /\ pc'[Main] # "ouvrir_rep"
  BY <1>3 DEF Envoyer, Notifier, Contenus, MqTypeOK
<1>5. /\ requetes[sreq] \in Seq(Clients) /\ requetes'[sreq] = Append(requetes[sreq], c)
  BY <1>1, <1>3 DEF Contenus
<1>6. requetes'[sreq] # <<>> /\ Head(requetes'[sreq]) = Head(requetes[sreq] \o <<c>>)
  BY <1>5
<1>7. CASE reponses[srep] # <<>>
  BY <1>1, <1>2, <1>3, <1>7 DEF PlusAncienne, Prive
<1>8. ASSUME reponses[srep] = <<>>, NEW t \in Fils, pc[t] = "repondre" PROVE Prive(c)'
  <2>1. \A u \in Fils : pc[u] = "repondre" => u = t
    BY <1>8, SeulEnMain
  <2>2. PlusAncienne(c) = {Reponse(msg[t])}
    BY <1>8, <2>1 DEF PlusAncienne
  <2> QED BY <1>1, <1>2, <1>3, <1>4, <1>8, <2>1, <2>2 DEF Prive
<1>9. CASE reponses[srep] = <<>> /\ \A t \in Fils : pc[t] # "repondre"
  <2>1. PlusAncienne(c) = {Reponse(Head(requetes[sreq] \o <<c>>))}
    BY <1>9 DEF PlusAncienne
  <2> QED BY <1>1, <1>2, <1>3, <1>4, <1>6, <1>9, <2>1 DEF Prive
<1> QED BY <1>7, <1>8, <1>9

LEMMA PriveClient ==
  ASSUME NEW c \in Clients, MqIInv, Prive(c), NEW d \in Clients,
         OuvrirRequete(d) \/ Client(d) \/ Interrompre(d)
  PROVE  Prive(c)'
<1> USE MqBornes DEF MqIInv
<1>1. CASE Envoyer(d) /\ c # d
  <2>1. /\ cpc'[c] = cpc[c] /\ attendu'[c] = attendu[c]
        /\ requetes' = [requetes EXCEPT ![creq[d]] = Append(@, d)]
        /\ UNCHANGED <<reponses, prog, sreq, srep, msg, crep, recu>>
    BY <1>1 DEF Envoyer, Contenus, MqTypeOK
  <2>2. /\ \A t \in Fils : pc'[t] = "repondre" <=> pc[t] = "repondre"
        /\ pc[Main] # "ouvrir_rep" => pc'[Main] # "ouvrir_rep"
    BY <1>1 DEF Envoyer, Notifier, Contenus, MqTypeOK
  <2>3. ASSUME prog # "aucun", requetes[sreq] # <<>>
        PROVE  requetes'[sreq] # <<>> /\ Head(requetes'[sreq]) = Head(requetes[sreq])
    <3>1. requetes[sreq] \in Seq(Clients) /\ sreq \in Files
      BY <2>3 DEF Contenus, Descripteurs
    <3>2. requetes'[sreq] \in {requetes[sreq], Append(requetes[sreq], d)}
      BY <2>1, <3>1 DEF Contenus
    <3> QED BY <2>3, <3>1, <3>2
  <2> QED BY <2>1, <2>2, <2>3 DEF Prive
<1>2. CASE RecevoirReponse(d) /\ crep[d] # 0
  <2>1. /\ reponses' = [reponses EXCEPT ![crep[d]] = Tail(@)] /\ reponses[crep[d]] # <<>>
        /\ recu' = [recu EXCEPT ![d] = {Head(reponses[crep[d]])}] /\ crep[d] \in Files
        /\ cpc[d] = "attendre" /\ cpc' = [cpc EXCEPT ![d] = "fini"] /\ crep' = [crep EXCEPT ![d] = 0]
        /\ attendu' = [e \in Clients |-> IF e # d /\ cpc[e] = "attendre" /\ crep[e] = crep[d]
                                         THEN {} ELSE attendu[e]]
        /\ UNCHANGED <<requetes, prog, sreq, srep, pc, msg>>
    <3>1. crep[d] \in Files
      BY <1>2 DEF Contenus, MqTypeOK
    <3> QED BY <1>2, <3>1 DEF RecevoirReponse, Fermer, serveur
  <2>2. CASE c = d
    <3>1. cpc'[c] = "fini" /\ attendu'[c] = attendu[c] /\ recu'[c] = {Head(reponses[crep[c]])}
      BY <2>1, <2>2 DEF Contenus, MqTypeOK
    <3> QED BY <2>1, <2>2, <3>1 DEF Prive
  <2>3. CASE c # d
    <3>1. cpc'[c] = cpc[c] /\ crep'[c] = crep[c] /\ recu'[c] = recu[c]
      BY <2>1, <2>3 DEF Contenus, MqTypeOK
    <3>2. CASE cpc[c] = "attendre" /\ crep[c] = crep[d]
      BY <2>1, <2>3, <3>2 DEF Prive
    <3>3. CASE ~(cpc[c] = "attendre" /\ crep[c] = crep[d])
      <4>1. attendu'[c] = attendu[c]
        BY <2>1, <3>3
      <4>2. crep[c] \in Files /\ cpc[c] = "attendre" => reponses'[crep[c]] = reponses[crep[c]]
        BY <2>1, <3>3 DEF Contenus
      <4> QED BY <2>1, <3>1, <4>1, <4>2 DEF Prive
    <3> QED BY <3>2, <3>3
  <2> QED BY <2>2, <2>3
<1>3. CASE OuvrirRequete(d) \/ OuvrirReponse(d) \/ Interrompre(d) \/ (RecevoirReponse(d) /\ crep[d] = 0)
  <2>1. /\ UNCHANGED <<files, serveur, attendu, recu>>
        /\ \A e \in Clients : cpc'[e] \in {"attendre", "fini"} => cpc'[e] = cpc[e] /\ crep'[e] = crep[e]
    <3>1. /\ UNCHANGED <<files, serveur, attendu, recu>>
          /\ \E p \in {"echec", "ouvrir_rep", "envoyer", "tue"} : cpc' = [cpc EXCEPT ![d] = p]
          /\ crep' = crep \/ \E n : crep' = [crep EXCEPT ![d] = n]
      BY <1>3 DEF OuvrirRequete, OuvrirReponse, RecevoirReponse, Interrompre, Fermer, files
    <3>2. PICK p \in {"echec", "ouvrir_rep", "envoyer", "tue"} : cpc' = [cpc EXCEPT ![d] = p]
      BY <3>1
    <3>3. \A e \in Clients : e # d => cpc'[e] = cpc[e] /\ crep'[e] = crep[e]
      BY <3>1, <3>2 DEF Contenus, MqTypeOK
    <3>4. cpc'[d] \notin {"attendre", "fini"}
      BY <3>2 DEF Contenus, MqTypeOK
    <3> QED BY <3>1, <3>3, <3>4
  <2> QED BY <2>1 DEF files, serveur, Prive
<1> QED BY <1>1, <1>2, <1>3, PriveEnvoyer DEF Client

LEMMA PrivePas == MqPInv /\ [MqNext]_mqVars => MqPInv'
<1> SUFFICES ASSUME MqPInv, [MqNext]_mqVars, NEW c \in Clients PROVE Prive(c)'
  BY MqPas DEF MqPInv
<1>1. MqIInv /\ Prive(c)
  BY DEF MqPInv
<1>2. CASE TuerServeur \/ \E t \in Fils : (DemanderNotification(t) /\ arme) \/ DetruireReponses(t)
  <2>1. Quitter /\ UNCHANGED <<requetes, reponses, client>>
    BY <1>2 DEF TuerServeur, DemanderNotification, DetruireReponses, files
  <2> QED BY <1>1, <2>1, PriveQuitter
<1>3. ASSUME LancerServeur \/ OuvrirReponses \/ \E t \in Fils : TraiterMessage(t),
             ~\E t \in Fils : (DemanderNotification(t) /\ arme) \/ DetruireReponses(t)
      PROVE  Prive(c)'
  <2>1. UNCHANGED <<client, attendu>>
    BY <1>3 DEF LancerServeur, OuvrirReponses, TraiterMessage, DemanderNotification, RecevoirMessage, Repondre,
      DetruireRequetes
  <2> QED BY <1>1, <1>3, <2>1, PriveServeur
<1>4. CASE UNCHANGED mqVars
  BY <1>1, <1>4 DEF mqVars, files, serveur, client, Prive
<1> QED BY <1>1, <1>2, <1>3, <1>4, PriveClient DEF MqNext

(* What a client reads is the oldest answer that was due when it sent, if  *)
(* nobody reads before it and the server lives until the reply is there.   *)
THEOREM Reponses == MqSpec => []ReponseDue
<1>1. MqPInv => ReponseDue
  BY DEF MqPInv, Prive, ReponseDue
<1> QED BY <1>1, MqInitialisation, PrivePas, PTL DEF MqSpec
=============================================================================
