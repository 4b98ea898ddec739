-------------------------- MODULE PointerPipeProofs --------------------------
(***************************************************************************)
(* Ownership of the blocks of tube_malloc.c, and what the server of        *)
(* pointers implements, for every number of handlers, of requests, of      *)
(* addresses, and every capacity of the pipe.                              *)
(***************************************************************************)
EXTENDS PointerPipe, FiniteSetTheorems, SequenceTheorems, TLAPS

Occupes == {t \in Traiteurs : tpc[t] \in {"teste", "traite", "libere"}}

(* What is in each block is the rank of a message, and the ranks tell the  *)
(* blocks of the pipe from those of the handlers (taken before) and from   *)
(* the one of the distributor (not sent yet, or 0 before it is filled).    *)
DansLeTube ==
  /\ sent = taken + Len(tube)
  /\ \A i \in 1..Len(tube) : bloc[tube[i]] = taken + i

AuDistributeur ==
  /\ dpc = "remplit" => dreq \in Adresses /\ bloc[dreq] = 0 /\ sent < Total
  /\ dpc = "envoie" => dreq \in Adresses /\ bloc[dreq] = sent + 1 /\ sent < Total

AuxTraiteurs ==
  /\ \A t \in Occupes : /\ treq[t] \in Adresses /\ bloc[treq[t]] \in 1..taken
                        /\ tpc[t] = "traite" => EstRequete(bloc[treq[t]])
  /\ \A t \in Traiteurs \ Occupes : treq[t] = NULL
  /\ \A t, u \in Occupes : treq[t] = treq[u] => t = u

SansFuite == \A a \in Alloues :
  \/ \E i \in 1..Len(tube) : tube[i] = a
  \/ \E t \in Occupes : treq[t] = a
  \/ dpc \in {"remplit", "envoie"} /\ dreq = a

Fins == \A t \in Traiteurs :
  IF tpc[t] = "fini" THEN tfin[t] > NbReq ELSE tfin[t] = 0

IInv == TypeOK /\ DansLeTube /\ AuDistributeur /\ AuxTraiteurs /\ SansFuite /\ Fins

Places == {"attend", "teste", "traite", "libere", "fini"}

-----------------------------------------------------------------------------
(* The types every step starts from. *)
LEMMA Bornes ==
  ASSUME TypeOK
  PROVE  /\ N \in Nat /\ NbReq \in Nat /\ Total = NbReq + N /\ Total \in Nat
         /\ Libre \notin Nat /\ NULL \notin Adresses
         /\ sent \in Nat /\ taken \in Nat /\ sent <= Total
         /\ tube \in Seq(Adresses) /\ Len(tube) \in Nat
         /\ \A i \in 1..Len(tube) : tube[i] \in Adresses
         /\ tpc \in [Traiteurs -> Places]
         /\ bloc \in [Adresses -> 0..Total \union {Libre}]
<1>1. N \in Nat
  BY PointerPipeAssumption, FS_CardinalityType DEF N
<1> QED BY <1>1, PointerPipeAssumption DEF TypeOK, Total, Places

LEMMA Initialisation == Init => IInv
<1> SUFFICES ASSUME Init PROVE IInv
  OBVIOUS
<1>1. N \in Nat /\ Total \in Nat
  BY PointerPipeAssumption, FS_CardinalityType DEF N, Total
<1> QED BY <1>1, PointerPipeAssumption
        DEF Init, IInv, TypeOK, DansLeTube, AuDistributeur, AuxTraiteurs, SansFuite, Fins,
            Occupes, Alloues

(* malloc, the simulator, the pipe. *)
LEMMA PasDistributeur == IInv /\ Distributeur => IInv'
<1> SUFFICES ASSUME IInv, Distributeur PROVE IInv'
  OBVIOUS
<1> USE DEF IInv
<1>0. /\ N \in Nat /\ NbReq \in Nat /\ Total = NbReq + N /\ Total \in Nat
      /\ Libre \notin Nat /\ NULL \notin Adresses
      /\ sent \in Nat /\ taken \in Nat /\ sent <= Total
      /\ tube \in Seq(Adresses) /\ Len(tube) \in Nat
      /\ \A i \in 1..Len(tube) : tube[i] \in Adresses
      /\ tpc \in [Traiteurs -> Places]
      /\ bloc \in [Adresses -> 0..Total \union {Libre}]
  BY Bornes
<1>1. CASE Allouer
  <2>1. PICK a \in Adresses \ Alloues : dreq' = a /\ bloc' = [bloc EXCEPT ![a] = 0]
    BY <1>1 DEF Allouer
  <2>2. bloc[a] = Libre
    BY <2>1 DEF Alloues
  <2>3. /\ dpc' = "remplit" /\ sent < Total
        /\ UNCHANGED <<tube, sent, tpc, treq, tfin, taken, treated, vivant>>
    BY <1>1 DEF Allouer
  <2>4. TypeOK'
    BY <1>0, <2>1, <2>3 DEF TypeOK
  <2>5. DansLeTube'
    BY <1>0, <2>1, <2>2, <2>3 DEF DansLeTube
  <2>6. AuDistributeur'
    BY <1>0, <2>1, <2>3 DEF AuDistributeur, Total, N
  <2>7. AuxTraiteurs'
    BY <1>0, <2>1, <2>2, <2>3 DEF AuxTraiteurs, Occupes, EstRequete
  <2>8. SansFuite'
    BY <1>0, <1>1, <2>1, <2>3 DEF SansFuite, Alloues, Occupes, Allouer
  <2>9. Fins'
    BY <2>3 DEF Fins
  <2> QED BY <2>4, <2>5, <2>6, <2>7, <2>8, <2>9
<1>2. CASE AllouerEchoue
  BY <1>0, <1>2 DEF AllouerEchoue, TypeOK, DansLeTube, AuDistributeur, AuxTraiteurs, SansFuite,
                    Fins, Occupes, Alloues
<1>3. CASE Remplir
  <2>1. /\ dreq \in Adresses /\ bloc[dreq] = 0 /\ sent < Total /\ sent + 1 \in 0..Total
        /\ bloc' = [bloc EXCEPT ![dreq] = sent + 1] /\ dpc' = "envoie" /\ dpc = "remplit"
        /\ UNCHANGED <<tube, dreq, sent, tpc, treq, tfin, taken, treated, vivant>>
    BY <1>0, <1>3 DEF Remplir, AuDistributeur
  <2>2. TypeOK'
    BY <1>0, <2>1 DEF TypeOK
  <2>3. DansLeTube'
    BY <1>0, <2>1 DEF DansLeTube
  <2>4. AuDistributeur'
    BY <1>0, <2>1 DEF AuDistributeur, Total, N
  <2>5. AuxTraiteurs'
    BY <1>0, <2>1 DEF AuxTraiteurs, Occupes, EstRequete
  <2>6. SansFuite'
    BY <1>0, <2>1 DEF SansFuite, Alloues, Occupes
  <2>7. Fins'
    BY <2>1 DEF Fins
  <2> QED BY <2>2, <2>3, <2>4, <2>5, <2>6, <2>7
<1>4. CASE EnvoyerVersThreadTraiteur
  <2>1. /\ dreq \in Adresses /\ bloc[dreq] = sent + 1 /\ sent + 1 \in 0..Total
        /\ tube' = Append(tube, dreq) /\ sent' = sent + 1 /\ dpc = "envoie" /\ dpc' = "alloue"
        /\ Len(tube) < Capacite
        /\ UNCHANGED <<bloc, dreq, tpc, treq, tfin, taken, treated, vivant>>
    BY <1>0, <1>4 DEF EnvoyerVersThreadTraiteur, AuDistributeur
  <2>2. /\ tube' \in Seq(Adresses) /\ Len(tube') = Len(tube) + 1
        /\ \A i \in 1..Len(tube) : tube'[i] = tube[i]
        /\ tube'[Len(tube) + 1] = dreq
    BY <1>0, <2>1, AppendProperties
  <2>3. TypeOK'
    BY <1>0, <2>1, <2>2, PointerPipeAssumption DEF TypeOK
  <2>4. DansLeTube'
    <3>1. sent' = taken' + Len(tube')
      BY <1>0, <2>1, <2>2 DEF DansLeTube
    <3>2. ASSUME NEW i \in 1..Len(tube') PROVE bloc'[tube'[i]] = taken' + i
      <4>1. CASE i = Len(tube) + 1
        BY <1>0, <2>1, <2>2, <4>1 DEF DansLeTube
      <4>2. CASE i # Len(tube) + 1
        <5>1. i \in 1..Len(tube)
          BY <1>0, <2>2, <4>2
        <5> QED BY <2>1, <2>2, <5>1 DEF DansLeTube
      <4> QED BY <4>1, <4>2
    <3> QED BY <3>1, <3>2 DEF DansLeTube
  <2>5. SansFuite'
    <3>1. ASSUME NEW a \in Alloues
          PROVE  \/ \E i \in 1..Len(tube') : tube'[i] = a
                 \/ \E t \in Occupes : treq[t] = a
      <4>1. CASE dreq = a
        BY <1>0, <2>2, <4>1
      <4>2. CASE \E i \in 1..Len(tube) : tube[i] = a
        BY <1>0, <2>2, <4>2
      <4> QED BY <4>1, <4>2 DEF SansFuite
    <3> QED BY <2>1, <3>1 DEF SansFuite, Alloues, Occupes
  <2>6. AuDistributeur' /\ AuxTraiteurs' /\ Fins'
    BY <2>1 DEF AuDistributeur, AuxTraiteurs, Occupes, Fins
  <2> QED BY <2>3, <2>4, <2>5, <2>6
<1>5. CASE Joindre
  BY <1>0, <1>5 DEF Joindre, TypeOK, DansLeTube, AuDistributeur, AuxTraiteurs, SansFuite,
                    Fins, Occupes, Alloues
<1> QED BY <1>1, <1>2, <1>3, <1>4, <1>5 DEF Distributeur

(* A handler that holds a block shares it with nobody: what it writes      *)
(* there, or freeing it, disturbs neither the pipe nor the others.         *)
LEMMA APart ==
  ASSUME IInv, NEW t \in Occupes
  PROVE  /\ t \in Traiteurs /\ treq[t] \in Adresses /\ bloc[treq[t]] \in 1..taken
         /\ bloc[treq[t]] # Libre
         /\ \A i \in 1..Len(tube) : tube[i] # treq[t]
         /\ \A u \in Occupes \ {t} : treq[u] # treq[t]
         /\ dpc \in {"remplit", "envoie"} => dreq # treq[t]
<1> USE DEF IInv
<1>1. /\ t \in Traiteurs /\ treq[t] \in Adresses /\ bloc[treq[t]] \in 1..taken
      /\ \A u \in Occupes \ {t} : treq[u] # treq[t]
  BY DEF AuxTraiteurs, Occupes
<1>2. sent \in Nat /\ taken \in Nat /\ Len(tube) \in Nat /\ Libre \notin Nat /\ taken <= sent
  BY Bornes DEF DansLeTube
<1>3. ASSUME NEW i \in 1..Len(tube) PROVE tube[i] # treq[t]
  BY <1>1, <1>2, <1>3 DEF DansLeTube
<1>4. ASSUME dpc \in {"remplit", "envoie"} PROVE dreq # treq[t]
  BY <1>1, <1>2, <1>4 DEF AuDistributeur
<1> QED BY <1>1, <1>2, <1>3, <1>4

(* The block of a handler is freed, and the handler stops or reads again.  *)
LEMMA Rendu ==
  ASSUME IInv, NEW t \in Occupes, NEW p \in {"attend", "fini"},
         bloc' = [bloc EXCEPT ![treq[t]] = Libre], treq' = [treq EXCEPT ![t] = NULL],
         tpc' = [tpc EXCEPT ![t] = p],
         UNCHANGED <<tube, dpc, dreq, sent, taken, treated, vivant>>,
         tfin' \in [Traiteurs -> 0..Total]
  PROVE  TypeOK' /\ DansLeTube' /\ AuDistributeur' /\ AuxTraiteurs' /\ SansFuite'
<1> USE DEF IInv
<1>0. /\ N \in Nat /\ NbReq \in Nat /\ Total = NbReq + N /\ Total \in Nat
      /\ Libre \notin Nat /\ NULL \notin Adresses
      /\ sent \in Nat /\ taken \in Nat /\ sent <= Total
      /\ tube \in Seq(Adresses) /\ Len(tube) \in Nat
      /\ \A i \in 1..Len(tube) : tube[i] \in Adresses
      /\ tpc \in [Traiteurs -> Places]
      /\ bloc \in [Adresses -> 0..Total \union {Libre}]
  BY Bornes
<1>1. /\ t \in Traiteurs /\ treq[t] \in Adresses /\ bloc[treq[t]] # Libre
      /\ \A i \in 1..Len(tube) : tube[i] # treq[t]
      /\ \A u \in Occupes \ {t} : treq[u] # treq[t]
      /\ dpc \in {"remplit", "envoie"} => dreq # treq[t]
  BY APart
<1>2. Occupes' = Occupes \ {t} /\ treq \in [Traiteurs -> Adresses \union {NULL}]
  BY <1>0, <1>1 DEF Occupes, TypeOK, Places
<1>3. TypeOK'
  BY <1>0, <1>1 DEF TypeOK
<1>4. DansLeTube'
  BY <1>0, <1>1 DEF DansLeTube
<1>5. AuDistributeur'
  BY <1>0, <1>1 DEF AuDistributeur, Total, N
<1>6. AuxTraiteurs'
  <2>1. \A u \in Occupes' : /\ u \in Occupes /\ u # t /\ treq'[u] = treq[u] /\ tpc'[u] = tpc[u]
                            /\ treq[u] \in Adresses /\ bloc'[treq[u]] = bloc[treq[u]]
    BY <1>0, <1>1, <1>2 DEF AuxTraiteurs, Occupes
  <2>2. \A u \in Traiteurs \ Occupes' : treq'[u] = NULL
    BY <1>1, <1>2 DEF AuxTraiteurs
  <2> QED BY <2>1, <2>2 DEF AuxTraiteurs, EstRequete
<1>7. SansFuite'
  <2>1. ASSUME NEW a \in Alloues'
        PROVE  a \in Alloues /\ a # treq[t]
    BY <1>0, <1>1 DEF Alloues
  <2>2. ASSUME NEW a \in Alloues'
        PROVE  \/ \E i \in 1..Len(tube) : tube[i] = a
               \/ \E u \in Occupes' : treq'[u] = a
               \/ dpc \in {"remplit", "envoie"} /\ dreq = a
    BY <1>2, <2>1 DEF SansFuite, Occupes
  <2> QED BY <2>2 DEF SansFuite
<1> QED BY <1>3, <1>4, <1>5, <1>6, <1>7

(* The steps of a handler. *)
LEMMA PasTraiteur ==
  ASSUME IInv, NEW t \in Traiteurs, Traiteur(t)
  PROVE  IInv'
<1> USE DEF IInv
<1>0. /\ N \in Nat /\ NbReq \in Nat /\ Total = NbReq + N /\ Total \in Nat
      /\ Libre \notin Nat /\ NULL \notin Adresses
      /\ sent \in Nat /\ taken \in Nat /\ sent <= Total
      /\ tube \in Seq(Adresses) /\ Len(tube) \in Nat
      /\ \A i \in 1..Len(tube) : tube[i] \in Adresses
      /\ tpc \in [Traiteurs -> Places]
      /\ bloc \in [Adresses -> 0..Total \union {Libre}]
  BY Bornes
<1>1. CASE Lire(t)
  <2>1. /\ tpc[t] = "attend" /\ tube # <<>> /\ tpc' = [tpc EXCEPT ![t] = "teste"]
        /\ treq' = [treq EXCEPT ![t] = Head(tube)] /\ tube' = Tail(tube) /\ taken' = taken + 1
        /\ UNCHANGED <<bloc, dpc, dreq, sent, tfin, treated, vivant>>
    BY <1>1 DEF Lire
  <2>2. /\ Len(tube) >= 1 /\ Head(tube) = tube[1] /\ Head(tube) \in Adresses
        /\ tube' \in Seq(Adresses) /\ Len(tube') = Len(tube) - 1
        /\ \A i \in 1..Len(tube') : tube'[i] = tube[i + 1]
    BY <1>0, <2>1, HeadTailProperties, EmptySeq
  <2>3. bloc[Head(tube)] = taken + 1
    BY <1>0, <2>2 DEF DansLeTube
  <2>4. TypeOK'
    BY <1>0, <2>1, <2>2, PointerPipeAssumption DEF TypeOK, DansLeTube
  <2>5. DansLeTube'
    <3>1. sent' = taken' + Len(tube')
      BY <1>0, <2>1, <2>2 DEF DansLeTube
    <3>2. ASSUME NEW i \in 1..Len(tube') PROVE bloc'[tube'[i]] = taken' + i
      <4>1. i + 1 \in 1..Len(tube)
        BY <1>0, <2>2
      <4> QED BY <1>0, <2>1, <2>2, <4>1 DEF DansLeTube
    <3> QED BY <3>1, <3>2 DEF DansLeTube
  <2>6. t \notin Occupes /\ Occupes' = Occupes \union {t}
    BY <1>0, <2>1 DEF Occupes
  <2>7. AuxTraiteurs'
    <3>1. treq'[t] = Head(tube) /\ \A u \in Traiteurs \ {t} : treq'[u] = treq[u] /\ tpc'[u] = tpc[u]
      BY <2>1 DEF TypeOK
    <3>2. tpc'[t] = "teste"
      BY <1>0, <2>1
    <3>3. \A u \in Occupes : u \in Traiteurs /\ u # t /\ treq[u] # Head(tube)
      BY <1>0, <2>3, <2>6 DEF AuxTraiteurs, Occupes
    <3>4. \A u \in Occupes' : /\ treq'[u] \in Adresses /\ bloc'[treq'[u]] \in 1..taken'
                              /\ tpc'[u] = "traite" => EstRequete(bloc'[treq'[u]])
      <4>1. ASSUME NEW u \in Occupes
            PROVE  /\ treq'[u] \in Adresses /\ bloc'[treq'[u]] \in 1..taken'
                   /\ tpc'[u] = "traite" => EstRequete(bloc'[treq'[u]])
        BY <1>0, <2>1, <3>1, <3>3 DEF AuxTraiteurs
      <4>2. treq'[t] \in Adresses /\ bloc'[treq'[t]] \in 1..taken' /\ tpc'[t] # "traite"
        BY <1>0, <2>1, <2>2, <2>3, <3>1, <3>2
      <4> QED BY <2>6, <4>1, <4>2
    <3>5. \A u \in Traiteurs \ Occupes' : treq'[u] = NULL
      BY <2>6, <3>1 DEF AuxTraiteurs
    <3>6. \A u, v \in Occupes' : treq'[u] = treq'[v] => u = v
      BY <2>6, <3>1, <3>3 DEF AuxTraiteurs
    <3> QED BY <3>4, <3>5, <3>6 DEF AuxTraiteurs, EstRequete
  <2>8. SansFuite'
    <3>1. ASSUME NEW a \in Alloues
          PROVE  \/ \E i \in 1..Len(tube') : tube'[i] = a
                 \/ \E u \in Occupes' : treq'[u] = a
                 \/ dpc \in {"remplit", "envoie"} /\ dreq = a
      <4>1. CASE \E i \in 1..Len(tube) : tube[i] = a
        <5>1. PICK i \in 1..Len(tube) : tube[i] = a
          BY <4>1
        <5>2. CASE i = 1
          <6>1. treq'[t] = a /\ t \in Occupes'
            BY <2>1, <2>2, <2>6, <5>1, <5>2 DEF TypeOK
          <6> QED BY <6>1
        <5>3. CASE i # 1
          <6>1. i - 1 \in 1..Len(tube') /\ tube'[i - 1] = a
            BY <1>0, <2>2, <5>1, <5>3
          <6> QED BY <6>1
        <5> QED BY <5>2, <5>3
      <4>2. CASE \E u \in Occupes : treq[u] = a
        BY <2>1, <2>6, <4>2 DEF TypeOK, Occupes
      <4> QED BY <4>1, <4>2 DEF SansFuite
    <3> QED BY <2>1, <3>1 DEF SansFuite, Alloues
  <2>9. AuDistributeur' /\ Fins'
    BY <1>0, <2>1 DEF AuDistributeur, Fins, Total, N
  <2> QED BY <2>4, <2>5, <2>7, <2>8, <2>9
<1>2. CASE Poursuivre(t) \/ Traiter(t)
  <2>1. /\ t \in Occupes /\ bloc[treq[t]] \in 1..NbReq
        /\ tpc' = [tpc EXCEPT ![t] = IF tpc[t] = "teste" THEN "traite" ELSE "libere"]
        /\ treated' \subseteq 1..NbReq
        /\ UNCHANGED <<bloc, tube, dpc, dreq, sent, treq, tfin, taken, vivant>>
    <3>1. CASE Poursuivre(t)
      BY <3>1 DEF Poursuivre, Occupes, EstRequete, TypeOK
    <3>2. CASE Traiter(t)
      <4>1. t \in Occupes /\ bloc[treq[t]] \in 1..NbReq
        BY <3>2 DEF Traiter, AuxTraiteurs, Occupes, EstRequete
      <4> QED BY <3>2, <4>1 DEF Traiter, TypeOK
    <3> QED BY <1>2, <3>1, <3>2
  <2>2. Occupes' = Occupes
    BY <1>0, <2>1 DEF Occupes
  <2>3. TypeOK'
    BY <1>0, <2>1 DEF TypeOK
  <2>4. DansLeTube' /\ AuDistributeur'
    BY <2>1 DEF DansLeTube, AuDistributeur, Total, N
  <2>5. AuxTraiteurs'
    BY <1>0, <2>1, <2>2 DEF AuxTraiteurs, EstRequete
  <2>6. SansFuite'
    BY <2>1, <2>2 DEF SansFuite, Alloues
  <2>7. Fins'
    BY <1>0, <2>1 DEF Fins, Occupes
  <2> QED BY <2>3, <2>4, <2>5, <2>6, <2>7
<1>3. CASE Liberer(t)
  <2>1. t \in Occupes
    BY <1>3 DEF Liberer, Occupes
  <2>2. TypeOK' /\ DansLeTube' /\ AuDistributeur' /\ AuxTraiteurs' /\ SansFuite'
    BY <1>3, <2>1, Rendu DEF Liberer, TypeOK
  <2>3. Fins'
    BY <1>0, <1>3 DEF Liberer, Fins
  <2> QED BY <2>2, <2>3
<1>4. CASE Arreter(t)
  <2>1. t \in Occupes
    BY <1>4 DEF Arreter, Occupes
  <2>2. bloc[treq[t]] \in NbReq+1..Total
    <3>1. bloc[treq[t]] \in 1..taken /\ ~EstRequete(bloc[treq[t]]) /\ taken <= sent
      BY <1>0, <1>4, <2>1, APart DEF Arreter, DansLeTube
    <3> QED BY <1>0, <3>1 DEF EstRequete
  <2>3. tfin' \in [Traiteurs -> 0..Total]
    BY <1>0, <1>4, <2>2 DEF Arreter, TypeOK
  <2>4. TypeOK' /\ DansLeTube' /\ AuDistributeur' /\ AuxTraiteurs' /\ SansFuite'
    BY <1>4, <2>1, <2>3, Rendu DEF Arreter
  <2>5. Fins'
    BY <1>0, <1>4, <2>2 DEF Arreter, Fins, TypeOK
  <2> QED BY <2>4, <2>5
<1> QED BY <1>1, <1>2, <1>3, <1>4 DEF Traiteur

(* IInv is an inductive invariant. *)
THEOREM Invariance == Spec => []IInv
<1>1. ASSUME IInv, UNCHANGED vars PROVE IInv'
  BY <1>1 DEF vars, IInv, TypeOK, DansLeTube, AuDistributeur, AuxTraiteurs, SansFuite, Fins,
              Occupes, Alloues
<1>2. ASSUME IInv, [Next]_vars PROVE IInv'
  BY <1>1, <1>2, PasDistributeur, PasTraiteur DEF Next, Termine
<1> QED BY Initialisation, <1>2, PTL DEF Spec

-----------------------------------------------------------------------------
(* For any pool, pipe and heap, a block that is allocated has one owner,   *)
(* and one that is free has none: no use after free, no double free, no    *)
(* sharing, no leak.                                                       *)
THEOREM Propriete == Spec => []UnSeulPossesseur
<1>1. ASSUME IInv, NEW a \in Adresses
      PROVE  Cardinality(Possesseurs(a)) = IF a \in Alloues THEN 1 ELSE 0
  <2> USE DEF IInv
  <2>0. /\ sent \in Nat /\ taken \in Nat /\ Len(tube) \in Nat /\ Libre \notin Nat
        /\ DOMAIN tube = 1..Len(tube)
    BY <1>1, Bornes
  <2>1. CASE a \notin Alloues
    <3>1. bloc[a] = Libre
      BY <2>1 DEF Alloues
    <3>2. Possesseurs(a) = {}
      <4>1. \A i \in DOMAIN tube : tube[i] # a
        BY <1>1, <2>0, <3>1 DEF DansLeTube
      <4>2. \A t \in Traiteurs : treq[t] # a
        BY <1>1, <2>0, <3>1, PointerPipeAssumption DEF AuxTraiteurs
      <4>3. ~(dpc \in {"remplit", "envoie"} /\ dreq = a)
        BY <1>1, <2>0, <3>1 DEF AuDistributeur
      <4> QED BY <4>1, <4>2, <4>3 DEF Possesseurs
    <3> QED BY <2>1, <3>2, FS_EmptySet
  <2>2. CASE a \in Alloues
    <3>1. \E x : Possesseurs(a) = {x}
      <4>1. ASSUME NEW i \in 1..Len(tube), tube[i] = a PROVE Possesseurs(a) = {<<"tube", i>>}
        <5>1. \A j \in DOMAIN tube : tube[j] = a => j = i
          BY <1>1, <2>0, <4>1 DEF DansLeTube
        <5>2. \A t \in Traiteurs : treq[t] # a
          BY <1>1, <2>0, <4>1, APart, PointerPipeAssumption DEF AuxTraiteurs
        <5>3. ~(dpc \in {"remplit", "envoie"} /\ dreq = a)
          BY <1>1, <2>0, <4>1 DEF AuDistributeur, DansLeTube
        <5> QED BY <2>0, <4>1, <5>1, <5>2, <5>3 DEF Possesseurs
      <4>2. ASSUME NEW t \in Occupes, treq[t] = a PROVE Possesseurs(a) = {<<"traiteur", t>>}
        <5>1. /\ t \in Traiteurs /\ \A i \in DOMAIN tube : tube[i] # a
              /\ dpc \in {"remplit", "envoie"} => dreq # a
          BY <1>1, <2>0, <4>2, APart
        <5>2. \A u \in Traiteurs : treq[u] = a => u = t
          BY <1>1, <4>2, PointerPipeAssumption DEF AuxTraiteurs
        <5> QED BY <4>2, <5>1, <5>2 DEF Possesseurs
      <4>3. ASSUME dpc \in {"remplit", "envoie"}, dreq = a
            PROVE  Possesseurs(a) = {<<"distributeur", dpc>>}
        <5>1. \A i \in DOMAIN tube : tube[i] # a
          BY <1>1, <2>0, <4>3 DEF AuDistributeur, DansLeTube
        <5>2. \A t \in Traiteurs : treq[t] # a
          BY <1>1, <2>0, <4>3, APart, PointerPipeAssumption DEF AuxTraiteurs
        <5> QED BY <4>3, <5>1, <5>2 DEF Possesseurs
      <4> QED BY <1>1, <2>2, <4>1, <4>2, <4>3 DEF SansFuite
    <3> QED BY <2>2, <3>1, FS_Singleton
  <2> QED BY <2>1, <2>2
<1>2. IInv => UnSeulPossesseur
  BY <1>1 DEF UnSeulPossesseur, IInv
<1> QED BY <1>2, Invariance, PTL

(* For any pool, pipe and heap, the memory in use does not depend on the   *)
(* number of requests.                                                     *)
THEOREM Memoire == Spec => []MemoireBornee
<1>1. ASSUME IInv PROVE MemoireBornee
  <2> USE DEF IInv
  <2> DEFINE Dans  == {tube[i] : i \in 1..Len(tube)}
             Tenus == {treq[t] : t \in Occupes}
  <2>0. Len(tube) \in Nat /\ Len(tube) <= Capacite /\ Capacite \in Nat /\ N \in Nat
    BY <1>1, Bornes, PointerPipeAssumption DEF TypeOK
  <2>1. IsFiniteSet(Dans) /\ Cardinality(Dans) \in Nat /\ Cardinality(Dans) <= Capacite
    <3>1. IsFiniteSet(1..Len(tube)) /\ Cardinality(1..Len(tube)) = Len(tube)
      <4>1. 1 \in Int /\ Len(tube) \in Int
        BY <2>0
      <4>2. /\ IsFiniteSet(1..Len(tube))
            /\ Cardinality(1..Len(tube)) = IF 1 > Len(tube) THEN 0 ELSE Len(tube) - 1 + 1
        BY <4>1, FS_Interval
      <4> QED BY <2>0, <4>2
    <3>2. [i \in 1..Len(tube) |-> tube[i]] \in Surjection(1..Len(tube), Dans)
      BY DEF Surjection
    <3>3. IsFiniteSet(Dans) /\ Cardinality(Dans) <= Cardinality(1..Len(tube))
      BY <3>1, <3>2, FS_Surjection
    <3> QED BY <2>0, <3>1, <3>3, FS_CardinalityType
  <2>2. IsFiniteSet(Tenus) /\ Cardinality(Tenus) \in Nat /\ Cardinality(Tenus) <= N
    <3>1. IsFiniteSet(Occupes) /\ Cardinality(Occupes) <= N
      BY PointerPipeAssumption, FS_Subset DEF Occupes, N
    <3>2. [t \in Occupes |-> treq[t]] \in Surjection(Occupes, Tenus)
      BY DEF Surjection
    <3>3. IsFiniteSet(Tenus) /\ Cardinality(Tenus) <= Cardinality(Occupes)
      BY <3>1, <3>2, FS_Surjection
    <3> QED BY <2>0, <3>1, <3>3, FS_CardinalityType
  <2>3. Alloues \subseteq (Dans \union Tenus) \union {dreq}
    BY <1>1 DEF SansFuite
  <2> HIDE DEF Dans, Tenus
  <2>4. /\ IsFiniteSet(Dans \union Tenus) /\ Cardinality(Dans \union Tenus) \in Nat
        /\ Cardinality(Dans \union Tenus) <= Capacite + N
    <3>1. /\ IsFiniteSet(Dans \union Tenus)
          /\ Cardinality(Dans \union Tenus)
               = Cardinality(Dans) + Cardinality(Tenus) - Cardinality(Dans \intersect Tenus)
      BY <2>1, <2>2, FS_Union
    <3>2. Cardinality(Dans \union Tenus) \in Nat /\ Cardinality(Dans \intersect Tenus) \in Nat
      BY <2>1, <3>1, FS_Intersection, FS_CardinalityType
    <3> QED BY <2>0, <2>1, <2>2, <3>1, <3>2
  <2>5. /\ IsFiniteSet((Dans \union Tenus) \union {dreq})
        /\ Cardinality((Dans \union Tenus) \union {dreq}) \in Nat
        /\ Cardinality((Dans \union Tenus) \union {dreq}) <= Capacite + N + 1
    <3> DEFINE U == Dans \union Tenus
    <3>1. /\ IsFiniteSet(U \union {dreq})
          /\ Cardinality(U \union {dreq}) = IF dreq \in U THEN Cardinality(U) ELSE Cardinality(U) + 1
      BY <2>4, FS_AddElement
    <3> QED BY <2>0, <2>4, <3>1
  <2>6. IsFiniteSet(Alloues) /\ Cardinality(Alloues) \in Nat
        /\ Cardinality(Alloues) <= Cardinality((Dans \union Tenus) \union {dreq})
    BY <2>3, <2>5, FS_Subset, FS_CardinalityType
  <2> QED BY <2>0, <2>5, <2>6 DEF MemoireBornee
<1> QED BY <1>1, Invariance, PTL

-----------------------------------------------------------------------------
LEMMA MemeTotal == D!Total = Total
BY DEF D!Total, D!N, Total, N, D!Cardinality, Cardinality

(* Every step of the server is a step of the distribution or changes       *)
(* nothing the distribution speaks of.                                     *)
LEMMA PasRaffine ==
  ASSUME IInv, [Next]_vars
  PROVE  [D!Next]_(D!vars)
<1> USE DEF IInv
<1> DEFINE cur   == [t \in Traiteurs |->
                       IF tpc[t] \in {"teste", "traite"} THEN bloc[treq[t]] ELSE tfin[t]]
           finis == {t \in Traiteurs : tpc[t] = "fini"}
<1>0. /\ N \in Nat /\ NbReq \in Nat /\ Total = NbReq + N /\ D!Total = Total
      /\ Libre \notin Nat /\ sent \in Nat /\ taken \in Nat /\ sent <= Total
      /\ tube \in Seq(Adresses) /\ Len(tube) \in Nat
      /\ tpc \in [Traiteurs -> Places]
      /\ bloc \in [Adresses -> 0..Total \union {Libre}]
      /\ treq \in [Traiteurs -> Adresses \union {NULL}]
      /\ tfin \in [Traiteurs -> 0..Total]
  BY Bornes, MemeTotal DEF TypeOK
<1>1. ASSUME Allouer \/ Remplir PROVE UNCHANGED D!vars
  <2>1. PICK a \in Adresses : /\ \A t \in Occupes : treq[t] # a
                              /\ \E m : bloc' = [bloc EXCEPT ![a] = m]
    BY <1>0, <1>1, APart DEF Allouer, Remplir, Alloues, AuDistributeur
  <2>2. /\ UNCHANGED <<sent, tpc, treq, tfin, taken, treated>>
        /\ dpc # "termine" /\ dpc' # "termine"
    BY <1>1 DEF Allouer, Remplir
  <2>3. \A t \in Occupes : bloc'[treq[t]] = bloc[treq[t]]
    BY <1>0, <2>1
  <2>4. cur' = cur
    BY <2>2, <2>3 DEF Occupes
  <2> QED BY <2>2, <2>4 DEF D!vars
<1>2. ASSUME AllouerEchoue PROVE UNCHANGED D!vars
  BY <1>2 DEF AllouerEchoue, D!vars
<1>3. ASSUME EnvoyerVersThreadTraiteur PROVE D!Send
  BY <1>0, <1>3 DEF EnvoyerVersThreadTraiteur, AuDistributeur, D!Send
<1>4. ASSUME Joindre PROVE D!Join
  BY <1>0, <1>4 DEF Joindre, D!Join
<1>5. ASSUME NEW t \in Traiteurs, Lire(t) PROVE D!Take(t)
  <2>1. Len(tube) >= 1 /\ Head(tube) = tube[1]
    BY <1>0, <1>5, EmptySeq DEF Lire
  <2>2. bloc[Head(tube)] = taken + 1 /\ taken < sent
    BY <1>0, <2>1 DEF DansLeTube
  <2>3. cur[t] = 0 /\ cur' = [cur EXCEPT ![t] = taken + 1]
    BY <1>0, <1>5, <2>2 DEF Lire, Fins
  <2>4. finis' = finis
    BY <1>0, <1>5 DEF Lire
  <2> QED BY <1>5, <2>2, <2>3, <2>4 DEF Lire, D!Take
<1>6. ASSUME NEW t \in Traiteurs, Poursuivre(t) PROVE UNCHANGED D!vars
  <2>1. cur' = cur /\ finis' = finis
    BY <1>0, <1>6 DEF Poursuivre
  <2> QED BY <1>6, <2>1 DEF Poursuivre, D!vars
<1>7. ASSUME NEW t \in Traiteurs, Traiter(t) PROVE D!Treat(t)
  <2>1. cur[t] = bloc[treq[t]] /\ tfin[t] = 0 /\ EstRequete(bloc[treq[t]])
    BY <1>0, <1>7 DEF Traiter, Fins, AuxTraiteurs, Occupes
  <2>2. cur' = [cur EXCEPT ![t] = 0] /\ finis' = finis
    BY <1>0, <1>7, <2>1 DEF Traiter
  <2> QED BY <1>7, <2>1, <2>2 DEF Traiter, EstRequete, D!Treat, D!IsRequest
<1>8. ASSUME NEW t \in Traiteurs, Liberer(t) PROVE UNCHANGED D!vars
  <2>1. t \in Occupes
    BY <1>8 DEF Liberer, Occupes
  <2>2. \A u \in Occupes \ {t} : bloc'[treq[u]] = bloc[treq[u]]
    BY <1>0, <1>8, <2>1, APart DEF Liberer
  <2>3. cur' = cur /\ finis' = finis
    BY <1>0, <1>8, <2>2 DEF Liberer, Occupes
  <2> QED BY <1>8, <2>3 DEF Liberer, D!vars
<1>9. ASSUME NEW t \in Traiteurs, Arreter(t) PROVE D!Stop(t)
  <2>1. t \in Occupes
    BY <1>9 DEF Arreter, Occupes
  <2>2. bloc[treq[t]] \in 1..taken /\ bloc[treq[t]] > NbReq
    BY <1>0, <1>9, <2>1, APart DEF Arreter, EstRequete
  <2>3. \A u \in Occupes \ {t} : bloc'[treq[u]] = bloc[treq[u]]
    BY <1>0, <1>9, <2>1, APart DEF Arreter
  <2>4. cur[t] = bloc[treq[t]] /\ cur' = cur
    BY <1>0, <1>9, <2>3 DEF Arreter, Occupes
  <2>5. t \notin finis /\ finis' = finis \union {t}
    BY <1>0, <1>9 DEF Arreter
  <2> QED BY <1>9, <2>2, <2>4, <2>5 DEF Arreter, D!Stop
<1>10. ASSUME UNCHANGED vars PROVE UNCHANGED D!vars
  BY <1>10 DEF vars, D!vars
<1> QED BY <1>1, <1>2, <1>3, <1>4, <1>5, <1>6, <1>7, <1>8, <1>9, <1>10
        DEF Next, Distributeur, Traiteur, Termine, D!Next

(* The server of pointers implements the distribution, for any pool, pipe  *)
(* and heap, malloc failing or not: addresses that are used again never    *)
(* make a handler take, hold or handle the request of another.             *)
THEOREM Raffinement == Spec => DSpec
<1>1. Init => D!Init
  BY DEF Init, D!Init
<1>2. IInv /\ [Next]_vars => [D!Next]_(D!vars)
  BY PasRaffine
<1> QED BY <1>1, <1>2, Invariance, PTL DEF Spec, DSpec, D!Spec

Promesse == INSTANCE DistributionProofs WITH
       current <- [t \in Traiteurs |->
                     IF tpc[t] \in {"teste", "traite"} THEN bloc[treq[t]] ELSE tfin[t]],
       stopped <- {t \in Traiteurs : tpc[t] = "fini"},
       over    <- dpc = "termine"

(* When the program ends every request was handled, however few addresses  *)
(* there are for the blocks: none was lost with a block that was reused.   *)
THEOREM ToutEstTraite == Spec => [](dpc = "termine" => treated = 1..NbReq)
<1>0. Promesse!IsFiniteSet(Traiteurs) /\ Traiteurs # {} /\ NbReq \in Nat
  BY PointerPipeAssumption DEF Promesse!IsFiniteSet, IsFiniteSet
<1>1. Init => Promesse!DInv
  <2>1. Init => Promesse!Init
    BY DEF Init, Promesse!Init
  <2> QED BY <1>0, <2>1, Promesse!Initiale
<1>2. IInv /\ Promesse!DInv /\ [Next]_vars => Promesse!DInv'
  <2>1. D!Total = Promesse!Total
    BY DEF D!Total, D!N, Promesse!Total, Promesse!N, D!Cardinality, Promesse!Cardinality
  <2>2. [D!Next]_(D!vars) => [Promesse!Next]_(Promesse!vars)
    <3>1. D!vars = Promesse!vars /\ (UNCHANGED D!vars => UNCHANGED Promesse!vars)
      BY DEF D!vars, Promesse!vars
    <3>2. D!Send => Promesse!Send
      BY <2>1 DEF D!Send, Promesse!Send
    <3>3. D!Join => Promesse!Join
      BY <2>1 DEF D!Join, Promesse!Join
    <3>4. \A t \in Traiteurs : D!Take(t) => Promesse!Take(t)
      BY DEF D!Take, Promesse!Take
    <3>5. \A t \in Traiteurs : D!Treat(t) => Promesse!Treat(t)
      BY DEF D!Treat, Promesse!Treat, D!IsRequest, Promesse!IsRequest
    <3>6. \A t \in Traiteurs : D!Stop(t) => Promesse!Stop(t)
      BY DEF D!Stop, Promesse!Stop
    <3> QED BY <3>1, <3>2, <3>3, <3>4, <3>5, <3>6 DEF D!Next, Promesse!Next
  <2> QED BY <1>0, <2>2, PasRaffine, Promesse!Pas
<1>3. Promesse!DInv => (dpc = "termine" => treated = 1..NbReq)
  BY <1>0, Promesse!Fin
<1> QED BY <1>1, <1>2, <1>3, Invariance, PTL DEF Spec

=============================================================================
