--------------------------- MODULE SemTableProofs ---------------------------
(***************************************************************************)
(* The safety of the semaphore table, for every number of handlers and of  *)
(* requests.                                                               *)
(***************************************************************************)
EXTENDS SemTable, ProofLemmas

T == TailleTab

(* The mutex is held by the one handler between its lock and its unlock. *)
Exclusion ==
  /\ mutex = En({"copie", "avance"})
  /\ \A t, u \in mutex : t = u

(* The two indices are the slots of the next message to deposit and of the *)
(* next one to extract.                                                    *)
Indices ==
  /\ iDepot = (IF dpc \in {"recevoir", "envoie"} THEN sent + 1 ELSE sent) % T
  /\ dpc = "recevoir" => dreq = sent % T
  /\ IF En({"avance"}) = {}
       THEN iExtrait = taken % T
       ELSE taken > 0 /\ iExtrait = (taken - 1) % T

(* Where the distributor is in its two loops. *)
Boucles ==
  /\ dpc = "recevoir" => sent < NbReq
  /\ dpc \in {"fin", "envoie"} => sent < Total

Contenu ==
  /\ \A k \in taken+1 .. sent : tab[(k - 1) % T] = k
  /\ dpc = "envoie" => tab[sent % T] = sent + 1

Copies ==
  /\ \A t \in En({"avance", "rend", "teste", "fini"}) : treq[t] \in 1..taken
  /\ \A t \in En({"fini"}) : treq[t] > NbReq

IInv ==
  /\ TypeOK
  /\ Exclusion
  /\ Comptes
  /\ Indices
  /\ Boucles
  /\ Contenu
  /\ Copies

-----------------------------------------------------------------------------
LEMMA TableSize == N \in Nat \ {0} /\ T \in Nat \ {0} /\ T = 2 * N
<1>1. N \in Nat /\ N # 0
  BY SemTableAssumption, FS_CardinalityType, FS_EmptySet DEF N
<1> QED BY <1>1 DEF T, TailleTab

LEMMA Denombrement ==
  ASSUME NEW E
  PROVE  Nb(E) \in Nat /\ (En(E) = {} <=> Nb(E) = 0)
<1>1. IsFiniteSet(En(E))
  BY SemTableAssumption, FS_Subset DEF En
<1> QED BY <1>1, FS_CardinalityType, FS_EmptySet DEF Nb

(* The arithmetic the whole proof turns on. Before a handler has stopped,  *)
(* placeDispo bounds the slots in use; once one has, only end messages are *)
(* left, and there are fewer of them than slots.                           *)
LEMMA Borne ==
  ASSUME IInv
  PROVE  /\ taken <= sent
         /\ Alloues <= taken + T
         /\ En(Entres) # {} => taken < sent
<1>1. /\ Nb(Entres) \in Nat /\ (En(Entres) = {} <=> Nb(Entres) = 0)
      /\ Nb(Finis) \in Nat /\ (En(Finis) = {} <=> Nb(Finis) = 0)
      /\ Nb(Rendeurs) \in Nat
  BY Denombrement
<1>2. /\ infoPrete + Nb(Entres) = sent - taken
      /\ placeDispo + Alloues + Nb(Rendeurs) = T + taken + Nb(Finis)
  BY DEF IInv, Comptes, T
<1>3. /\ sent \in Nat /\ sent <= Total /\ taken \in Nat
      /\ placeDispo \in Nat /\ infoPrete \in Nat
      /\ NbReq \in Nat
  BY TableSize, SemTableAssumption DEF IInv, TypeOK, Total
<1>4. Alloues \in Nat /\ Alloues <= NbReq + N
  BY <1>3, TableSize DEF IInv, Boucles, Alloues, Total
<1>5. taken <= sent /\ (En(Entres) # {} => taken < sent)
  BY <1>1, <1>2, <1>3
<1>6. Alloues <= taken + T
  <2>1. CASE En(Finis) = {}
    BY <2>1, <1>1, <1>2, <1>3, <1>4, TableSize
  <2>2. CASE En(Finis) # {}
    <3>1. PICK t \in En(Finis) : treq[t] > NbReq /\ treq[t] \in 1..taken
      BY <2>2 DEF IInv, Copies, En, Finis
    <3> QED BY <3>1, <1>3, <1>4, TableSize
  <2> QED BY <2>1, <2>2
<1> QED BY <1>5, <1>6

-----
Places == {"attend", "verrouille", "copie", "avance", "rend", "teste", "fini"}

(* What a handler's move does to the counts Comptes speaks of. *)
LEMMA Deplacement ==
  ASSUME NEW t \in Traiteurs, \A u \in Traiteurs \ {t} : tpc'[u] = tpc[u], NEW E
  PROVE  /\ Nb(E) \in Nat
         /\ Nb(E)' = Nb(E) + (IF tpc'[t] \in E THEN 1 ELSE 0) - (IF tpc[t] \in E THEN 1 ELSE 0)
<1>2. /\ En(E) \in SUBSET Traiteurs
      /\ En(E)' \in SUBSET Traiteurs
      /\ \A u \in Traiteurs \ {t} : u \in En(E) <=> u \in En(E)'
      /\ t \in En(E) <=> tpc[t] \in E
      /\ t \in En(E)' <=> tpc'[t] \in E
  BY DEF En
<1> DEFINE avant == En(E)
           apres == En(E)'
<1>3. /\ Cardinality(avant) \in Nat
      /\ Cardinality(apres) \in Nat
      /\ (t \in avant <=> t \in apres) => Cardinality(apres) = Cardinality(avant)
      /\ t \notin avant /\ t \in apres => Cardinality(apres) = Cardinality(avant) + 1
      /\ t \in avant /\ t \notin apres => Cardinality(avant) = Cardinality(apres) + 1
  <2> HIDE DEF avant, apres
  <2> QED BY <1>2, CountMove, SemTableAssumption DEF avant, apres
<1> QED BY <1>2, <1>3 DEF Nb

LEMMA Deplacements ==
  ASSUME NEW t \in Traiteurs, \A u \in Traiteurs \ {t} : tpc'[u] = tpc[u]
  PROVE  /\ Nb(Entres) \in Nat
         /\ Nb(Entres)' = Nb(Entres) + (IF tpc'[t] \in Entres THEN 1 ELSE 0)
                                     - (IF tpc[t] \in Entres THEN 1 ELSE 0)
         /\ Nb(Rendeurs) \in Nat
         /\ Nb(Rendeurs)' = Nb(Rendeurs) + (IF tpc'[t] \in Rendeurs THEN 1 ELSE 0)
                                         - (IF tpc[t] \in Rendeurs THEN 1 ELSE 0)
         /\ Nb(Finis) \in Nat
         /\ Nb(Finis)' = Nb(Finis) + (IF tpc'[t] \in Finis THEN 1 ELSE 0)
                                   - (IF tpc[t] \in Finis THEN 1 ELSE 0)
<1>1. /\ Nb(Entres) \in Nat
      /\ Nb(Entres)' = Nb(Entres) + (IF tpc'[t] \in Entres THEN 1 ELSE 0)
                                  - (IF tpc[t] \in Entres THEN 1 ELSE 0)
  BY Deplacement DEF Entres
<1>2. /\ Nb(Rendeurs) \in Nat
      /\ Nb(Rendeurs)' = Nb(Rendeurs) + (IF tpc'[t] \in Rendeurs THEN 1 ELSE 0)
                                      - (IF tpc[t] \in Rendeurs THEN 1 ELSE 0)
  BY Deplacement DEF Rendeurs
<1>3. /\ Nb(Finis) \in Nat
      /\ Nb(Finis)' = Nb(Finis) + (IF tpc'[t] \in Finis THEN 1 ELSE 0)
                                - (IF tpc[t] \in Finis THEN 1 ELSE 0)
  BY Deplacement DEF Finis
<1> QED BY <1>1, <1>2, <1>3

LEMMA Tour ==
  /\ \A a \in Nat : a % T \in 0..T-1 /\ Suivant(a % T) = (a + 1) % T
  /\ \A i \in 0..T-1 : Suivant(i) \in 0..T-1
<1>1. \A a \in Nat : a % T \in 0..T-1 /\ Suivant(a % T) = (a + 1) % T
  BY TableSize, DivModulo, RingSuccessor DEF Suivant, T
<1>2. ASSUME NEW i \in 0..T-1 PROVE Suivant(i) \in 0..T-1
  BY TableSize, DivModulo DEF Suivant, T
<1> QED BY <1>1, <1>2

LEMMA Initialisation == Init => IInv
<1> SUFFICES ASSUME Init PROVE IInv
  OBVIOUS
<1> USE DEF Init
<1>1. TypeOK
  BY TableSize, SemTableAssumption DEF TypeOK, T, TailleTab, Total
<1>2. Exclusion
  BY DEF Exclusion, En
<1>3. Comptes
  <2>1. Nb(Entres) = 0 /\ Nb(Rendeurs) = 0 /\ Nb(Finis) = 0
    <3>1. En(Entres) = {} /\ En(Rendeurs) = {} /\ En(Finis) = {}
      BY DEF En, Entres, Rendeurs, Finis
    <3> QED BY <3>1, Denombrement
  <2>2. Alloues = 0 /\ placeDispo = TailleTab /\ infoPrete = 0 /\ sent = 0 /\ taken = 0
    BY DEF Alloues
  <2> QED BY ONLY <2>1, <2>2, TableSize DEF Comptes, T
<1>4. Indices
  BY TableSize, RemainderSmall DEF Indices, En
<1>5. Boucles /\ Contenu /\ Copies
  BY DEF Boucles, Contenu, Copies, En
<1> QED BY <1>1, <1>2, <1>3, <1>4, <1>5 DEF IInv

(* The distributor's steps. It owns dpc, dreq, iDepot and sent, and no     *)
(* handler moves.                                                          *)
LEMMA PasDistributeur == IInv /\ Distributeur => IInv'
<1> SUFFICES ASSUME IInv, Distributeur PROVE IInv'
  OBVIOUS
<1> USE DEF IInv
<1>0. /\ sent \in Nat /\ taken \in Nat /\ NbReq \in Nat /\ Total = NbReq + N
      /\ N \in Nat /\ T \in Nat \ {0}
      /\ taken <= sent /\ Alloues <= taken + T
  BY TableSize, Borne, SemTableAssumption DEF TypeOK, Total
<1>1. CASE AllouerRequete
  <2> USE <1>1 DEF AllouerRequete, tvars
  <2>1. iDepot = sent % T /\ sent < NbReq
    BY DEF Indices
  <2>2. TypeOK'
    <3>1. Suivant(iDepot) \in 0..T-1
      BY Tour DEF TypeOK, T
    <3> QED BY <1>0, <3>1 DEF TypeOK, T
  <2>3. Indices'
    <3>1. Suivant(iDepot) = (sent + 1) % T
      BY <2>1, <1>0, RingSuccessor DEF Suivant, T
    <3> QED BY <2>1, <3>1 DEF Indices, En
  <2>4. Comptes'
    <3>1. placeDispo' = placeDispo - 1 /\ Alloues' = Alloues + 1
      BY <1>0 DEF Alloues
    <3> QED BY <3>1, <1>0, Denombrement DEF Comptes, Nb, En, TypeOK, Alloues
  <2>5. Exclusion' /\ Boucles' /\ Contenu' /\ Copies'
    BY <2>1 DEF Exclusion, Boucles, Contenu, Copies, En
  <2> QED BY <2>2, <2>3, <2>4, <2>5
<1>2. CASE RecevoirRequete
  <2> USE <1>2 DEF RecevoirRequete, tvars
  <2>1. dreq = sent % T /\ sent < NbReq /\ sent < taken + T /\ sent + 1 \in 0..Total
    BY <1>0 DEF Indices, Boucles, Alloues
  <2>2. TypeOK'
    BY <2>1 DEF TypeOK
  <2>3. Contenu'
    <3>1. ASSUME NEW k \in taken+1 .. sent PROVE tab'[(k - 1) % T] = k
      <4>1. k - 1 \in Nat /\ k - 1 < sent /\ sent - (k - 1) < T
        BY <1>0, <2>1
      <4>2. (k - 1) % T # sent % T
        BY <4>1, <1>0, RingDistinct
      <4> QED BY <4>1, <4>2, <2>1, Tour DEF Contenu, TypeOK, T
    <3>2. tab'[sent % T] = sent + 1
      BY <2>1, <1>0, Tour DEF TypeOK, T
    <3> QED BY <3>1, <3>2 DEF Contenu
  <2>4. Indices' /\ Boucles'
    BY <2>1, <1>0 DEF Indices, Boucles, En
  <2>5. Comptes' /\ Exclusion' /\ Copies'
    BY DEF Comptes, Nb, Exclusion, Copies, En, Alloues
  <2> QED BY <2>2, <2>3, <2>4, <2>5
<1>3. CASE AllouerFin
  <2> USE <1>3 DEF AllouerFin, tvars
  <2>1. TypeOK' /\ Indices' /\ Boucles'
    BY <1>0 DEF TypeOK, Indices, Boucles, En
  <2>2. Comptes'
    <3>1. placeDispo' = placeDispo - 1 /\ Alloues' = Alloues + 1
      BY <1>0 DEF Alloues
    <3> QED BY <3>1, <1>0, Denombrement DEF Comptes, Nb, En, TypeOK, Alloues
  <2>3. Exclusion' /\ Contenu' /\ Copies'
    BY DEF Exclusion, Contenu, Copies, En
  <2> QED BY <2>1, <2>2, <2>3
<1>4. CASE DeposerFin
  <2> USE <1>4 DEF DeposerFin, tvars
  <2>1. iDepot = sent % T /\ sent < Total /\ sent < taken + T /\ sent + 1 \in 0..Total
    BY <1>0 DEF Indices, Boucles, Alloues
  <2>2. Suivant(iDepot) = (sent + 1) % T /\ Suivant(iDepot) \in 0..T-1
    BY <2>1, <1>0, Tour
  <2>3. TypeOK'
    BY <2>1, <2>2 DEF TypeOK, T
  <2>4. Contenu'
    <3>1. ASSUME NEW k \in taken+1 .. sent PROVE tab'[(k - 1) % T] = k
      <4>1. k - 1 \in Nat /\ k - 1 < sent /\ sent - (k - 1) < T
        BY <1>0, <2>1
      <4>2. (k - 1) % T # sent % T
        BY <4>1, <1>0, RingDistinct
      <4> QED BY <4>1, <4>2, <2>1, Tour DEF Contenu, TypeOK, T
    <3>2. tab'[sent % T] = sent + 1
      BY <2>1, <1>0, Tour DEF TypeOK, T
    <3> QED BY <3>1, <3>2 DEF Contenu
  <2>5. Indices' /\ Boucles'
    BY <2>1, <2>2 DEF Indices, Boucles, En
  <2>6. Comptes' /\ Exclusion' /\ Copies'
    BY DEF Comptes, Nb, Exclusion, Copies, En, Alloues
  <2> QED BY <2>3, <2>4, <2>5, <2>6
<1>5. CASE EnvoyerVersThreadTraiteur
  <2> USE <1>5 DEF EnvoyerVersThreadTraiteur, tvars
  <2>1. tab[sent % T] = sent + 1 /\ sent < Total /\ iDepot = (sent + 1) % T
    BY DEF Contenu, Boucles, Indices
  <2>2. TypeOK' /\ Indices' /\ Boucles'
    BY <2>1, <1>0 DEF TypeOK, Indices, Boucles, En
  <2>3. Contenu'
    <3>1. ASSUME NEW k \in taken+1 .. sent+1 PROVE tab[(k - 1) % T] = k
      <4>1. CASE k = sent + 1
        BY <4>1, <2>1, <1>0
      <4>2. CASE k # sent + 1
        BY <4>2, <1>0 DEF Contenu
      <4> QED BY <4>1, <4>2
    <3> QED BY <3>1 DEF Contenu
  <2>4. Comptes'
    <3>1. Alloues' = Alloues /\ Nb(Entres)' = Nb(Entres) /\ Nb(Rendeurs)' = Nb(Rendeurs)
          /\ Nb(Finis)' = Nb(Finis) /\ Nb(Entres) \in Nat
      BY Denombrement DEF Alloues, Nb, En
    <3>2. /\ infoPrete' = infoPrete + 1 /\ sent' = sent + 1
          /\ placeDispo' = placeDispo /\ taken' = taken /\ infoPrete \in Nat
      BY DEF TypeOK
    <3>3. Comptes
      OBVIOUS
    <3> HIDE DEF EnvoyerVersThreadTraiteur, IInv
    <3> QED BY ONLY <1>0, <3>1, <3>2, <3>3 DEF Comptes, TailleTab
  <2>5. Exclusion' /\ Copies'
    BY DEF Exclusion, Copies, En
  <2> QED BY <2>2, <2>3, <2>4, <2>5
<1>6. CASE Joindre
  BY <1>6 DEF Joindre, tvars, TypeOK, Exclusion, Comptes, Nb, Alloues, Indices, Boucles,
              Contenu, Copies, En
<1> QED BY <1>1, <1>2, <1>3, <1>4, <1>5, <1>6 DEF Distributeur

(* The message under iExtrait when a handler copies is the next in order. *)
LEMMA CopieSuivante ==
  ASSUME IInv, NEW t \in Traiteurs, tpc[t] = "copie"
  PROVE  /\ taken < sent
         /\ En({"avance"}) = {}
         /\ iExtrait = taken % T
         /\ tab[iExtrait] = taken + 1
<1> USE DEF IInv
<1>1. taken < sent /\ taken \in Nat /\ sent \in Nat
  BY Borne, TableSize, SemTableAssumption DEF En, Entres, TypeOK, Total
<1>2. En({"avance"}) = {}
  BY DEF Exclusion, En
<1>3. iExtrait = taken % T
  BY <1>2 DEF Indices
<1>4. tab[((taken + 1) - 1) % T] = taken + 1
  BY <1>1 DEF Contenu
<1> QED BY <1>1, <1>2, <1>3, <1>4

(* A handler's steps. *)
LEMMA PasTraiteur ==
  ASSUME IInv, NEW t \in Traiteurs, Traiteur(t)
  PROVE  IInv'
<1> USE DEF IInv
<1>0. /\ sent \in Nat /\ taken \in Nat /\ NbReq \in Nat /\ Total = NbReq + N
      /\ N \in Nat /\ T \in Nat \ {0} /\ sent <= Total
      /\ taken <= sent
      /\ placeDispo \in Nat /\ infoPrete \in Nat /\ Alloues \in Nat
      /\ tpc \in [Traiteurs -> Places]
  BY TableSize, Borne, SemTableAssumption DEF TypeOK, Total, Alloues, Places
<1>1. CASE AttendreInfo(t)
  <2> USE <1>1 DEF AttendreInfo, dvars
  <2>0. tpc[t] = "attend" /\ tpc'[t] = "verrouille" /\ \A u \in Traiteurs \ {t} : tpc'[u] = tpc[u]
    BY <1>0
  <2>1. TypeOK' /\ Exclusion' /\ Indices' /\ Boucles' /\ Contenu' /\ Copies'
    BY <1>0 DEF TypeOK, Exclusion, Indices, Boucles, Contenu, Copies, En
  <2>2. Comptes'
    <3>1. /\ Nb(Entres)' = Nb(Entres) + 1 /\ Nb(Entres) \in Nat
          /\ Nb(Rendeurs)' = Nb(Rendeurs) /\ Nb(Finis)' = Nb(Finis)
      BY ONLY <2>0, t \in Traiteurs, Deplacements DEF Entres, Rendeurs, Finis
    <3> QED BY <1>0, <3>1 DEF Comptes, Alloues
  <2> QED BY <2>1, <2>2
<1>2. CASE Verrouiller(t)
  <2> USE <1>2 DEF Verrouiller, dvars
  <2>0. tpc[t] = "verrouille" /\ tpc'[t] = "copie" /\ \A u \in Traiteurs \ {t} : tpc'[u] = tpc[u]
    BY <1>0
  <2>1. TypeOK' /\ Exclusion' /\ Boucles' /\ Contenu' /\ Copies'
    BY <1>0 DEF TypeOK, Exclusion, Boucles, Contenu, Copies, En
  <2>2. Indices'
    <3>1. En({"avance"})' = {} /\ En({"avance"}) = {}
      BY <1>0 DEF Exclusion, En
    <3> QED BY <3>1 DEF Indices
  <2>3. Comptes'
    <3>1. /\ Nb(Entres)' = Nb(Entres) /\ Nb(Rendeurs)' = Nb(Rendeurs)
          /\ Nb(Finis)' = Nb(Finis)
      BY ONLY <2>0, t \in Traiteurs, Deplacements DEF Entres, Rendeurs, Finis
    <3> QED BY <1>0, <3>1 DEF Comptes, Alloues
  <2> QED BY <2>1, <2>2, <2>3
<1>3. CASE Copier(t)
  <2> USE <1>3 DEF Copier, dvars
  <2>0. tpc[t] = "copie" /\ tpc'[t] = "avance" /\ \A u \in Traiteurs \ {t} : tpc'[u] = tpc[u]
    BY <1>0
  <2>1. taken < sent
    BY <2>0, CopieSuivante
  <2>2. En({"avance"}) = {} /\ En({"avance"})' = {t}
    BY <1>0, <2>0, CopieSuivante DEF En
  <2>3. iExtrait = taken % T /\ tab[iExtrait] = taken + 1
    BY <2>0, CopieSuivante
  <2>4. TypeOK' /\ Exclusion' /\ Boucles' /\ Contenu'
    BY <1>0, <2>1, <2>3 DEF TypeOK, Exclusion, Boucles, Contenu, En
  <2>5. Indices'
    BY <1>0, <2>2, <2>3 DEF Indices
  <2>6. Copies'
    BY <1>0, <2>3 DEF Copies, En, TypeOK
  <2>7. Comptes'
    <3>1. /\ Nb(Entres)' = Nb(Entres) - 1 /\ Nb(Entres) \in Nat
          /\ Nb(Rendeurs)' = Nb(Rendeurs) + 1 /\ Nb(Rendeurs) \in Nat
          /\ Nb(Finis)' = Nb(Finis) /\ Nb(Finis) \in Nat
      BY ONLY <2>0, t \in Traiteurs, Deplacements DEF Entres, Rendeurs, Finis
    <3>2. Alloues' = Alloues /\ TailleTab \in Nat
      BY TableSize DEF Alloues, T
    <3> QED BY <1>0, <3>1, <3>2 DEF Comptes
  <2> QED BY <2>4, <2>5, <2>6, <2>7
<1>4. CASE Deverrouiller(t)
  <2> USE <1>4 DEF Deverrouiller, dvars
  <2>0. tpc[t] = "avance" /\ tpc'[t] = "rend" /\ \A u \in Traiteurs \ {t} : tpc'[u] = tpc[u]
    BY <1>0
  <2>1. En({"avance"}) # {} /\ En({"avance"})' = {}
    BY <1>0 DEF Exclusion, En
  <2>2. taken > 0 /\ iExtrait = (taken - 1) % T /\ Suivant(iExtrait) = taken % T
    <3>1. taken > 0 /\ iExtrait = (taken - 1) % T
      BY <2>1 DEF Indices
    <3>2. taken - 1 \in Nat /\ (taken - 1) + 1 = taken
      BY <3>1, <1>0
    <3>3. Suivant((taken - 1) % T) = ((taken - 1) + 1) % T
      BY <3>2, Tour
    <3> QED BY <3>1, <3>2, <3>3
  <2>3. TypeOK'
    <3>1. Suivant(iExtrait) \in 0..T-1
      BY Tour DEF TypeOK, T
    <3> QED BY <3>1, <1>0 DEF TypeOK, T
  <2>4. Exclusion' /\ Boucles' /\ Contenu' /\ Copies'
    BY <1>0 DEF Exclusion, Boucles, Contenu, Copies, En
  <2>5. Indices'
    BY <2>1, <2>2 DEF Indices
  <2>6. Comptes'
    <3>1. /\ Nb(Entres)' = Nb(Entres) /\ Nb(Rendeurs)' = Nb(Rendeurs)
          /\ Nb(Finis)' = Nb(Finis)
      BY ONLY <2>0, t \in Traiteurs, Deplacements DEF Entres, Rendeurs, Finis
    <3> QED BY <1>0, <3>1 DEF Comptes, Alloues
  <2> QED BY <2>3, <2>4, <2>5, <2>6
<1>5. CASE RendrePlace(t)
  <2> USE <1>5 DEF RendrePlace, dvars
  <2>0. tpc[t] = "rend" /\ tpc'[t] = "teste" /\ \A u \in Traiteurs \ {t} : tpc'[u] = tpc[u]
    BY <1>0
  <2>1. TypeOK' /\ Exclusion' /\ Indices' /\ Boucles' /\ Contenu' /\ Copies'
    BY <1>0 DEF TypeOK, Exclusion, Indices, Boucles, Contenu, Copies, En
  <2>2. Comptes'
    <3>1. /\ Nb(Entres)' = Nb(Entres)
          /\ Nb(Rendeurs)' = Nb(Rendeurs) - 1 /\ Nb(Rendeurs) \in Nat
          /\ Nb(Finis)' = Nb(Finis) /\ Nb(Finis) \in Nat
      BY ONLY <2>0, t \in Traiteurs, Deplacements DEF Entres, Rendeurs, Finis
    <3>2. Alloues' = Alloues /\ TailleTab \in Nat
      BY TableSize DEF Alloues, T
    <3> QED BY <1>0, <3>1, <3>2 DEF Comptes
  <2> QED BY <2>1, <2>2
<1>6. CASE Arreter(t)
  <2> USE <1>6 DEF Arreter, dvars
  <2>0. tpc[t] = "teste" /\ tpc'[t] = "fini" /\ \A u \in Traiteurs \ {t} : tpc'[u] = tpc[u]
    BY <1>0
  <2>1. treq[t] \in 1..taken /\ treq[t] > NbReq
    BY <1>0 DEF Copies, En, EstRequete
  <2>2. TypeOK' /\ Exclusion' /\ Indices' /\ Boucles' /\ Contenu' /\ Copies'
    BY <1>0, <2>1 DEF TypeOK, Exclusion, Indices, Boucles, Contenu, Copies, En
  <2>3. Comptes'
    <3>1. /\ Nb(Entres)' = Nb(Entres)
          /\ Nb(Rendeurs)' = Nb(Rendeurs) /\ Nb(Rendeurs) \in Nat
          /\ Nb(Finis)' = Nb(Finis) + 1 /\ Nb(Finis) \in Nat
      BY ONLY <2>0, t \in Traiteurs, Deplacements DEF Entres, Rendeurs, Finis
    <3>2. Alloues' = Alloues /\ TailleTab \in Nat
      BY TableSize DEF Alloues, T
    <3> QED BY <1>0, <3>1, <3>2 DEF Comptes
  <2> QED BY <2>2, <2>3
<1>7. CASE Traiter(t)
  <2> USE <1>7 DEF Traiter, dvars
  <2>0. tpc[t] = "teste" /\ tpc'[t] = "attend" /\ \A u \in Traiteurs \ {t} : tpc'[u] = tpc[u]
    BY <1>0
  <2>1. TypeOK' /\ Exclusion' /\ Indices' /\ Boucles' /\ Contenu' /\ Copies'
    BY <1>0 DEF TypeOK, Exclusion, Indices, Boucles, Contenu, Copies, En, EstRequete
  <2>2. Comptes'
    <3>1. /\ Nb(Entres)' = Nb(Entres) /\ Nb(Rendeurs)' = Nb(Rendeurs)
          /\ Nb(Finis)' = Nb(Finis)
      BY ONLY <2>0, t \in Traiteurs, Deplacements DEF Entres, Rendeurs, Finis
    <3> QED BY <1>0, <3>1 DEF Comptes, Alloues
  <2> QED BY <2>1, <2>2
<1> QED BY <1>1, <1>2, <1>3, <1>4, <1>5, <1>6, <1>7 DEF Traiteur

-----------------------------------------------------------------------------
(* IInv is an inductive invariant of the semaphore table. *)
THEOREM Invariance == Spec => []IInv
<1>1. ASSUME IInv, UNCHANGED vars PROVE IInv'
  BY <1>1 DEF vars, dvars, tvars, IInv, TypeOK, Exclusion, Comptes, Nb, Alloues, Indices,
              Boucles, Contenu, Copies, En
<1>2. ASSUME IInv, [Next]_vars PROVE IInv'
  BY <1>1, <1>2, PasDistributeur, PasTraiteur DEF Next, Termine
<1> QED BY Initialisation, <1>2, PTL DEF Spec

(* The semaphores never lose count of the slots, extra posts included. *)
THEOREM TypesEtComptes == Spec => [](TypeOK /\ Comptes)
<1>1. IInv => TypeOK /\ Comptes
  BY DEF IInv
<1> QED BY <1>1, Invariance, PTL

(* Indices, counters and the places of the threads stay in their ranges    *)
(* (`tableau_semaphore.c`), for every pool and number of requests.         *)
THEOREM Types == Spec => []TypeOK
<1> QED BY TypesEtComptes, PTL

LEMMA PasDeCourseInv == IInv => PasDeCourse /\ RienDEcrase
<1> SUFFICES ASSUME IInv PROVE PasDeCourse /\ RienDEcrase
  OBVIOUS
<1>0. /\ sent \in Nat /\ taken \in Nat /\ T \in Nat \ {0}
      /\ taken <= sent /\ Alloues <= taken + T
      /\ En(Entres) # {} => taken < sent
  BY TableSize, Borne, SemTableAssumption DEF IInv, TypeOK, Total
<1>1. ASSUME NEW i \in Ecrits
      PROVE  i = sent % T /\ sent < taken + T
  BY <1>0, <1>1 DEF Ecrits, IInv, Indices, Alloues
<1>2. PasDeCourse
  <2> SUFFICES ASSUME NEW t \in En({"copie"}), iExtrait \in Ecrits PROVE FALSE
    BY DEF PasDeCourse
  <2>1. iExtrait = taken % T
    <3>1. En({"avance"}) = {}
      BY DEF IInv, Exclusion, En
    <3> QED BY <3>1 DEF IInv, Indices
  <2>2. taken < sent
    BY <1>0 DEF En, Entres
  <2>3. iExtrait = sent % T /\ sent - taken < T
    BY <1>0, <1>1
  <2>4. taken % T # sent % T
    BY <1>0, <2>2, <2>3, RingDistinct
  <2> QED BY <2>1, <2>3, <2>4
<1>3. RienDEcrase
  <2>1. ASSUME NEW k \in taken+1 .. sent, (k - 1) % T \in Ecrits PROVE FALSE
    <3>1. k - 1 \in Nat /\ k - 1 < sent /\ sent - (k - 1) < T
      BY <1>0, <1>1, <2>1
    <3> QED BY <1>0, <1>1, <2>1, <3>1, RingDistinct
  <2> QED BY <2>1 DEF RienDEcrase, IInv, Contenu, T
<1> QED BY <1>2, <1>3

(* For any pool and any number of requests, no handler copies a slot the   *)
(* distributor is filling, and no message is overwritten before it is      *)
(* extracted: placeDispo is enough of a guard although the distributor     *)
(* takes no lock and stopping handlers post it twice.                      *)
THEOREM AccesALaTable == Spec => []AccesSurs
<1>1. IInv => AccesSurs
  BY PasDeCourseInv DEF AccesSurs
<1> QED BY <1>1, Invariance, PTL

-----------------------------------------------------------------------------
LEMMA MemeTotal == D!Total = Total
BY DEF D!Total, D!N, Total, N, D!Cardinality, Cardinality

(* Every step of the table is a step of the distribution or changes        *)
(* nothing the distribution speaks of.                                     *)
LEMMA PasRaffine ==
  ASSUME IInv, [Next]_vars
  PROVE  [D!Next]_(D!vars)
<1> USE DEF IInv
<1> DEFINE pris == {"avance", "rend", "teste", "fini"}
           cur  == [t \in Traiteurs |-> IF tpc[t] \in pris THEN treq[t] ELSE 0]
<1>0. /\ sent \in Nat /\ taken \in Nat /\ NbReq \in Nat /\ Total = NbReq + N
      /\ N \in Nat /\ T \in Nat \ {0} /\ D!Total = Total
      /\ tpc \in [Traiteurs -> Places] /\ treq \in [Traiteurs -> 0..Total]
  BY TableSize, Borne, SemTableAssumption, MemeTotal DEF TypeOK, Total, Places
<1>1. ASSUME EnvoyerVersThreadTraiteur PROVE D!Send
  BY <1>0, <1>1 DEF EnvoyerVersThreadTraiteur, tvars, D!Send, En, Boucles
<1>2. ASSUME Joindre PROVE D!Join
  BY <1>0, <1>2 DEF Joindre, tvars, D!Join, En
<1>3. ASSUME AllouerRequete \/ RecevoirRequete \/ AllouerFin \/ DeposerFin
      PROVE  UNCHANGED D!vars
  BY <1>3 DEF AllouerRequete, RecevoirRequete, AllouerFin, DeposerFin, tvars, D!vars, En
<1>4. ASSUME NEW t \in Traiteurs, Copier(t) PROVE D!Take(t)
  <2>1. taken < sent
    BY <1>0, <1>4, Borne DEF Copier, En, Entres
  <2>2. treq' = [treq EXCEPT ![t] = taken + 1]
    BY <1>4, <2>1, <1>0, CopieSuivante DEF Copier
  <2>3. cur[t] = 0 /\ cur' = [cur EXCEPT ![t] = taken + 1]
    BY <1>0, <1>4, <2>2 DEF Copier
  <2>4. En(Finis)' = En(Finis)
    BY <1>0, <1>4 DEF Copier, En, Finis
  <2> QED BY <1>4, <2>1, <2>3, <2>4 DEF Copier, dvars, D!Take, Finis
<1>5. ASSUME NEW t \in Traiteurs, Traiter(t) PROVE D!Treat(t)
  <2>1. cur[t] = treq[t] /\ cur' = [cur EXCEPT ![t] = 0]
    BY <1>0, <1>5 DEF Traiter
  <2>2. En(Finis)' = En(Finis)
    BY <1>0, <1>5 DEF Traiter, En, Finis
  <2> QED BY <1>5, <2>1, <2>2 DEF Traiter, dvars, EstRequete, D!Treat, D!IsRequest, Finis
<1>6. ASSUME NEW t \in Traiteurs, Arreter(t) PROVE D!Stop(t)
  <2>1. treq[t] \in 1..taken /\ treq[t] > NbReq
    BY <1>0, <1>6 DEF Arreter, Copies, En, EstRequete
  <2>2. cur[t] = treq[t] /\ cur' = cur
    BY <1>0, <1>6 DEF Arreter
  <2>3. t \notin En(Finis) /\ En(Finis)' = En(Finis) \union {t}
    BY <1>0, <1>6 DEF Arreter, En, Finis
  <2> QED BY <1>6, <2>1, <2>2, <2>3 DEF Arreter, dvars, D!Stop, Finis
<1>7. ASSUME NEW t \in Traiteurs,
             AttendreInfo(t) \/ Verrouiller(t) \/ Deverrouiller(t) \/ RendrePlace(t)
      PROVE  UNCHANGED D!vars
  <2>1. cur' = cur
    BY <1>0, <1>7 DEF AttendreInfo, Verrouiller, Deverrouiller, RendrePlace
  <2>2. En(Finis)' = En(Finis)
    BY <1>0, <1>7 DEF AttendreInfo, Verrouiller, Deverrouiller, RendrePlace, En, Finis
  <2> QED BY <1>7, <2>1, <2>2
          DEF AttendreInfo, Verrouiller, Deverrouiller, RendrePlace, dvars, D!vars, Finis
<1>8. ASSUME UNCHANGED vars PROVE UNCHANGED D!vars
  BY <1>8 DEF vars, dvars, tvars, D!vars, En
<1> QED BY <1>1, <1>2, <1>3, <1>4, <1>5, <1>6, <1>7, <1>8
        DEF Next, Distributeur, Traiteur, Termine, D!Next

(* The table implements the distribution: the message a handler copies is  *)
(* the next one in the order of sending.                                   *)
THEOREM Raffinement == Spec => D!Spec
<1>1. Init => D!Init
  BY DEF Init, D!Init, En
<1>2. IInv /\ [Next]_vars => [D!Next]_(D!vars)
  BY PasRaffine
<1> QED BY <1>1, <1>2, Invariance, PTL DEF Spec, D!Spec

Promesse == INSTANCE DistributionProofs WITH
       current <- [t \in Traiteurs |->
                     IF tpc[t] \in {"avance", "rend", "teste", "fini"} THEN treq[t] ELSE 0],
       stopped <- En({"fini"}),
       over    <- dpc = "termine"

(* For any pool and any number of requests, the program does not exit      *)
(* before every request was handled.                                       *)
THEOREM ToutEstTraite == Spec => [](dpc = "termine" => treated = 1..NbReq)
<1>0. Promesse!IsFiniteSet(Traiteurs) /\ Traiteurs # {} /\ NbReq \in Nat
  BY SemTableAssumption DEF Promesse!IsFiniteSet, IsFiniteSet
<1>1. Init => Promesse!DInv
  <2>1. Init => Promesse!Init
    BY DEF Init, Promesse!Init, En
  <2> QED BY <1>0, <2>1, Promesse!Initiale
<1>2. IInv /\ Promesse!DInv /\ [Next]_vars => Promesse!DInv'
  <2>1. D!Total = Promesse!Total
    BY DEF D!Total, D!N, Promesse!Total, Promesse!N, D!Cardinality, Promesse!Cardinality
  <2>2. [D!Next]_(D!vars) => [Promesse!Next]_(Promesse!vars)
    <3>1. D!vars = Promesse!vars /\ (UNCHANGED D!vars => UNCHANGED Promesse!vars)
      BY DEF D!vars, Promesse!vars
    <3>2. D!Send => Promesse!Send
      BY <2>1 DEF D!Send, Promesse!Send
    <3>3. D!Join => Promesse!Join
      BY <2>1 DEF D!Join, Promesse!Join
    <3>4. \A t \in Traiteurs : D!Take(t) => Promesse!Take(t)
      BY DEF D!Take, Promesse!Take
    <3>5. \A t \in Traiteurs : D!Treat(t) => Promesse!Treat(t)
      BY DEF D!Treat, Promesse!Treat, D!IsRequest, Promesse!IsRequest
    <3>6. \A t \in Traiteurs : D!Stop(t) => Promesse!Stop(t)
      BY DEF D!Stop, Promesse!Stop
    <3> QED BY <3>1, <3>2, <3>3, <3>4, <3>5, <3>6 DEF D!Next, Promesse!Next
  <2> QED BY <1>0, <2>2, PasRaffine, Promesse!Pas
<1>3. Promesse!DInv => (dpc = "termine" => treated = 1..NbReq)
  BY <1>0, Promesse!Fin
<1> QED BY <1>1, <1>2, <1>3, Invariance, PTL DEF Spec

=============================================================================
