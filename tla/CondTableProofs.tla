-------------------------- MODULE CondTableProofs --------------------------
(***************************************************************************)
(* The safety of the table with condition variables, for every number of   *)
(* handlers and of requests.                                               *)
(***************************************************************************)
EXTENDS CondTable, ProofLemmas

T == TailleTab

(* A handler has copied its message and not yet moved the counters. *)
Retard == IF En({"avance"}) = {} THEN 0 ELSE 1

Exclusion ==
  /\ mutex = En({"copie", "avance"})
  /\ \A t, u \in mutex : t = u

Compteurs ==
  /\ infoPrete = sent + Retard - taken
  /\ placeDispo + Alloues + Retard = T + taken
  /\ taken >= Retard
  /\ En({"copie", "avance"}) # {} => infoPrete # 0

Indices ==
  /\ iDepot = Alloues % T
  /\ dpc = "recevoir" => dreq = sent % T
  /\ iExtrait = (taken - Retard) % T

Boucles ==
  /\ dpc = "recevoir" => sent < NbReq
  /\ dpc = "envoie" => sent < Total

Contenu ==
  /\ \A k \in taken+1 .. sent : tab[(k - 1) % T] = k
  /\ dpc = "envoie" => tab[sent % T] = sent + 1

Copies == \A t \in En({"avance", "teste", "fini"}) : treq[t] \in 1..taken

IInv ==
  /\ TypeOK
  /\ Exclusion
  /\ Compteurs
  /\ Indices
  /\ Boucles
  /\ Contenu
  /\ Copies

Places == {"prend", "dort", "copie", "avance", "teste", "fini"}

-----------------------------------------------------------------------------
LEMMA TableSize == N \in Nat \ {0} /\ T \in Nat \ {0} /\ T = 2 * N
<1>1. N \in Nat /\ N # 0
  BY CondTableAssumption, FS_CardinalityType, FS_EmptySet DEF N
<1> QED BY <1>1 DEF T, TailleTab

LEMMA Tour ==
  /\ \A a \in Nat : a % T \in 0..T-1 /\ Suivant(a % T) = (a + 1) % T
  /\ \A i \in 0..T-1 : Suivant(i) \in 0..T-1
<1>1. \A a \in Nat : a % T \in 0..T-1 /\ Suivant(a % T) = (a + 1) % T
  BY TableSize, DivModulo, RingSuccessor DEF Suivant, T
<1>2. ASSUME NEW i \in 0..T-1 PROVE Suivant(i) \in 0..T-1
  BY TableSize, DivModulo DEF Suivant, T
<1> QED BY <1>1, <1>2

(* The types and bounds every step starts from. *)
LEMMA Bornes ==
  ASSUME IInv
  PROVE  /\ sent \in Nat /\ taken \in Nat /\ NbReq \in Nat /\ N \in Nat /\ Total = NbReq + N
         /\ T \in Nat \ {0} /\ sent <= Total
         /\ Retard \in {0, 1} /\ Alloues \in Nat /\ sent <= Alloues /\ Alloues <= sent + 1
         /\ infoPrete \in Nat /\ placeDispo \in Nat
         /\ taken <= sent /\ Alloues <= taken + T /\ taken >= Retard
         /\ En({"copie"}) # {} => taken < sent
         /\ tpc \in [Traiteurs -> Places]
<1> USE DEF IInv
<1>1. /\ sent \in Nat /\ taken \in Nat /\ NbReq \in Nat /\ N \in Nat /\ Total = NbReq + N
      /\ T \in Nat \ {0} /\ sent <= Total /\ Retard \in {0, 1}
      /\ infoPrete \in Nat /\ placeDispo \in Nat
      /\ tpc \in [Traiteurs -> Places]
  BY TableSize, CondTableAssumption DEF TypeOK, Total, Retard, Places
<1>2. Alloues \in Nat /\ sent <= Alloues /\ Alloues <= sent + 1
  BY <1>1 DEF Alloues
<1>3. Alloues <= taken + T /\ taken >= Retard
  BY <1>1, <1>2 DEF Compteurs
<1>4. /\ En({"copie"}) # {} => Retard = 0 /\ infoPrete # 0
      /\ Retard = 1 => infoPrete # 0
  BY DEF Exclusion, Compteurs, En, Retard
<1>5. En({"copie"}) # {} => taken < sent
  BY <1>1, <1>4 DEF Compteurs
<1>6. taken <= sent
  <2>1. CASE Retard = 0
    BY <2>1, <1>1 DEF Compteurs
  <2>2. CASE Retard = 1
    BY <2>2, <1>1, <1>4 DEF Compteurs
  <2> QED BY <2>1, <2>2, <1>1
<1> QED BY <1>1, <1>2, <1>3, <1>5, <1>6

LEMMA Initialisation == Init => IInv
<1> SUFFICES ASSUME Init PROVE IInv
  OBVIOUS
<1> USE DEF Init
<1>1. TypeOK
  BY TableSize, CondTableAssumption DEF TypeOK, T, TailleTab, Total
<1>2. Retard = 0 /\ Alloues = 0
  BY DEF Retard, Alloues, En
<1>3. Exclusion /\ Boucles /\ Contenu /\ Copies
  BY DEF Exclusion, Boucles, Contenu, Copies, En
<1>4. Compteurs
  BY <1>2, TableSize DEF Compteurs, T, En
<1>5. Indices
  <2>1. 0 % T = 0
    BY TableSize, RemainderSmall
  <2> QED BY <1>2, <2>1 DEF Indices
<1> QED BY <1>1, <1>3, <1>4, <1>5 DEF IInv

(* The steps of the distributor that reserve, fill and announce a slot.    *)
LEMMA PasDistributeur == IInv /\ Distributeur => IInv'
<1> SUFFICES ASSUME IInv, Distributeur PROVE IInv'
  OBVIOUS
<1> USE DEF IInv
<1>0. /\ sent \in Nat /\ taken \in Nat /\ NbReq \in Nat /\ N \in Nat /\ Total = NbReq + N
      /\ T \in Nat \ {0} /\ sent <= Total
      /\ Retard \in {0, 1} /\ Alloues \in Nat /\ sent <= Alloues /\ Alloues <= sent + 1
      /\ infoPrete \in Nat /\ placeDispo \in Nat
      /\ taken <= sent /\ Alloues <= taken + T /\ taken >= Retard
      /\ tpc \in [Traiteurs -> Places]
  BY Bornes
<1>1. CASE AttendrePlace
  BY <1>1 DEF AttendrePlace, TypeOK, Exclusion, Compteurs, Indices, Boucles, Contenu, Copies,
              Retard, Alloues, En
<1>2. CASE AllouerRequete
  <2> USE <1>2 DEF AllouerRequete
  <2>1. iDepot = sent % T /\ Suivant(iDepot) = (sent + 1) % T /\ Suivant(iDepot) \in 0..T-1
    BY <1>0, Tour DEF Indices, Alloues
  <2>2. TypeOK'
    BY <1>0, <2>1 DEF TypeOK, T
  <2>3. Alloues' = Alloues + 1 /\ Alloues' = sent + 1 /\ Retard' = Retard /\ T' = T
    BY DEF Alloues, Retard, En, T, TailleTab
  <2>4. Compteurs'
    BY <1>0, <2>3 DEF Compteurs, En
  <2>5. Indices'
    BY <2>1, <2>3 DEF Indices
  <2>6. Exclusion' /\ Boucles' /\ Contenu' /\ Copies'
    BY DEF Exclusion, Boucles, Contenu, Copies, En
  <2> QED BY <2>2, <2>4, <2>5, <2>6
<1>3. CASE RecevoirRequete
  <2> USE <1>3 DEF RecevoirRequete
  <2>1. dreq = sent % T /\ sent < NbReq /\ sent < taken + T /\ sent + 1 \in 0..Total
    BY <1>0 DEF Indices, Boucles, Alloues
  <2>2. TypeOK'
    BY <2>1 DEF TypeOK
  <2>3. Contenu'
    <3>1. ASSUME NEW k \in taken+1 .. sent PROVE tab'[(k - 1) % T] = k
      <4>1. k - 1 \in Nat /\ k - 1 < sent /\ sent - (k - 1) < T
        BY <1>0, <2>1
      <4>2. (k - 1) % T # sent % T
        BY <4>1, <1>0, RingDistinct
      <4> QED BY <4>1, <4>2, <2>1, Tour DEF Contenu, TypeOK, T
    <3>2. tab'[sent % T] = sent + 1
      BY <2>1, <1>0, Tour DEF TypeOK, T
    <3> QED BY <3>1, <3>2 DEF Contenu
  <2>4. Alloues' = Alloues /\ Retard' = Retard /\ T' = T
    BY DEF Alloues, Retard, En, T, TailleTab
  <2>5. Compteurs' /\ Indices' /\ Boucles'
    BY <1>0, <2>1, <2>4 DEF Compteurs, Indices, Boucles, En
  <2>6. Exclusion' /\ Copies'
    BY DEF Exclusion, Copies, En
  <2> QED BY <2>2, <2>3, <2>5, <2>6
<1>4. CASE DeposerFin
  <2> USE <1>4 DEF DeposerFin
  <2>1. /\ iDepot = sent % T /\ sent < Total /\ sent + 1 \in 0..Total
        /\ Suivant(iDepot) = (sent + 1) % T /\ Suivant(iDepot) \in 0..T-1
    <3>1. iDepot = sent % T
      BY DEF Indices, Alloues
    <3>2. Suivant(sent % T) = (sent + 1) % T /\ (sent + 1) % T \in 0..T-1
      BY <1>0, Tour
    <3> QED BY <1>0, <3>1, <3>2
  <2>2. sent < taken + T
    BY <1>0 DEF Compteurs, Alloues
  <2>3. TypeOK'
    BY <1>0, <2>1 DEF TypeOK, T
  <2>4. Contenu'
    <3>1. ASSUME NEW k \in taken+1 .. sent PROVE tab'[(k - 1) % T] = k
      <4>1. k - 1 \in Nat /\ k - 1 < sent /\ sent - (k - 1) < T
        BY <1>0, <2>2
      <4>2. (k - 1) % T # sent % T
        BY <4>1, <1>0, RingDistinct
      <4> QED BY <4>1, <4>2, <2>1, Tour DEF Contenu, TypeOK, T
    <3>2. tab'[sent % T] = sent + 1
      BY <2>1, <1>0, Tour DEF TypeOK, T
    <3> QED BY <3>1, <3>2 DEF Contenu
  <2>5. Alloues' = Alloues + 1 /\ Alloues' = sent + 1 /\ Retard' = Retard /\ T' = T
    BY DEF Alloues, Retard, En, T, TailleTab
  <2>6. Compteurs' /\ Indices' /\ Boucles'
    BY <1>0, <2>1, <2>5 DEF Compteurs, Indices, Boucles, En
  <2>7. Exclusion' /\ Copies'
    BY DEF Exclusion, Copies, En
  <2> QED BY <2>3, <2>4, <2>6, <2>7
<1>5. CASE EnvoyerVersThreadTraiteur
  <2> USE <1>5 DEF EnvoyerVersThreadTraiteur
  <2>1. PICK S \in SUBSET En({"dort"}) :
             tpc' = [t \in Traiteurs |-> IF t \in S THEN "prend" ELSE tpc[t]]
    BY DEF SignalerInfoPrete
  <2>2. /\ tpc' \in [Traiteurs -> Places]
        /\ \A E : "dort" \notin E /\ "prend" \notin E => En(E)' = En(E)
    BY <1>0, <2>1 DEF Places, En
  <2>3. /\ En({"avance"})' = En({"avance"}) /\ En({"copie"})' = En({"copie"})
        /\ En({"copie", "avance"})' = En({"copie", "avance"})
        /\ En({"avance", "teste", "fini"})' = En({"avance", "teste", "fini"})
    BY <2>2
  <2>4. Alloues' = Alloues /\ Retard' = Retard /\ T' = T /\ sent < Total /\ sent + 1 = Alloues
    BY <2>3 DEF Alloues, Retard, T, TailleTab, Boucles
  <2>5. TypeOK'
    <3>1. infoPrete + 1 \in 0..TailleTab
      BY <1>0, <2>4 DEF Compteurs, T
    <3> QED BY <1>0, <2>2, <2>4, <3>1 DEF TypeOK, Places
  <2>6. Compteurs'
    BY <1>0, <2>3, <2>4 DEF Compteurs
  <2>7. Contenu'
    <3>1. ASSUME NEW k \in taken+1 .. sent+1 PROVE tab[(k - 1) % T] = k
      <4>1. CASE k = sent + 1
        BY <4>1, <1>0 DEF Contenu
      <4>2. CASE k # sent + 1
        BY <4>2, <1>0 DEF Contenu
      <4> QED BY <4>1, <4>2
    <3> QED BY <3>1 DEF Contenu
  <2>8. Indices' /\ Boucles' /\ Exclusion' /\ Copies'
    BY <2>3, <2>4 DEF Indices, Boucles, Exclusion, Copies
  <2> QED BY <2>5, <2>6, <2>7, <2>8
<1>6. CASE Joindre
  BY <1>6 DEF Joindre, TypeOK, Exclusion, Compteurs, Indices, Boucles, Contenu, Copies,
              Retard, Alloues, En
<1> QED BY <1>1, <1>2, <1>3, <1>4, <1>5, <1>6 DEF Distributeur

(* The message under iExtrait when a handler copies is the next in order. *)
LEMMA CopieSuivante ==
  ASSUME IInv, NEW t \in Traiteurs, tpc[t] = "copie"
  PROVE  /\ taken < sent
         /\ En({"avance"}) = {} /\ Retard = 0
         /\ iExtrait = taken % T
         /\ tab[iExtrait] = taken + 1
<1> USE DEF IInv
<1>1. taken < sent /\ taken \in Nat /\ sent \in Nat
  BY Bornes DEF En
<1>2. En({"avance"}) = {} /\ Retard = 0
  BY DEF Exclusion, En, Retard
<1>3. iExtrait = taken % T
  BY <1>1, <1>2 DEF Indices
<1>4. tab[((taken + 1) - 1) % T] = taken + 1
  BY <1>1 DEF Contenu
<1> QED BY <1>1, <1>2, <1>3, <1>4

(* A handler's steps, and the wake-ups. *)
LEMMA PasTraiteur ==
  ASSUME IInv, NEW t \in Traiteurs, Traiteur(t) \/ ReveilTraiteur(t)
  PROVE  IInv'
<1> USE DEF IInv
<1>0. /\ sent \in Nat /\ taken \in Nat /\ NbReq \in Nat /\ N \in Nat /\ Total = NbReq + N
      /\ T \in Nat \ {0} /\ sent <= Total
      /\ Retard \in {0, 1} /\ Alloues \in Nat /\ sent <= Alloues /\ Alloues <= sent + 1
      /\ infoPrete \in Nat /\ placeDispo \in Nat
      /\ taken <= sent /\ Alloues <= taken + T /\ taken >= Retard
      /\ tpc \in [Traiteurs -> Places]
  BY Bornes
<1>1. CASE AttendreInfo(t) \/ ReveilTraiteur(t) \/ Arreter(t)
  <2>1. /\ \E p \in {"prend", "dort", "fini"} : tpc' = [tpc EXCEPT ![t] = p]
        /\ tpc[t] \in {"prend", "dort", "teste"} /\ (tpc'[t] = "fini" => tpc[t] = "teste")
        /\ UNCHANGED <<placeDispo, infoPrete, mutex, iDepot, iExtrait, tab, dpc, dreq, sent, treq, taken, treated>>
    BY <1>0, <1>1 DEF AttendreInfo, ReveilTraiteur, Arreter
  <2>2. /\ \A u \in Traiteurs : u # t => tpc'[u] = tpc[u]
        /\ tpc'[t] \in {"prend", "dort", "fini"} /\ tpc' \in [Traiteurs -> Places]
    BY <1>0, <2>1 DEF Places
  <2>3. /\ En({"copie", "avance"})' = En({"copie", "avance"}) /\ En({"avance"})' = En({"avance"})
        /\ En({"avance", "teste", "fini"})' \subseteq En({"avance", "teste", "fini"})
    BY <2>1, <2>2 DEF En
  <2>4. Exclusion' /\ Copies'
    BY <2>1, <2>3 DEF Exclusion, Copies
  <2>5. Compteurs' /\ Indices' /\ Boucles' /\ Contenu'
    BY <2>1, <2>3 DEF Compteurs, Indices, Boucles, Contenu, Retard, Alloues, T, TailleTab
  <2>6. TypeOK'
    BY <2>1, <2>2 DEF TypeOK, Places
  <2> QED BY <2>4, <2>5, <2>6
<1>2. CASE Verrouiller(t)
  <2> USE <1>2 DEF Verrouiller
  <2>1. Retard' = Retard /\ Alloues' = Alloues /\ T' = T
    BY <1>0 DEF Exclusion, En, Retard, Alloues, T, TailleTab
  <2>2. Compteurs' /\ Indices'
    BY <1>0, <2>1 DEF Compteurs, Indices
  <2>3. TypeOK' /\ Exclusion' /\ Boucles' /\ Contenu' /\ Copies'
    BY <1>0 DEF TypeOK, Exclusion, Boucles, Contenu, Copies, En
  <2> QED BY <2>2, <2>3
<1>3. CASE Copier(t)
  <2> USE <1>3 DEF Copier
  <2>1. taken < sent /\ Retard = 0 /\ iExtrait = taken % T /\ tab[iExtrait] = taken + 1
    BY CopieSuivante
  <2>2. Retard' = 1 /\ Alloues' = Alloues /\ T' = T
    BY <1>0 DEF En, Retard, Alloues, T, TailleTab
  <2>3. infoPrete # 0
    BY DEF Compteurs, En
  <2>4. TypeOK' /\ Exclusion' /\ Boucles' /\ Contenu'
    BY <1>0, <2>1 DEF TypeOK, Exclusion, Boucles, Contenu, En
  <2>5. Compteurs'
    BY <1>0, <2>1, <2>2, <2>3 DEF Compteurs
  <2>6. Indices'
    BY <1>0, <2>1, <2>2 DEF Indices
  <2>7. Copies'
    BY <1>0, <2>1 DEF Copies, En, TypeOK
  <2> QED BY <2>4, <2>5, <2>6, <2>7
<1>4. CASE Extraire(t)
  <2> USE <1>4 DEF Extraire
  <2>1. Retard = 1 /\ infoPrete # 0 /\ taken >= 1
    BY <1>0 DEF En, Retard, Compteurs
  <2>2. /\ iExtrait = (taken - 1) % T /\ Suivant(iExtrait) = taken % T
        /\ Suivant(iExtrait) \in 0..T-1
    <3>1. taken - 1 \in Nat /\ (taken - 1) + 1 = taken
      BY <2>1, <1>0
    <3>2. iExtrait = (taken - 1) % T
      BY <2>1 DEF Indices
    <3>3. Suivant((taken - 1) % T) = ((taken - 1) + 1) % T
      BY <3>1, Tour
    <3> QED BY <3>1, <3>2, <3>3, <1>0, Tour
  <2>3. En({"avance"})' = {} /\ En({"copie"})' = {} /\ mutex' = {}
    BY <1>0 DEF Exclusion, En
  <2>4. Retard' = 0 /\ Alloues' = Alloues /\ T' = T
    BY <2>3 DEF Retard, Alloues, T, TailleTab
  <2>5. Compteurs'
    <3>1. En({"copie", "avance"})' = {}
      BY <1>0 DEF Exclusion, En
    <3>2. infoPrete - 1 = sent - taken /\ placeDispo + 1 + Alloues = T + taken
      BY <1>0, <2>1 DEF Compteurs
    <3> QED BY <1>0, <2>4, <3>1, <3>2 DEF Compteurs
  <2>6. TypeOK'
    <3>1. placeDispo + 1 \in 0..TailleTab /\ infoPrete - 1 \in 0..TailleTab
      BY <1>0, <2>1 DEF TypeOK, Compteurs, T
    <3> QED BY <1>0, <2>2, <3>1 DEF TypeOK, T
  <2>7. Indices'
    BY <1>0, <2>2, <2>4 DEF Indices
  <2>8. Exclusion' /\ Boucles' /\ Contenu' /\ Copies'
    BY <1>0, <2>3 DEF Exclusion, Boucles, Contenu, Copies, En
  <2> QED BY <2>5, <2>6, <2>7, <2>8
<1>5. CASE Traiter(t)
  BY <1>0, <1>5 DEF Traiter, TypeOK, Exclusion, Compteurs, Indices, Boucles, Contenu, Copies,
              Retard, Alloues, En, EstRequete
<1> QED BY <1>1, <1>2, <1>3, <1>4, <1>5 DEF Traiteur

(* IInv is an inductive invariant. *)
THEOREM Invariance == Spec => []IInv
<1>1. ASSUME IInv, UNCHANGED vars PROVE IInv'
  BY <1>1 DEF vars, IInv, TypeOK, Exclusion, Compteurs, Indices, Boucles, Contenu, Copies,
              Retard, Alloues, En
<1>2. ASSUME IInv, ReveilDistributeur PROVE IInv'
  BY <1>2 DEF ReveilDistributeur, IInv, TypeOK, Exclusion, Compteurs, Indices, Boucles, Contenu,
              Copies, Retard, Alloues, En
<1>3. ASSUME IInv, [Next]_vars PROVE IInv'
  BY <1>1, <1>2, <1>3, PasDistributeur, PasTraiteur DEF Next, Termine, Reveil
<1> QED BY Initialisation, <1>3, PTL DEF Spec

(* For any pool and any number of requests, the slot the distributor fills *)
(* without the mutex is never one a handler copies or has yet to copy; and *)
(* the counters and the indices stay within the table.                     *)
THEOREM AccesALaTable == Spec => []AccesExclusif
<1>1. ASSUME IInv PROVE AccesExclusif
  <2>0. /\ sent \in Nat /\ taken \in Nat /\ T \in Nat \ {0}
        /\ taken <= sent /\ Alloues <= taken + T
    BY <1>1, Bornes
  <2>1. ASSUME dpc = "recevoir" PROVE dreq = sent % T /\ sent < taken + T
    BY <1>1, <2>0, <2>1 DEF IInv, Indices, Alloues
  <2>2. ASSUME dpc = "recevoir", NEW k \in taken+1 .. sent
        PROVE  (k - 1) % T # dreq
    <3>1. k - 1 \in Nat /\ k - 1 < sent /\ sent - (k - 1) < T
      BY <2>0, <2>1, <2>2
    <3>2. (k - 1) % T # sent % T
      BY <3>1, <2>0, RingDistinct
    <3> QED BY <2>1, <2>2, <3>2
  <2>3. ASSUME dpc = "recevoir", NEW t \in En({"copie"})
        PROVE  iExtrait # dreq
    <3>1. taken < sent /\ iExtrait = taken % T
      BY <1>1, CopieSuivante DEF En
    <3>2. sent - taken < T
      BY <2>0, <2>1, <2>3
    <3>3. taken % T # sent % T
      BY <3>1, <3>2, <2>0, RingDistinct
    <3> QED BY <2>1, <2>3, <3>1, <3>3
  <2> QED BY <1>1, <2>2, <2>3 DEF AccesExclusif, IInv, Contenu, T
<1> QED BY <1>1, Invariance, PTL

-----------------------------------------------------------------------------
Eveilles == En({"prend", "copie", "avance"})

LEMMA EveillesFinis ==
  /\ IsFiniteSet(Eveilles) /\ Cardinality(Eveilles) \in Nat
  /\ Eveilles \in SUBSET Traiteurs
<1>1. Eveilles \in SUBSET Traiteurs
  BY DEF Eveilles, En
<1> QED BY <1>1, CondTableAssumption, FS_Subset, FS_CardinalityType

(* When one handler moves, Eveilles loses or gains it. *)
LEMMA EveillesBouge ==
  ASSUME NEW t \in Traiteurs, \A u \in Traiteurs \ {t} : tpc'[u] = tpc[u]
  PROVE  /\ Cardinality(Eveilles)' \in Nat
         /\ (t \in Eveilles <=> t \in Eveilles') => Cardinality(Eveilles)' = Cardinality(Eveilles)
         /\ t \notin Eveilles /\ t \in Eveilles' => Cardinality(Eveilles)' = Cardinality(Eveilles) + 1
         /\ t \in Eveilles /\ t \notin Eveilles' => Cardinality(Eveilles) = Cardinality(Eveilles)' + 1
<1> DEFINE avant == Eveilles
           apres == Eveilles'
<1>1. /\ avant \in SUBSET Traiteurs /\ apres \in SUBSET Traiteurs
      /\ \A u \in Traiteurs \ {t} : u \in avant <=> u \in apres
  BY DEF Eveilles, En
<1> HIDE DEF avant, apres
<1>2. /\ Cardinality(apres) \in Nat
      /\ (t \in avant <=> t \in apres) => Cardinality(apres) = Cardinality(avant)
      /\ t \notin avant /\ t \in apres => Cardinality(apres) = Cardinality(avant) + 1
      /\ t \in avant /\ t \notin apres => Cardinality(avant) = Cardinality(apres) + 1
  BY <1>1, CountMove, CondTableAssumption
<1> QED BY <1>2 DEF avant, apres

(* A signal sent while handlers sleep adds a handler that is awake. *)
LEMMA SignalReveille ==
  ASSUME tpc \in [Traiteurs -> Places], SignalerInfoPrete, En({"dort"}) # {}
  PROVE  Cardinality(Eveilles)' \in Nat /\ Cardinality(Eveilles)' >= Cardinality(Eveilles) + 1
<1>1. PICK S \in SUBSET En({"dort"}) :
         /\ S # {}
         /\ tpc' = [t \in Traiteurs |-> IF t \in S THEN "prend" ELSE tpc[t]]
  BY DEF SignalerInfoPrete
<1>2. PICK s \in S : s \notin Eveilles
  BY <1>1 DEF Eveilles, En
<1> DEFINE avant == Eveilles
           apres == Eveilles'
<1>3. apres \in SUBSET Traiteurs /\ avant \union {s} \subseteq apres /\ s \notin avant
  BY <1>1, <1>2 DEF Eveilles, En
<1>4. IsFiniteSet(avant) /\ Cardinality(avant) \in Nat
  BY EveillesFinis
<1> HIDE DEF avant, apres
<1>5. IsFiniteSet(apres)
  BY <1>3, CondTableAssumption, FS_Subset
<1>6. Cardinality(avant \union {s}) = Cardinality(avant) + 1
  BY <1>3, <1>4, FS_AddElement
<1>7. Cardinality(avant \union {s}) <= Cardinality(apres)
  BY <1>3, <1>5, FS_Subset
<1>8. Cardinality(apres) \in Nat
  BY <1>5, FS_CardinalityType
<1> QED BY <1>4, <1>6, <1>7, <1>8 DEF avant, apres

LEMMA PasReveil ==
  ASSUME IInv, PasDeReveilPerdu, [Next]_vars
  PROVE  PasDeReveilPerdu'
<1> USE DEF PasDeReveilPerdu
<1>0. /\ infoPrete \in Nat /\ placeDispo \in Nat /\ Cardinality(Eveilles) \in Nat
      /\ tpc \in [Traiteurs -> Places]
      /\ En({"dort"}) # {} => infoPrete <= Cardinality(Eveilles)
  BY Bornes, EveillesFinis DEF Eveilles
<1>1. ASSUME UNCHANGED <<tpc, infoPrete>>, dpc' = "dort" => placeDispo' = 0
      PROVE  PasDeReveilPerdu'
  BY <1>1 DEF En
<1>2. CASE UNCHANGED vars
  BY <1>2 DEF vars, En
<1>3. CASE Distributeur /\ ~EnvoyerVersThreadTraiteur
  BY <1>1, <1>3 DEF Distributeur, AttendrePlace, AllouerRequete, RecevoirRequete, DeposerFin, Joindre
<1>4. CASE EnvoyerVersThreadTraiteur
  <2> USE <1>4 DEF EnvoyerVersThreadTraiteur
  <2>1. En({"dort"}) = {} => En({"dort"})' = {}
    BY DEF SignalerInfoPrete, En
  <2>2. CASE En({"dort"}) # {}
    <3>1. Cardinality(Eveilles)' \in Nat /\ Cardinality(Eveilles)' >= Cardinality(Eveilles) + 1
      BY <1>0, <2>2, SignalReveille
    <3>2. infoPrete' <= Cardinality(Eveilles)'
      BY <1>0, <2>2, <3>1
    <3> QED BY <3>2 DEF Eveilles
  <2> QED BY <2>1, <2>2
<1>5. ASSUME NEW t \in Traiteurs, Traiteur(t) \/ ReveilTraiteur(t)
      PROVE  PasDeReveilPerdu'
  <2>1. Cardinality(Eveilles') \in Nat
    <3>1. Eveilles' \in SUBSET Traiteurs
      BY DEF Eveilles, En
    <3> QED BY <3>1, CondTableAssumption, FS_Subset, FS_CardinalityType
  <2>2. SUFFICES En({"dort"})' # {} => infoPrete' <= Cardinality(Eveilles')
    BY <1>5 DEF Eveilles, Traiteur, ReveilTraiteur, AttendreInfo, Verrouiller, Copier, Extraire,
                Arreter, Traiter
  <2>3. CASE AttendreInfo(t)
    BY <2>1, <2>3 DEF AttendreInfo
  <2>4. CASE Verrouiller(t) \/ Copier(t) \/ Arreter(t)
    <3>1. /\ Eveilles' = Eveilles /\ En({"dort"})' = En({"dort"})
          /\ infoPrete' = infoPrete
      BY <1>0, <2>4 DEF Verrouiller, Copier, Arreter, Eveilles, En
    <3> QED BY <1>0, <3>1
  <2>5. CASE Extraire(t)
    <3>1. /\ \A u \in Traiteurs \ {t} : tpc'[u] = tpc[u]
          /\ t \in Eveilles /\ t \notin Eveilles'
          /\ En({"dort"})' = En({"dort"})
          /\ infoPrete' = infoPrete - 1
      BY <1>0, <2>5 DEF Extraire, Eveilles, En
    <3>2. Cardinality(Eveilles) = Cardinality(Eveilles)' + 1
      BY <3>1, EveillesBouge
    <3> QED BY <1>0, <2>1, <3>1, <3>2
  <2>6. CASE Traiter(t) \/ ReveilTraiteur(t)
    <3>1. /\ \A u \in Traiteurs \ {t} : tpc'[u] = tpc[u]
          /\ t \notin Eveilles /\ t \in Eveilles'
          /\ En({"dort"})' \subseteq En({"dort"})
          /\ infoPrete' = infoPrete
      BY <1>0, <2>6 DEF Traiter, ReveilTraiteur, Eveilles, En
    <3>2. Cardinality(Eveilles)' = Cardinality(Eveilles) + 1
      BY <3>1, EveillesBouge
    <3> QED BY <1>0, <2>1, <3>1, <3>2
  <2> QED BY <1>5, <2>3, <2>4, <2>5, <2>6 DEF Traiteur
<1>6. CASE ReveilDistributeur
  BY <1>1, <1>6 DEF ReveilDistributeur
<1> QED BY <1>2, <1>3, <1>4, <1>5, <1>6 DEF Next, Reveil, Termine

(* For any pool and any number of requests, and whatever wakes up          *)
(* spuriously, a handler never sleeps on while more messages are announced *)
(* than handlers are coming for, and the distributor never sleeps while a  *)
(* slot is free.                                                           *)
THEOREM AucunReveilPerdu == Spec => []PasDeReveilPerdu
<1>1. Init => PasDeReveilPerdu
  BY DEF Init, PasDeReveilPerdu, En
<1>2. IInv /\ PasDeReveilPerdu /\ [Next]_vars => PasDeReveilPerdu'
  BY PasReveil
<1> QED BY <1>1, <1>2, Invariance, PTL DEF Spec

-----------------------------------------------------------------------------
LEMMA MemeTotal == D!Total = Total
BY DEF D!Total, D!N, Total, N, D!Cardinality, Cardinality

(* Sleeping and waking, the mutex and the counters are hidden from the     *)
(* distribution; every other step is one of its own.                       *)
LEMMA PasRaffine ==
  ASSUME IInv, [Next]_vars
  PROVE  [D!Next]_(D!vars)
<1> USE DEF IInv
<1> DEFINE pris == {"avance", "teste", "fini"}
           cur  == [t \in Traiteurs |-> IF tpc[t] \in pris THEN treq[t] ELSE 0]
           Finis == {"fini"}
<1>0. /\ sent \in Nat /\ taken \in Nat /\ NbReq \in Nat /\ Total = NbReq + N
      /\ N \in Nat /\ T \in Nat \ {0} /\ D!Total = Total
      /\ tpc \in [Traiteurs -> Places] /\ treq \in [Traiteurs -> 0..Total]
  BY Bornes, MemeTotal DEF TypeOK
<1>1. ASSUME EnvoyerVersThreadTraiteur PROVE D!Send
  <2>1. PICK S \in SUBSET En({"dort"}) :
             tpc' = [t \in Traiteurs |-> IF t \in S THEN "prend" ELSE tpc[t]]
    BY <1>1 DEF EnvoyerVersThreadTraiteur, SignalerInfoPrete
  <2>2. cur' = cur /\ En(Finis)' = En(Finis)
    BY <1>0, <1>1, <2>1 DEF EnvoyerVersThreadTraiteur, En
  <2>3. dpc # "termine" /\ dpc' # "termine" /\ sent < Total
    BY <1>1 DEF EnvoyerVersThreadTraiteur, Boucles
  <2> QED BY <1>0, <1>1, <2>2, <2>3 DEF EnvoyerVersThreadTraiteur, D!Send
<1>2. ASSUME Joindre PROVE D!Join
  BY <1>0, <1>2 DEF Joindre, D!Join, En
<1>3. ASSUME AttendrePlace \/ AllouerRequete \/ RecevoirRequete \/ DeposerFin \/ ReveilDistributeur
      PROVE  UNCHANGED D!vars
  BY <1>3 DEF AttendrePlace, AllouerRequete, RecevoirRequete, DeposerFin, ReveilDistributeur,
              D!vars, En
<1>4. ASSUME NEW t \in Traiteurs, Copier(t) PROVE D!Take(t)
  <2>1. taken < sent /\ treq' = [treq EXCEPT ![t] = taken + 1]
    BY <1>4, CopieSuivante DEF Copier
  <2>2. cur[t] = 0 /\ cur' = [cur EXCEPT ![t] = taken + 1]
    BY <1>0, <1>4, <2>1 DEF Copier
  <2>3. En(Finis)' = En(Finis)
    BY <1>0, <1>4 DEF Copier, En
  <2> QED BY <1>4, <2>1, <2>2, <2>3 DEF Copier, D!Take
<1>5. ASSUME NEW t \in Traiteurs, Traiter(t) PROVE D!Treat(t)
  <2>1. cur[t] = treq[t] /\ cur' = [cur EXCEPT ![t] = 0]
    BY <1>0, <1>5 DEF Traiter
  <2>2. En(Finis)' = En(Finis)
    BY <1>0, <1>5 DEF Traiter, En
  <2> QED BY <1>5, <2>1, <2>2 DEF Traiter, EstRequete, D!Treat, D!IsRequest
<1>6. ASSUME NEW t \in Traiteurs, Arreter(t) PROVE D!Stop(t)
  <2>1. treq[t] \in 1..taken /\ treq[t] > NbReq
    BY <1>0, <1>6 DEF Arreter, Copies, En, EstRequete
  <2>2. cur[t] = treq[t] /\ cur' = cur
    BY <1>0, <1>6 DEF Arreter
  <2>3. t \notin En(Finis) /\ En(Finis)' = En(Finis) \union {t}
    BY <1>0, <1>6 DEF Arreter, En
  <2> QED BY <1>6, <2>1, <2>2, <2>3 DEF Arreter, D!Stop
<1>7. ASSUME NEW t \in Traiteurs,
             AttendreInfo(t) \/ Verrouiller(t) \/ Extraire(t) \/ ReveilTraiteur(t)
      PROVE  UNCHANGED D!vars
  <2>1. cur' = cur
    BY <1>0, <1>7 DEF AttendreInfo, Verrouiller, Extraire, ReveilTraiteur
  <2>2. En(Finis)' = En(Finis)
    BY <1>0, <1>7 DEF AttendreInfo, Verrouiller, Extraire, ReveilTraiteur, En
  <2>3. (dpc' = "termine") = (dpc = "termine")
    BY <1>7 DEF AttendreInfo, Verrouiller, Extraire, ReveilTraiteur
  <2> QED BY <1>7, <2>1, <2>2, <2>3
          DEF AttendreInfo, Verrouiller, Extraire, ReveilTraiteur, D!vars
<1>8. ASSUME UNCHANGED vars PROVE UNCHANGED D!vars
  BY <1>8 DEF vars, D!vars, En
<1> QED BY <1>1, <1>2, <1>3, <1>4, <1>5, <1>6, <1>7, <1>8
        DEF Next, Distributeur, Traiteur, Reveil, Termine, D!Next

(* The table implements the distribution, spurious wake-ups included: a    *)
(* handler that comes back from its wait takes the next message in the     *)
(* order of sending.                                                       *)
THEOREM Raffinement == Spec => D!Spec
<1>1. Init => D!Init
  BY DEF Init, D!Init, En
<1>2. IInv /\ [Next]_vars => [D!Next]_(D!vars)
  BY PasRaffine
<1> QED BY <1>1, <1>2, Invariance, PTL DEF Spec, D!Spec

Promesse == INSTANCE DistributionProofs WITH
       current <- [t \in Traiteurs |->
                     IF tpc[t] \in {"avance", "teste", "fini"} THEN treq[t] ELSE 0],
       stopped <- En({"fini"}),
       over    <- dpc = "termine"

(* For any pool and any number of requests, whatever sleeps and wakes up,  *)
(* the program does not exit before every request was handled.             *)
THEOREM ToutEstTraite == Spec => [](dpc = "termine" => treated = 1..NbReq)
<1>0. Promesse!IsFiniteSet(Traiteurs) /\ Traiteurs # {} /\ NbReq \in Nat
  BY CondTableAssumption DEF Promesse!IsFiniteSet, IsFiniteSet
<1>1. Init => Promesse!DInv
  <2>1. Init => Promesse!Init
    BY DEF Init, Promesse!Init, En
  <2> QED BY <1>0, <2>1, Promesse!Initiale
<1>2. IInv /\ Promesse!DInv /\ [Next]_vars => Promesse!DInv'
  <2>1. D!Total = Promesse!Total
    BY DEF D!Total, D!N, Promesse!Total, Promesse!N, D!Cardinality, Promesse!Cardinality
  <2>2. [D!Next]_(D!vars) => [Promesse!Next]_(Promesse!vars)
    <3>1. D!vars = Promesse!vars /\ (UNCHANGED D!vars => UNCHANGED Promesse!vars)
      BY DEF D!vars, Promesse!vars
    <3>2. D!Send => Promesse!Send
      BY <2>1 DEF D!Send, Promesse!Send
    <3>3. D!Join => Promesse!Join
      BY <2>1 DEF D!Join, Promesse!Join
    <3>4. \A t \in Traiteurs : D!Take(t) => Promesse!Take(t)
      BY DEF D!Take, Promesse!Take
    <3>5. \A t \in Traiteurs : D!Treat(t) => Promesse!Treat(t)
      BY DEF D!Treat, Promesse!Treat, D!IsRequest, Promesse!IsRequest
    <3>6. \A t \in Traiteurs : D!Stop(t) => Promesse!Stop(t)
      BY DEF D!Stop, Promesse!Stop
    <3> QED BY <3>1, <3>2, <3>3, <3>4, <3>5, <3>6 DEF D!Next, Promesse!Next
  <2> QED BY <1>0, <2>2, PasRaffine, Promesse!Pas
<1>3. Promesse!DInv => (dpc = "termine" => treated = 1..NbReq)
  BY <1>0, Promesse!Fin
<1> QED BY <1>1, <1>2, <1>3, Invariance, PTL DEF Spec

=============================================================================
