----------------------------- MODULE CoursProofs -----------------------------
(***************************************************************************)
(* The programs of the courses.  The servers and shared resources that     *)
(* MCServeurs checks side by side: what holds of each for every number of  *)
(* clients, threads and requests.  Then the allocator of memory_alloc.c:   *)
(* what holds for any number and size of pages, as long as clients ask for *)
(* sizes that memory_free gives back in full.  Last, the tree of           *)
(* arbreAVL.c, in the middle of the rotations too: no node is lost, the    *)
(* keys stay ordered, the heights are exact and the tree balanced, and it  *)
(* is the dictionary it promises to be.                                    *)
(***************************************************************************)
EXTENDS Tchaton, ChatPoll, EchoLoops, ServeurWeb, Nommage, ServeursTCP, Spouleurs, Banque,
        MemoryAlloc, ArbreAVL, ProofLemmas, SequenceTheorems

-----------------------------------------------------------------------------
(* The name servers. *)

(* A sequence without one of its elements. *)
LEMMA SansUn ==
  ASSUME NEW S, NEW s \in Seq(S), NEW i \in 1 .. Len(s)
  PROVE  /\ RemoveAt(s, i) \in Seq(S) /\ Len(RemoveAt(s, i)) = Len(s) - 1
         /\ \A j \in 1 .. Len(s) - 1 : RemoveAt(s, i)[j] = s[IF j < i THEN j ELSE j + 1]
<1> DEFINE u == SubSeq(s, 1, i - 1)
           v == SubSeq(s, i + 1, Len(s))
<1>0. Len(s) \in Nat /\ i \in Nat
  OBVIOUS
<1>1. u \in Seq(S) /\ Len(u) = i - 1
  OBVIOUS
<1>2. \A j \in 1 .. i - 1 : u[j] = s[j]
  OBVIOUS
<1>3. v \in Seq(S) /\ Len(v) = Len(s) - i
  OBVIOUS
<1>4. \A j \in 1 .. Len(s) - i : v[j] = s[i + j]
  OBVIOUS
<1>5. RemoveAt(s, i) = u \o v
  BY DEF RemoveAt
<1> HIDE DEF u, v
<1>6. u \o v \in Seq(S) /\ Len(u \o v) = Len(s) - 1
  <2>1. u \o v \in Seq(S) /\ Len(u \o v) = Len(u) + Len(v)
    BY <1>1, <1>3, ConcatProperties
  <2> QED BY <1>0, <1>1, <1>3, <2>1
<1>7. ASSUME NEW j \in 1 .. Len(s) - 1 PROVE (u \o v)[j] = s[IF j < i THEN j ELSE j + 1]
  <2>1. (u \o v)[j] = IF j <= Len(u) THEN u[j] ELSE v[j - Len(u)]
    BY <1>1, <1>3, ConcatProperties
  <2>2. CASE j < i
    BY <1>1, <1>2, <2>1, <2>2
  <2>3. CASE j >= i
    <3>1. j - (i - 1) \in 1 .. Len(s) - i /\ i + (j - (i - 1)) = j + 1
      BY <2>3
    <3>2. v[j - (i - 1)] = s[j + 1]
      BY <1>4, <3>1
    <3> QED BY <1>1, <2>1, <2>3, <3>2
  <2>4. j < i \/ j >= i
    BY <1>0
  <2> QED BY <2>2, <2>3, <2>4
<1> QED BY <1>5, <1>6, <1>7

NoPersonne == NoClients \cup {Inconnu}

(* Who waits, and for what: the request of a client is at one place, and   *)
(* its answer nowhere yet.                                                 *)
NoTypes ==
  /\ requete \in NoPersonne /\ mqRequetes \in Seq(NoClients) /\ descripteurTube \in Seq(NoClients)
  /\ nopc \in [NoFils -> {"absent", "chercher", "ouvrir", "repondre"}]
  /\ pRequete \in [NoFils -> NoPersonne] /\ contenu \in [NoFils -> NoPersonne]
  /\ mqReponses \in [NoFils -> NoPersonne] /\ nocpc \in [NoClients -> {"debut", "attend", "fini"}]
  /\ reponses \in [NoClients -> Seq(NoPersonne)] /\ obtenu \in [NoClients -> SUBSET NoPersonne]

NoEnCours == {t \in NoFils : nopc[t] # "absent"}

Attendus == {c \in NoClients : nocpc[c] = "attend" /\ reponses[c] = <<>>}

UnSeulEndroit ==
  /\ \A i \in 1 .. Len(mqRequetes) : mqRequetes[i] \in Attendus
  /\ \A i \in 1 .. Len(descripteurTube) : descripteurTube[i] \in Attendus
  /\ \A t \in NoEnCours : pRequete[t] \in Attendus
  /\ \A i, j \in 1 .. Len(mqRequetes) : mqRequetes[i] = mqRequetes[j] => i = j
  /\ \A i, j \in 1 .. Len(descripteurTube) : descripteurTube[i] = descripteurTube[j] => i = j
  /\ \A t, u \in NoEnCours : pRequete[t] = pRequete[u] => t = u
  /\ \A i \in 1 .. Len(mqRequetes) : /\ \A j \in 1 .. Len(descripteurTube) : mqRequetes[i] # descripteurTube[j]
                                     /\ \A t \in NoEnCours : mqRequetes[i] # pRequete[t]
  /\ \A i \in 1 .. Len(descripteurTube) : \A t \in NoEnCours : descripteurTube[i] # pRequete[t]

(* The buffer a thread works with holds its request still, and what it     *)
(* computes is for the client of that request.                             *)
BonTampon ==
  /\ question = "Q1" => \A t, u \in NoEnCours : t = u
  /\ question = "Q1" => \A t \in NoEnCours : requete = pRequete[t]
  /\ \A t \in NoEnCours : /\ nopc[t] \in {"ouvrir", "repondre"} => contenu[t] = pRequete[t]
                          /\ nopc[t] = "repondre" => mqReponses[t] = pRequete[t]
  /\ \A c \in NoClients : /\ reponses[c] = <<>> \/ (reponses[c] = <<c>> /\ nocpc[c] # "debut")
                          /\ obtenu[c] \subseteq {c}

NoSuivi == noVivant /\ NoTypes /\ UnSeulEndroit /\ BonTampon

\* nothing is said of Q1 once a request was received over another one
NoInv ==
  /\ question \in {"Q1", "Q2", "Q3"} /\ recouvert \in BOOLEAN
  /\ question # "Q1" \/ ~recouvert => NoSuivi
LEMMA NoInitialisation == NoInit => NoInv
<1> SUFFICES ASSUME NoInit PROVE NoInv
  OBVIOUS
<1>1. /\ mqRequetes = <<>> /\ descripteurTube = <<>> /\ NoEnCours = {}
      /\ \A c \in NoClients : reponses[c] = <<>> /\ obtenu[c] = {}
  BY DEF NoInit, NoEnCours
<1>2. NoTypes
  BY DEF NoInit, NoTypes, NoPersonne
<1>3. UnSeulEndroit
  BY <1>1 DEF UnSeulEndroit
<1>4. BonTampon
  <2>1. \A c \in NoClients : reponses[c] = <<>> /\ obtenu[c] \subseteq {c}
    BY <1>1
  <2>2. \A t \in NoEnCours : FALSE
    BY <1>1
  <2> QED BY <2>1, <2>2 DEF BonTampon
<1> QED BY <1>2, <1>3, <1>4 DEF NoInit, NoInv, NoSuivi

LEMMA NoPas == NoInv /\ [NoNext]_noVars => NoInv'
<1> SUFFICES ASSUME NoInv, [NoNext]_noVars PROVE NoInv'
  OBVIOUS
<1>1. question' = question /\ NoFils' = NoFils /\ (recouvert => recouvert') /\ recouvert' \in BOOLEAN
  BY DEF NoInv, NoNext, NoTravail, NoDemander, NoLire, NoRecevoir, TraiterRequete, Prendre, Chercher, Ouvrir,
    NoRepondre, noVars, noServeur, noClient, NoFils
<1> SUFFICES ASSUME question # "Q1" \/ ~recouvert', NoSuivi PROVE NoSuivi'
  BY <1>1 DEF NoInv
<1> USE DEF NoSuivi
<1>2. ASSUME NEW c \in NoClients, NoDemander(c) PROVE NoSuivi'
  <2>1. /\ nocpc[c] = "debut" /\ nocpc' = [nocpc EXCEPT ![c] = "attend"]
        /\ mqRequetes' = Append(mqRequetes, c)
        /\ UNCHANGED <<noVivant, requete, descripteurTube, nopc, pRequete, contenu, mqReponses, reponses, obtenu>>
    BY <1>2 DEF NoDemander
  <2>2. NoTypes'
    BY <1>1, <2>1 DEF NoTypes
  <2>3. NoEnCours' = NoEnCours /\ Attendus' = Attendus \cup {c}
    <3>1. reponses[c] = <<>>
      BY <2>1 DEF BonTampon
    <3> QED BY <1>1, <2>1, <3>1 DEF NoEnCours, Attendus, NoTypes
  <2>4. /\ Len(mqRequetes') = Len(mqRequetes) + 1 /\ mqRequetes'[Len(mqRequetes) + 1] = c
        /\ \A i \in 1 .. Len(mqRequetes) : mqRequetes'[i] = mqRequetes[i]
    BY <2>1 DEF NoTypes
  <2>5. /\ \A i \in 1 .. Len(mqRequetes) : mqRequetes[i] # c
        /\ \A i \in 1 .. Len(descripteurTube) : descripteurTube[i] # c
        /\ \A t \in NoEnCours : pRequete[t] # c
    BY <2>1 DEF UnSeulEndroit, Attendus
  <2>6. UnSeulEndroit'
    <3>1. \A i \in 1 .. Len(mqRequetes') : i \in 1 .. Len(mqRequetes) \/ i = Len(mqRequetes) + 1
      BY <2>4 DEF NoTypes
    <3>2. /\ mqRequetes \in Seq(NoClients) /\ descripteurTube \in Seq(NoClients)
          /\ \A i \in 1 .. Len(mqRequetes) : mqRequetes[i] \in NoClients
          /\ \A i \in 1 .. Len(descripteurTube) : descripteurTube[i] \in NoClients
      BY DEF NoTypes
    <3>3. \A i, j \in 1 .. Len(mqRequetes') : mqRequetes'[i] = mqRequetes'[j] => i = j
      BY <2>4, <2>5, <3>1 DEF UnSeulEndroit
    <3>4. \A i \in 1 .. Len(mqRequetes') : mqRequetes'[i] \in Attendus'
      BY <2>3, <2>4, <3>1, <3>2 DEF UnSeulEndroit
    <3>5. /\ \A i \in 1 .. Len(descripteurTube) : descripteurTube[i] \in Attendus'
          /\ \A t \in NoEnCours : pRequete[t] \in Attendus'
      BY <2>3, <3>2 DEF UnSeulEndroit
    <3>6. \A i \in 1 .. Len(mqRequetes') :
            /\ \A j \in 1 .. Len(descripteurTube) : mqRequetes'[i] # descripteurTube[j]
            /\ \A t \in NoEnCours : mqRequetes'[i] # pRequete[t]
      BY <2>4, <2>5, <3>1 DEF UnSeulEndroit
    <3> QED BY <2>1, <2>3, <3>3, <3>4, <3>5, <3>6 DEF UnSeulEndroit
  <2>7. BonTampon'
    BY <1>1, <2>1, <2>3 DEF BonTampon, NoTypes
  <2> QED BY <2>1, <2>2, <2>6, <2>7
<1>3. ASSUME NEW c \in NoClients, NoLire(c) PROVE NoSuivi'
  <2>1. reponses[c] = <<c>>
    BY <1>3 DEF NoLire, BonTampon
  <2>2. /\ obtenu' = [obtenu EXCEPT ![c] = {c}] /\ nocpc' = [nocpc EXCEPT ![c] = "fini"]
        /\ reponses' = [reponses EXCEPT ![c] = <<>>]
        /\ UNCHANGED <<noVivant, requete, mqRequetes, descripteurTube, nopc, pRequete, contenu, mqReponses>>
    BY <1>3, <2>1 DEF NoLire, noServeur
  <2>3. NoTypes'
    BY <1>1, <2>2 DEF NoTypes, NoPersonne
  <2>4. NoEnCours' = NoEnCours /\ Attendus' = Attendus
    <3>1. reponses[c] # <<>>
      BY <1>3 DEF NoLire
    <3>2. \A d \in NoClients : /\ reponses'[d] = IF d = c THEN <<>> ELSE reponses[d]
                               /\ nocpc'[d] = IF d = c THEN "fini" ELSE nocpc[d]
      BY <2>2 DEF NoTypes
    <3> QED BY <1>1, <2>2, <3>1, <3>2 DEF NoEnCours, Attendus
  <2>5. UnSeulEndroit'
    BY <2>2, <2>4 DEF UnSeulEndroit
  <2>6. BonTampon'
    <3>1. \A d \in NoClients : /\ reponses'[d] = IF d = c THEN <<>> ELSE reponses[d]
                               /\ nocpc'[d] = IF d = c THEN "fini" ELSE nocpc[d]
                               /\ obtenu'[d] = IF d = c THEN {c} ELSE obtenu[d]
      BY <2>2 DEF NoTypes
    <3> QED BY <1>1, <2>2, <2>4, <3>1 DEF BonTampon
  <2> QED BY <2>2, <2>3, <2>5, <2>6
<1>4. CASE NoRecevoir
  <2> DEFINE c == Head(mqRequetes)
  <2>1. /\ c \in NoClients /\ c = mqRequetes[1] /\ 1 \in 1 .. Len(mqRequetes)
        /\ mqRequetes' = Tail(mqRequetes) /\ mqRequetes' \in Seq(NoClients)
        /\ UNCHANGED <<noVivant, contenu, mqReponses, nocpc, reponses, obtenu>>
    BY <1>4 DEF NoRecevoir, NoTypes, noClient
  <2>2. \A i \in 1 .. Len(mqRequetes') : i + 1 \in 1 .. Len(mqRequetes) /\ mqRequetes'[i] = mqRequetes[i + 1] /\ i + 1 # 1
    BY <1>4 DEF NoRecevoir, NoTypes
  <2>3. /\ \A i \in 1 .. Len(mqRequetes') : mqRequetes'[i] \in Attendus /\ mqRequetes'[i] # c
        /\ \A i, j \in 1 .. Len(mqRequetes') : mqRequetes'[i] = mqRequetes'[j] => i = j
        /\ \A i \in 1 .. Len(mqRequetes') : /\ \A j \in 1 .. Len(descripteurTube) : mqRequetes'[i] # descripteurTube[j]
                                           /\ \A t \in NoEnCours : mqRequetes'[i] # pRequete[t]
    BY <2>1, <2>2 DEF UnSeulEndroit
  <2>4. /\ c \in Attendus /\ \A j \in 1 .. Len(descripteurTube) : c # descripteurTube[j]
        /\ \A t \in NoEnCours : c # pRequete[t]
    BY <2>1 DEF UnSeulEndroit
  <2> HIDE DEF c
  <2>5. Attendus' = Attendus
    BY <2>1 DEF Attendus
  <2>6. CASE question = "Q1"
    <3>1. /\ nopc' = [nopc EXCEPT ![c] = "chercher"] /\ pRequete' = [pRequete EXCEPT ![c] = c]
          /\ requete' = c /\ UNCHANGED descripteurTube /\ c \in NoFils
          /\ recouvert' = (recouvert \/ \E t \in NoFils : nopc[t] # "absent")
      BY <1>4, <2>1, <2>6 DEF NoRecevoir, Donner, NoFils, c
    <3>2. NoEnCours = {}
      BY <2>6, <3>1 DEF NoEnCours
    <3>3. NoTypes'
      BY <1>1, <2>1, <3>1 DEF NoTypes, NoPersonne
    <3>4. NoEnCours' = {c} /\ nopc'[c] = "chercher" /\ pRequete'[c] = c
      BY <1>1, <3>1, <3>2 DEF NoEnCours, NoTypes
    <3>5. UnSeulEndroit'
      BY <2>3, <2>4, <2>5, <3>1, <3>4 DEF UnSeulEndroit
    <3>6. BonTampon'
      BY <1>1, <2>1, <3>1, <3>4 DEF BonTampon
    <3> QED BY <2>1, <3>3, <3>5, <3>6
  <2>7. CASE question # "Q1"
    <3>1. descripteurTube' = Append(descripteurTube, c) /\ UNCHANGED <<requete, nopc, pRequete>>
      BY <1>4, <2>7 DEF NoRecevoir, c
    <3>2. NoTypes'
      BY <1>1, <2>1, <3>1 DEF NoTypes
    <3>3. NoEnCours' = NoEnCours
      BY <1>1, <3>1 DEF NoEnCours
    <3>4. \A i \in 1 .. Len(descripteurTube') :
            \/ i \in 1 .. Len(descripteurTube) /\ descripteurTube'[i] = descripteurTube[i]
            \/ i = Len(descripteurTube) + 1 /\ descripteurTube'[i] = c
      BY <2>1, <3>1 DEF NoTypes
    <3>5. /\ \A i \in 1 .. Len(descripteurTube') : descripteurTube'[i] \in Attendus
          /\ \A i, j \in 1 .. Len(descripteurTube') : descripteurTube'[i] = descripteurTube'[j] => i = j
          /\ \A i \in 1 .. Len(descripteurTube') : \A t \in NoEnCours : descripteurTube'[i] # pRequete[t]
      BY <2>4, <3>4 DEF UnSeulEndroit
    <3>6. \A i \in 1 .. Len(mqRequetes') : \A j \in 1 .. Len(descripteurTube') : mqRequetes'[i] # descripteurTube'[j]
      BY <2>3, <3>4
    <3>7. UnSeulEndroit'
      BY <2>3, <2>5, <3>1, <3>3, <3>5, <3>6 DEF UnSeulEndroit
    <3>8. BonTampon'
      BY <1>1, <2>1, <2>7, <3>1, <3>3 DEF BonTampon
    <3> QED BY <2>1, <3>2, <3>7, <3>8
  <2> QED BY <2>6, <2>7
<1>5. ASSUME NEW t \in NoFils, Prendre(t) PROVE NoSuivi'
  <2>1. PICK i \in 1 .. Len(descripteurTube) :
          Donner(t, descripteurTube[i]) /\ descripteurTube' = RemoveAt(descripteurTube, i)
    <3>1. DOMAIN descripteurTube = 1 .. Len(descripteurTube)
      BY DEF NoTypes
    <3> QED BY <1>5, <3>1 DEF Prendre
  <2> DEFINE c == descripteurTube[i]
  <2>2. /\ question # "Q1" /\ nopc[t] = "absent" /\ c \in NoClients
        /\ nopc' = [nopc EXCEPT ![t] = "chercher"] /\ pRequete' = [pRequete EXCEPT ![t] = c]
        /\ UNCHANGED <<noVivant, requete, mqRequetes, contenu, mqReponses, nocpc, reponses, obtenu>>
    <3>1. c \in NoClients
      BY DEF NoTypes
    <3> QED BY <1>5, <2>1, <3>1 DEF Prendre, Donner, noClient
  <2>3. /\ descripteurTube' \in Seq(NoClients) /\ Len(descripteurTube') = Len(descripteurTube) - 1
        /\ \A j \in 1 .. Len(descripteurTube) - 1 :
             descripteurTube'[j] = descripteurTube[IF j < i THEN j ELSE j + 1]
    BY <2>1, SansUn DEF NoTypes
  <2>4. ASSUME NEW j \in 1 .. Len(descripteurTube')
        PROVE  \E k \in 1 .. Len(descripteurTube) \ {i} :
                 descripteurTube'[j] = descripteurTube[k] /\ k = IF j < i THEN j ELSE j + 1
    <3>1. Len(descripteurTube) \in Nat
      BY DEF NoTypes
    <3>2. (IF j < i THEN j ELSE j + 1) \in 1 .. Len(descripteurTube) \ {i}
      BY <2>3, <3>1
    <3> QED BY <2>3, <3>2
  <2>5. /\ c \in Attendus /\ \A j \in 1 .. Len(mqRequetes) : mqRequetes[j] # c
        /\ \A u \in NoEnCours : c # pRequete[u]
    BY DEF UnSeulEndroit
  <2>6. \A k \in 1 .. Len(descripteurTube) \ {i} : descripteurTube[k] # c
    BY DEF UnSeulEndroit
  <2>7. /\ \A j \in 1 .. Len(descripteurTube') : descripteurTube'[j] \in Attendus /\ descripteurTube'[j] # c
        /\ \A j \in 1 .. Len(descripteurTube') : \A u \in NoEnCours : descripteurTube'[j] # pRequete[u]
        /\ \A j \in 1 .. Len(descripteurTube') : \A k \in 1 .. Len(mqRequetes) : mqRequetes[k] # descripteurTube'[j]
    BY <2>4, <2>6 DEF UnSeulEndroit
  <2>8. ASSUME NEW j \in 1 .. Len(descripteurTube'), NEW k \in 1 .. Len(descripteurTube'),
               descripteurTube'[j] = descripteurTube'[k]
        PROVE  j = k
    <3>1. (IF j < i THEN j ELSE j + 1) = (IF k < i THEN k ELSE k + 1)
      BY <2>4, <2>8 DEF UnSeulEndroit
    <3> QED BY <3>1
  <2> HIDE DEF c
  <2>9. NoEnCours' = NoEnCours \cup {t} /\ t \notin NoEnCours /\ Attendus' = Attendus
    BY <1>1, <2>2 DEF NoEnCours, Attendus, NoTypes
  <2>10. \A u \in NoFils : /\ pRequete'[u] = IF u = t THEN c ELSE pRequete[u]
                           /\ nopc'[u] = IF u = t THEN "chercher" ELSE nopc[u]
    BY <2>2 DEF NoTypes
  <2>11. NoTypes'
    BY <1>1, <2>2, <2>3 DEF NoTypes, NoPersonne
  <2>12. UnSeulEndroit'
    <3>1. NoEnCours \subseteq NoFils
      BY DEF NoEnCours
    <3>2. /\ \A u \in NoEnCours' : pRequete'[u] \in Attendus
          /\ \A u, w \in NoEnCours' : pRequete'[u] = pRequete'[w] => u = w
      BY <2>5, <2>9, <2>10, <3>1 DEF UnSeulEndroit
    <3>3. /\ \A j \in 1 .. Len(mqRequetes) : \A u \in NoEnCours' : mqRequetes[j] # pRequete'[u]
          /\ \A j \in 1 .. Len(descripteurTube') : \A u \in NoEnCours' : descripteurTube'[j] # pRequete'[u]
      BY <2>5, <2>7, <2>9, <2>10, <3>1 DEF UnSeulEndroit
    <3> QED BY <2>2, <2>7, <2>8, <2>9, <3>2, <3>3 DEF UnSeulEndroit
  <2>13. BonTampon'
    BY <1>1, <2>2, <2>9, <2>10 DEF BonTampon, NoEnCours
  <2> QED BY <2>2, <2>11, <2>12, <2>13
<1>6. ASSUME NEW t \in NoFils, nopc[t] # "absent" PROVE Pointe(t) = pRequete[t] /\ t \in NoEnCours
  BY <1>6 DEF Pointe, NoEnCours, BonTampon
<1>7. ASSUME NEW t \in NoFils, Chercher(t) \/ Ouvrir(t) PROVE NoSuivi'
  <2>1. Pointe(t) = pRequete[t] /\ pRequete[t] \in NoClients /\ nocpc[pRequete[t]] # "fini" /\ t \in NoEnCours
    BY <1>6, <1>7 DEF Chercher, Ouvrir, UnSeulEndroit, Attendus
  <2>2. \/ /\ nopc' = [nopc EXCEPT ![t] = "ouvrir"] /\ contenu' = [contenu EXCEPT ![t] = pRequete[t]]
           /\ UNCHANGED mqReponses
        \/ /\ nopc[t] = "ouvrir" /\ nopc' = [nopc EXCEPT ![t] = "repondre"]
           /\ mqReponses' = [mqReponses EXCEPT ![t] = pRequete[t]] /\ UNCHANGED contenu
    BY <1>7, <2>1 DEF Chercher, Ouvrir
  <2>3. noVivant' /\ UNCHANGED <<requete, mqRequetes, descripteurTube, pRequete, nocpc, reponses, obtenu>>
    BY <1>7, <2>1 DEF Chercher, Ouvrir, noServeur, noClient
  <2>4. NoTypes'
    BY <1>1, <2>1, <2>2, <2>3 DEF NoTypes, NoPersonne
  <2>5. NoEnCours' = NoEnCours /\ Attendus' = Attendus
    BY <1>1, <2>1, <2>2, <2>3 DEF NoEnCours, Attendus, NoTypes
  <2>6. UnSeulEndroit'
    BY <2>3, <2>5 DEF UnSeulEndroit
  <2>7. \A u \in NoEnCours : /\ nopc'[u] \in {"ouvrir", "repondre"} => contenu'[u] = pRequete[u]
                             /\ nopc'[u] = "repondre" => mqReponses'[u] = pRequete[u]
    BY <2>2 DEF BonTampon, NoTypes, NoEnCours
  <2>8. BonTampon'
    <3>1. /\ question = "Q1" => \A u, w \in NoEnCours : u = w
          /\ question = "Q1" => \A u \in NoEnCours : requete = pRequete[u]
          /\ \A c \in NoClients : /\ reponses[c] = <<>> \/ (reponses[c] = <<c>> /\ nocpc[c] # "debut")
                                  /\ obtenu[c] \subseteq {c}
      BY DEF BonTampon
    <3>2. question' = question /\ requete' = requete /\ pRequete' = pRequete /\ reponses' = reponses
          /\ nocpc' = nocpc /\ obtenu' = obtenu /\ NoEnCours' = NoEnCours
      BY <1>1, <2>3, <2>5
    <3> QED BY ONLY <2>7, <3>1, <3>2 DEF BonTampon
  <2> QED BY <2>3, <2>4, <2>6, <2>8
<1>8. ASSUME NEW t \in NoFils, NoRepondre(t) PROVE NoSuivi'
  <2> DEFINE c == pRequete[t]
  <2>1. /\ t \in NoEnCours /\ c \in NoClients /\ reponses[c] = <<>> /\ nocpc[c] = "attend"
        /\ mqReponses[t] = c /\ contenu[t] = c
    BY <1>8 DEF NoRepondre, NoEnCours, UnSeulEndroit, BonTampon, Attendus
  <2> HIDE DEF c
  <2>2. /\ nopc' = [nopc EXCEPT ![t] = "absent"] /\ reponses' = [reponses EXCEPT ![c] = <<c>>]
        /\ UNCHANGED <<noVivant, requete, mqRequetes, descripteurTube, pRequete, contenu, mqReponses, nocpc, obtenu>>
    <3>1. Append(<<>>, c) = <<c>>
      OBVIOUS
    <3> QED BY <1>8, <2>1, <3>1 DEF NoRepondre, noServeur
  <2>3. NoTypes'
    BY <1>1, <2>1, <2>2 DEF NoTypes, NoPersonne
  <2>4. NoEnCours' = NoEnCours \ {t} /\ Attendus' = Attendus \ {c}
    BY <1>1, <2>1, <2>2 DEF NoEnCours, Attendus, NoTypes
  <2>5. /\ \A i \in 1 .. Len(mqRequetes) : mqRequetes[i] # c
        /\ \A i \in 1 .. Len(descripteurTube) : descripteurTube[i] # c
        /\ \A u \in NoEnCours' : pRequete[u] # c
    BY <2>1, <2>4 DEF UnSeulEndroit, c
  <2>6. UnSeulEndroit'
    BY <2>2, <2>4, <2>5 DEF UnSeulEndroit
  <2>7. BonTampon'
    <3>1. \A d \in NoClients : reponses'[d] = IF d = c THEN <<c>> ELSE reponses[d]
      BY <2>2 DEF NoTypes
    <3>2. \A u \in NoEnCours' : u \in NoEnCours /\ nopc'[u] = nopc[u]
      BY <2>2, <2>4 DEF NoEnCours, NoTypes
    <3> QED BY <1>1, <2>1, <2>2, <3>1, <3>2 DEF BonTampon
  <2> QED BY <2>2, <2>3, <2>6, <2>7
<1>9. CASE UNCHANGED noVars
  BY <1>1, <1>9 DEF noVars, noServeur, noClient, NoTypes, UnSeulEndroit, BonTampon, NoEnCours, Attendus
<1> QED BY <1>2, <1>3, <1>4, <1>5, <1>7, <1>8, <1>9 DEF NoNext, NoTravail, TraiterRequete

(* With a buffer of its own, every request is answered to whoever sent it, *)
(* and the server lives; in Q1 this lasts until two requests meet.         *)
THEOREM ChacunSaReponse == NoSpec => []BonneReponse
<1>1. NoInv => BonneReponse
  BY DEF NoInv, NoSuivi, BonTampon, BonneReponse
<1> QED BY <1>1, NoInitialisation, NoPas, PTL DEF NoSpec

-----------------------------------------------------------------------------
(* The web server. *)

WbComptes == {c \in WbClients : wbpc[c] = "relire" \/ numero[c] # 0}

WbTypes ==
  /\ wbpc \in [WbClients -> {"dehors", "lire", "entete", "manque", "traiter", "charger", "ranger",
                             "relire", "fermer", "fini"}]
  /\ compteurReponse \in Nat /\ charge \in [WbClients -> Nat] /\ numero \in [WbClients -> Nat]
  /\ croise \in BOOLEAN

(* As long as one thread at a time counts: it stores one more than what it *)
(* read, and its number is greater than those that were given.             *)
UnALaFois ==
  /\ \A b, c \in WbClients : wbpc[b] \in {"ranger", "relire"} /\ wbpc[c] \in {"ranger", "relire"} => b = c
  /\ \A c \in WbClients :
       /\ wbpc[c] = "ranger" => charge[c] = compteurReponse
       /\ numero[c] # 0 => wbpc[c] \in {"fermer", "fini"}
       /\ numero[c] <= compteurReponse
       /\ \A b \in WbClients : wbpc[b] = "relire" => numero[c] < compteurReponse
  /\ \A b, c \in WbClients : numero[b] = numero[c] /\ numero[b] # 0 => b = c
  /\ IsFiniteSet(WbComptes) /\ compteurReponse = Cardinality(WbComptes)

WbInv == WbTypes /\ (~croise => UnALaFois)

LEMMA WbInitialisation == WbInit => WbInv
<1> SUFFICES ASSUME WbInit PROVE WbInv
  OBVIOUS
<1>1. WbTypes
  BY DEF WbInit, WbTypes
<1>2. WbComptes = {}
  BY DEF WbInit, WbComptes
<1>3. IsFiniteSet(WbComptes) /\ Cardinality(WbComptes) = 0
  BY <1>2, FS_EmptySet
<1>4. UnALaFois
  BY <1>3 DEF WbInit, UnALaFois
<1> QED BY <1>1, <1>4 DEF WbInv

(* The steps of the server that have nothing to do with the counter.       *)
LEMMA WbAilleurs ==
  ASSUME WbInv, NEW c \in WbClients, UNCHANGED compteur, wbpc[c] \notin {"ranger", "relire"},
         NEW p \in {"lire", "entete", "manque", "traiter", "charger", "fini"},
         wbpc' = [wbpc EXCEPT ![c] = p], numero[c] # 0 => p = "fini"
  PROVE  WbInv'
<1> SUFFICES ASSUME ~croise' PROVE WbTypes' /\ UnALaFois'
  BY DEF WbInv, WbTypes, compteur
<1>1. UNCHANGED <<compteurReponse, charge, numero, croise>>
  BY DEF compteur
<1>2. \A b \in WbClients : wbpc'[b] = IF b = c THEN p ELSE wbpc[b]
  BY DEF WbInv, WbTypes
<1>3. WbComptes' = WbComptes
  BY <1>1, <1>2 DEF WbComptes
<1>4. WbTypes'
  BY <1>1 DEF WbInv, WbTypes
<1> QED BY <1>1, <1>2, <1>3, <1>4 DEF WbInv, UnALaFois

LEMMA WbPas == WbInv /\ [WbNext]_wbVars => WbInv'
<1> SUFFICES ASSUME WbInv, [WbNext]_wbVars PROVE WbInv'
  OBVIOUS
<1>0. CASE UNCHANGED <<wbpc, compteur>>
  BY <1>0 DEF compteur, WbInv, WbTypes, UnALaFois, WbComptes
<1> SUFFICES ASSUME NEW c \in WbClients,
                    WbConnecter(c) \/ WbEnvoyer(c) \/ WbPartir(c) \/ HandleConnection(c) PROVE WbInv'
  BY <1>0 DEF WbNext, wbVars
<1>1. CASE WbEnvoyer(c) \/ WbPartir(c)
  BY <1>0, <1>1 DEF WbEnvoyer, WbPartir
<1>2. CASE WbConnecter(c) \/ LireRequete(c) \/ LireEntete(c) \/ Traiter(c)
  <2>1. /\ wbpc[c] \in {"dehors", "lire", "entete", "manque", "traiter"} /\ UNCHANGED compteur
        /\ \/ UNCHANGED wbpc
           \/ \E p \in {"lire", "entete", "manque", "traiter", "charger", "fini"} : wbpc' = [wbpc EXCEPT ![c] = p]
    BY <1>2 DEF WbConnecter, LireRequete, LireEntete, Traiter, Ecrivant, Passe
  <2>2. ~croise => numero[c] = 0
    BY <2>1 DEF WbInv, UnALaFois
  <2>3. CASE croise
    BY <2>1, <2>3 DEF WbInv, WbTypes, compteur
  <2> QED BY <1>0, <2>1, <2>2, <2>3, WbAilleurs
<1>3. CASE WbFermer(c)
  <2>1. wbpc[c] = "fermer" /\ UNCHANGED compteur /\ (UNCHANGED wbpc \/ wbpc' = [wbpc EXCEPT ![c] = "fini"])
    BY <1>3 DEF WbFermer, Ecrivant, Passe
  <2> QED BY <1>0, <2>1, WbAilleurs
<1>4. CASE Charger(c)
  <2>1. /\ wbpc[c] = "charger" /\ wbpc' = [wbpc EXCEPT ![c] = "ranger"]
        /\ charge' = [charge EXCEPT ![c] = compteurReponse] /\ UNCHANGED <<compteurReponse, numero>>
        /\ croise' = (croise \/ \E b \in WbClients : wbpc[b] \in {"ranger", "relire"})
    BY <1>4 DEF Charger, Passe
  <2>2. WbTypes'
    BY <2>1 DEF WbInv, WbTypes
  <2>3. ASSUME ~croise' PROVE UnALaFois'
    <3>1. UnALaFois /\ \A b \in WbClients : wbpc[b] \notin {"ranger", "relire"}
      BY <2>1, <2>3 DEF WbInv
    <3>2. \A b \in WbClients : /\ wbpc'[b] = IF b = c THEN "ranger" ELSE wbpc[b]
                               /\ charge'[b] = IF b = c THEN compteurReponse ELSE charge[b]
      BY <2>1 DEF WbInv, WbTypes
    <3>3. WbComptes' = WbComptes
      BY <2>1, <3>2 DEF WbComptes
    <3>4. numero[c] = 0
      BY <2>1, <3>1 DEF UnALaFois
    <3> QED BY <2>1, <3>1, <3>2, <3>3, <3>4 DEF UnALaFois
  <2> QED BY <2>2, <2>3 DEF WbInv
<1>5. CASE Ranger(c)
  <2>1. /\ wbpc[c] = "ranger" /\ wbpc' = [wbpc EXCEPT ![c] = "relire"]
        /\ compteurReponse' = charge[c] + 1 /\ UNCHANGED <<charge, numero, croise>>
    BY <1>5 DEF Ranger, Passe
  <2>2. WbTypes'
    BY <2>1 DEF WbInv, WbTypes
  <2>3. ASSUME ~croise PROVE UnALaFois'
    <3>1. UnALaFois /\ charge[c] = compteurReponse /\ numero[c] = 0 /\ compteurReponse \in Nat
      BY <2>1, <2>3 DEF WbInv, WbTypes, UnALaFois
    <3>2. \A b \in WbClients : wbpc'[b] = IF b = c THEN "relire" ELSE wbpc[b]
      BY <2>1 DEF WbInv, WbTypes
    <3>3. WbComptes' = WbComptes \cup {c} /\ c \notin WbComptes
      BY <2>1, <3>1, <3>2 DEF WbComptes
    <3>4. IsFiniteSet(WbComptes) /\ compteurReponse = Cardinality(WbComptes)
      BY <3>1 DEF UnALaFois
    <3>5. IsFiniteSet(WbComptes') /\ Cardinality(WbComptes') = Cardinality(WbComptes) + 1
      BY <3>3, <3>4, FS_AddElement
    <3>6. compteurReponse' = Cardinality(WbComptes')
      BY <2>1, <3>1, <3>4, <3>5
    <3>7. \A b \in WbClients : numero[b] \in Nat /\ numero[b] <= compteurReponse /\ numero[b] < compteurReponse'
      BY <2>1, <3>1 DEF WbInv, WbTypes, UnALaFois
    <3> QED BY <2>1, <3>1, <3>2, <3>5, <3>6, <3>7 DEF UnALaFois
  <2> QED BY <2>1, <2>2, <2>3 DEF WbInv
<1>6. CASE Relire(c)
  <2>1. /\ wbpc[c] = "relire" /\ wbpc' = [wbpc EXCEPT ![c] = "fermer"]
        /\ numero' = [numero EXCEPT ![c] = compteurReponse] /\ charge' = [charge EXCEPT ![c] = 0]
        /\ UNCHANGED <<compteurReponse, croise>>
    BY <1>6 DEF Relire, Passe
  <2>2. WbTypes'
    BY <2>1 DEF WbInv, WbTypes
  <2>3. ASSUME ~croise PROVE UnALaFois'
    <3>1. UnALaFois /\ \A b \in WbClients : numero[b] \in Nat /\ numero[b] < compteurReponse
      BY <2>1, <2>3 DEF WbInv, WbTypes, UnALaFois
    <3>2. \A b \in WbClients : /\ wbpc'[b] = IF b = c THEN "fermer" ELSE wbpc[b]
                               /\ numero'[b] = IF b = c THEN compteurReponse ELSE numero[b]
                               /\ b # c => charge'[b] = charge[b]
      BY <2>1 DEF WbInv, WbTypes
    <3>3. compteurReponse # 0 /\ compteurReponse \in Nat
      BY <3>1 DEF WbInv, WbTypes
    <3>4. WbComptes' = WbComptes
      BY <2>1, <3>2, <3>3 DEF WbComptes
    <3>5. /\ \A b \in WbClients : wbpc'[b] \notin {"ranger", "relire"}
          /\ \A b \in WbClients : numero'[b] # 0 => wbpc'[b] \in {"fermer", "fini"}
      BY <2>1, <3>1, <3>2 DEF UnALaFois
    <3>6. \A b, d \in WbClients : numero'[b] = numero'[d] /\ numero'[b] # 0 => b = d
      BY <3>1, <3>2, <3>3 DEF UnALaFois
    <3>7. \A b \in WbClients : numero'[b] <= compteurReponse
      BY <3>1, <3>2, <3>3
    <3> QED BY <2>1, <3>1, <3>4, <3>5, <3>6, <3>7 DEF UnALaFois
  <2> QED BY <2>1, <2>2, <2>3 DEF WbInv
<1> QED BY <1>1, <1>2, <1>3, <1>4, <1>5, <1>6 DEF HandleConnection

(* The counter counts, and no number is given twice, until two threads are *)
(* in gestion_compteurReponse at once.                                     *)
THEOREM NumerosDifferents == WbSpec => []NumerosJustes
<1>1. WbInv => NumerosJustes
  BY DEF WbInv, UnALaFois, WbComptes, NumerosJustes
<1> QED BY <1>1, WbInitialisation, WbPas, PTL DEF WbSpec

-----------------------------------------------------------------------------
(* The print spoolers. *)

SpNoms == (SpClients \X Nat) \cup {Vierge}
CasesAnneau == 0 .. CASEMAX - 1

SpTypes ==
  /\ spool \in {"memoire", "threads"} /\ spCourse \in BOOLEAN
  /\ tab \in [CasesAnneau -> SpNoms] /\ debutlect \in CasesAnneau /\ finecrit \in CasesAnneau
  /\ place_libre \in Nat /\ info_occupe \in Nat
  /\ sppc \in [Deposants -> IF spool = "memoire"
                            THEN {"dehors", "debut", "saisir", "copier", "avancer", "poster", "tue", "fini"}
                            ELSE {"dehors", "debut", "copier", "fini"}]
  /\ impc \in [Imprimeurs -> IF spool = "memoire" THEN {"repos", "imprimer"} ELSE {"repos", "veiller", "imprimer"}]
  /\ spFin \in [Deposants -> CasesAnneau] /\ nomme \in [Deposants -> Nat]
  /\ deposes \in Seq(SpNoms) /\ lances \in Seq(SpNoms)

(* Every place is somewhere. *)
ToutesLesPlaces ==
  /\ IsFiniteSet(Detenteurs)
  /\ place_libre + info_occupe + ImprimeEnPlace + Cardinality(Detenteurs) = CASEMAX

EnPoste == IF \E c \in Deposants : sppc[c] = "poster" THEN 1 ELSE 0

(* Without a race the indices are the lengths of the two logs, modulo the  *)
(* ring: from what was begun to what was handed over, the slots hold the   *)
(* names that wait; the slot that is being written lies behind.            *)
BonAnneau ==
  /\ \A c, d \in Ecrivains : c = d
  /\ Len(lances) + info_occupe = Len(deposes) /\ ImprimeEnPlace <= Len(lances)
  /\ debutlect = (Len(lances) - ImprimeEnPlace) % CASEMAX
  /\ finecrit = (Len(deposes) + EnPoste) % CASEMAX
  /\ \A k \in 1 .. Len(lances) : lances[k] = deposes[k]
  /\ \A k \in Len(lances) + 1 .. Len(deposes) : tab[(k - 1) % CASEMAX] = deposes[k]
  /\ \A c \in Deposants : /\ sppc[c] = "avancer" => spFin[c] = finecrit
                          /\ sppc[c] \in {"avancer", "poster"} => tab[Len(deposes) % CASEMAX] = <<c, nomme[c]>>

SpInv == SpTypes /\ ToutesLesPlaces /\ (~spCourse => BonAnneau)

-----------------------------------------------------------------------------
LEMMA SpBornes ==
  /\ CASEMAX \in Nat \ {0} /\ 0 \in CasesAnneau /\ CasesAnneau = 0 .. CASEMAX - 1
  /\ Principal \in SpClients /\ Serveur \in Imprimantes
BY SpoolAssumption DEF CasesAnneau

LEMMA AutreCase == ASSUME NEW f \in CasesAnneau PROVE (f + 1) % CASEMAX \in CasesAnneau
BY SpBornes, DivModulo

LEMMA SpTypesPas == SpTypes /\ [SpNext]_spVars => SpTypes' /\ Deposants' = Deposants /\ Imprimeurs' = Imprimeurs
<1> SUFFICES ASSUME SpTypes, [SpNext]_spVars
    PROVE SpTypes' /\ Deposants' = Deposants /\ Imprimeurs' = Imprimeurs
  OBVIOUS
<1> USE SpBornes
<1>1. spool' = spool /\ Deposants' = Deposants /\ Imprimeurs' = Imprimeurs
  BY DEF SpNext, SpTravail, SpDemarrer, PrendrePlace, Nommer, Quitter, Tuer, Copier, Avancer, Poster,
    DeposerSousVerrou, ImprimerEnPlace, Veiller, PrendreSousVerrou, Rendre, spVars, Deposants, Imprimeurs
<1>2. Deposants \subseteq SpClients
  BY DEF Deposants
<1>3. ASSUME NEW c \in Deposants, SpDemarrer(c) \/ PrendrePlace(c) \/ Nommer(c) \/ Quitter(c) \/ Tuer(c) PROVE SpTypes'
  <2>1. place_libre' \in Nat
    <3>1. CASE SpDemarrer(c) \/ Nommer(c) \/ Tuer(c)
      BY <3>1 DEF SpDemarrer, Nommer, Tuer, anneau, SpTypes
    <3>2. CASE PrendrePlace(c)
      BY <3>2 DEF PrendrePlace, SpTypes
    <3>3. CASE Quitter(c)
      BY <3>3 DEF Quitter, SpTypes
    <3> QED BY <1>3, <3>1, <3>2, <3>3
  <2>5. spCourse' \in BOOLEAN
    <3>1. CASE SpDemarrer(c) \/ PrendrePlace(c) \/ Quitter(c)
      BY <3>1 DEF SpDemarrer, PrendrePlace, Quitter, SpTypes
    <3>2. CASE Nommer(c) \/ Tuer(c)
      <4>1. spCourse' = (spCourse \/ Ecrivains # {}) \/ spCourse' = (spCourse \/ sppc[c] = "poster")
        BY <3>2 DEF Nommer, Tuer
      <4> QED BY <4>1
    <3> QED BY <1>3, <3>1, <3>2
  <2>2. \E p \in IF spool = "memoire" THEN {"debut", "saisir", "copier", "tue", "fini"} ELSE {"debut", "copier", "fini"} :
          sppc' = [sppc EXCEPT ![c] = p]
    BY <1>3 DEF SpDemarrer, PrendrePlace, Nommer, Quitter, Tuer, SpTypes
  <2>3. nomme' \in [Deposants -> Nat]
    BY <1>3 DEF SpDemarrer, PrendrePlace, Nommer, Quitter, Tuer, SpTypes
  <2>4. UNCHANGED <<tab, debutlect, finecrit, info_occupe, spFin, impc, deposes, lances>>
    BY <1>3 DEF SpDemarrer, PrendrePlace, Nommer, Quitter, Tuer, anneau
  <2> QED BY <1>1, <2>1, <2>2, <2>3, <2>4, <2>5 DEF SpTypes
<1>4. ASSUME NEW c \in Deposants, Copier(c) \/ Avancer(c) \/ Poster(c) \/ DeposerSousVerrou(c) PROVE SpTypes'
  <2>1. <<c, nomme[c]>> \in SpNoms /\ nomme[c] \in Nat
    BY <1>2 DEF SpTypes, SpNoms
  <2>2. tab' \in [CasesAnneau -> SpNoms]
    BY <1>4, <2>1 DEF Copier, Avancer, Poster, DeposerSousVerrou, SpTypes
  <2>7. deposes' \in Seq(SpNoms)
    <3>1. Append(deposes, <<c, nomme[c]>>) \in Seq(SpNoms) /\ deposes \in Seq(SpNoms)
      BY <2>1 DEF SpTypes
    <3>2. deposes' \in {deposes, Append(deposes, <<c, nomme[c]>>)}
      BY <1>4 DEF Copier, Avancer, Poster, DeposerSousVerrou
    <3> QED BY <3>1, <3>2
  <2>3. spFin' \in [Deposants -> CasesAnneau]
    BY <1>4 DEF Copier, Avancer, Poster, DeposerSousVerrou, SpTypes
  <2>8. finecrit' \in CasesAnneau
    <3>1. \A f \in CasesAnneau : (f + 1) % CASEMAX \in CasesAnneau
      BY AutreCase
    <3>2. spFin[c] \in CasesAnneau /\ finecrit \in CasesAnneau
      BY DEF SpTypes
    <3>3. finecrit' = finecrit \/ \E f \in {spFin[c], finecrit} : finecrit' = (f + 1) % CASEMAX
      BY <1>4 DEF Copier, Avancer, Poster, DeposerSousVerrou
    <3> QED BY ONLY <3>1, <3>2, <3>3
  <2>4. \E p \in IF spool = "memoire" THEN {"debut", "avancer", "poster"} ELSE {"debut"} : sppc' = [sppc EXCEPT ![c] = p]
    BY <1>4 DEF Copier, Avancer, Poster, DeposerSousVerrou, SpTypes
  <2>5. place_libre' \in Nat /\ info_occupe' \in Nat
    BY <1>4 DEF Copier, Avancer, Poster, DeposerSousVerrou, SpTypes
  <2>6. UNCHANGED <<debutlect, impc, lances, nomme, spCourse>>
    BY <1>4 DEF Copier, Avancer, Poster, DeposerSousVerrou
  <2> QED BY <1>1, <2>2, <2>3, <2>4, <2>5, <2>6, <2>7, <2>8 DEF SpTypes
<1>5. ASSUME NEW p \in Imprimeurs, ImprimerEnPlace(p) \/ Veiller(p) \/ PrendreSousVerrou(p) \/ Rendre(p) PROVE SpTypes'
  <2>1. Append(lances, tab[debutlect]) \in Seq(SpNoms)
    BY DEF SpTypes
  <2>2. lances' \in Seq(SpNoms) /\ debutlect' \in CasesAnneau
    BY <1>5, <2>1, AutreCase DEF ImprimerEnPlace, Veiller, PrendreSousVerrou, Rendre, anneau, SpTypes
  <2>3. place_libre' \in Nat /\ info_occupe' \in Nat
    BY <1>5 DEF ImprimerEnPlace, Veiller, PrendreSousVerrou, Rendre, anneau, SpTypes
  <2>4. \E e \in IF spool = "memoire" THEN {"repos", "imprimer"} ELSE {"repos", "veiller", "imprimer"} :
          impc' = [impc EXCEPT ![p] = e]
    BY <1>5 DEF ImprimerEnPlace, Veiller, PrendreSousVerrou, Rendre, SpTypes
  <2>5. UNCHANGED <<tab, finecrit, sppc, spFin, deposes, nomme, spCourse>>
    BY <1>5 DEF ImprimerEnPlace, Veiller, PrendreSousVerrou, Rendre, anneau
  <2> QED BY <1>1, <2>2, <2>3, <2>4, <2>5 DEF SpTypes
<1>6. CASE UNCHANGED spVars
  BY <1>1, <1>6 DEF spVars, anneau, SpTypes
<1> QED BY <1>1, <1>3, <1>4, <1>5, <1>6 DEF SpNext, SpTravail

LEMMA PlacesPas == SpTypes /\ ToutesLesPlaces /\ [SpNext]_spVars => ToutesLesPlaces'
<1> SUFFICES ASSUME SpTypes, ToutesLesPlaces, [SpNext]_spVars PROVE ToutesLesPlaces'
  OBVIOUS
<1>1. spool' = spool /\ Deposants' = Deposants /\ Imprimeurs' = Imprimeurs /\ SpTypes'
  BY SpTypesPas DEF SpNext, SpTravail, SpDemarrer, PrendrePlace, Nommer, Quitter, Tuer, Copier, Avancer, Poster,
    DeposerSousVerrou, ImprimerEnPlace, Veiller, PrendreSousVerrou, Rendre, spVars
<1> DEFINE D == Detenteurs
<1>2. IsFiniteSet(D) /\ Cardinality(D) \in Nat /\ place_libre \in Nat /\ info_occupe \in Nat /\ ImprimeEnPlace \in {0, 1}
      /\ CASEMAX \in Nat /\ place_libre + info_occupe + ImprimeEnPlace + Cardinality(D) = CASEMAX
  BY FS_CardinalityType, SpBornes DEF ToutesLesPlaces, SpTypes, ImprimeEnPlace
\* who holds a place keeps it
<1>3. ASSUME D' = D, place_libre' + info_occupe' + ImprimeEnPlace' = place_libre + info_occupe + ImprimeEnPlace
      PROVE  ToutesLesPlaces'
  BY <1>2, <1>3 DEF ToutesLesPlaces
<1>4. ASSUME NEW c \in Deposants, SpDemarrer(c) \/ Nommer(c) \/ Tuer(c) \/ Copier(c) \/ Avancer(c) PROVE ToutesLesPlaces'
  <2>1. D' = D
    <3>1. CASE spool = "threads"
      BY <1>1, <3>1 DEF Detenteurs
    <3>2. CASE spool = "memoire"
      <4> DEFINE pris == {"saisir", "copier", "avancer", "poster", "tue"}
      <4>1. D = {d \in Deposants : sppc[d] \in pris} /\ D' = {d \in Deposants : sppc'[d] \in pris}
        BY <1>1, <3>2 DEF Detenteurs
      <4>2. sppc[c] \in pris <=> sppc'[c] \in pris
        BY <1>4, <3>2 DEF SpDemarrer, Nommer, Tuer, Copier, Avancer, SpTypes
      <4>3. \A d \in Deposants \ {c} : sppc'[d] = sppc[d]
        BY <1>4 DEF SpDemarrer, Nommer, Tuer, Copier, Avancer, SpTypes
      <4> QED BY <4>1, <4>2, <4>3
    <3> QED BY <3>1, <3>2 DEF SpTypes
  <2>2. UNCHANGED <<place_libre, info_occupe, impc>>
    BY <1>4 DEF SpDemarrer, Nommer, Tuer, Copier, Avancer, anneau
  <2> QED BY <1>1, <1>3, <2>1, <2>2 DEF ImprimeEnPlace
<1>5. ASSUME NEW c \in Deposants, PrendrePlace(c) PROVE ToutesLesPlaces'
  <2>1. D' = D \cup {c} /\ c \notin D
    BY <1>1, <1>5 DEF PrendrePlace, Detenteurs, SpTypes
  <2>2. IsFiniteSet(D') /\ Cardinality(D') = Cardinality(D) + 1
    BY <1>2, <2>1, FS_AddElement
  <2>3. ImprimeEnPlace' = ImprimeEnPlace /\ place_libre' = place_libre - 1 /\ info_occupe' = info_occupe
    BY <1>1, <1>5 DEF PrendrePlace, ImprimeEnPlace
  <2> QED BY <1>2, <2>2, <2>3 DEF ToutesLesPlaces
<1>6. ASSUME NEW c \in Deposants, Quitter(c) \/ Poster(c) \/ DeposerSousVerrou(c) PROVE ToutesLesPlaces'
  <2>1. ImprimeEnPlace' = ImprimeEnPlace
    BY <1>1, <1>6 DEF Quitter, Poster, DeposerSousVerrou, ImprimeEnPlace
  <2>2. CASE spool = "memoire"
    <3>1. D' = D \ {c} /\ c \in D
      BY <1>1, <1>6, <2>2 DEF Quitter, Poster, DeposerSousVerrou, Detenteurs, SpTypes
    <3>2. IsFiniteSet(D') /\ Cardinality(D') = Cardinality(D) - 1
      BY <1>2, <3>1, FS_RemoveElement
    <3>3. \/ place_libre' = place_libre + 1 /\ info_occupe' = info_occupe
          \/ place_libre' = place_libre /\ info_occupe' = info_occupe + 1
      BY <1>6, <2>2 DEF Quitter, Poster, DeposerSousVerrou
    <3>4. place_libre' + info_occupe' + ImprimeEnPlace' + Cardinality(D') = CASEMAX
      BY <1>2, <2>1, <3>2, <3>3
    <3> QED BY <1>1, <3>2, <3>4 DEF ToutesLesPlaces
  <2>3. CASE spool = "threads"
    <3>1. D' = D
      BY <1>1, <2>3 DEF Detenteurs
    <3>4. ~Poster(c)
      BY <2>3 DEF Poster, SpTypes
    <3>2. place_libre' + info_occupe' = place_libre + info_occupe
      BY <1>2, <1>6, <2>3, <3>4 DEF Quitter, DeposerSousVerrou
    <3> QED BY <1>1, <1>2, <1>3, <2>1, <3>1, <3>2 DEF SpTypes
  <2> QED BY <2>2, <2>3 DEF SpTypes
<1>7. ASSUME NEW p \in Imprimeurs, ImprimerEnPlace(p) PROVE ToutesLesPlaces'
  <2>1. p = Serveur /\ spool = "memoire" /\ D' = D
    BY <1>1, <1>7 DEF ImprimerEnPlace, Imprimeurs, Detenteurs
  <2>2. CASE impc[p] = "repos"
    <3>1. ImprimeEnPlace = 0 /\ ImprimeEnPlace' = 1
      BY <1>1, <1>7, <2>1, <2>2 DEF ImprimerEnPlace, ImprimeEnPlace, SpTypes
    <3>2. info_occupe' = info_occupe - 1 /\ place_libre' = place_libre
      BY <1>7, <2>2 DEF ImprimerEnPlace
    <3> QED BY <1>2, <1>3, <2>1, <3>1, <3>2
  <2>3. CASE impc[p] = "imprimer"
    <3>1. ImprimeEnPlace = 1 /\ ImprimeEnPlace' = 0
      BY <1>1, <1>7, <2>1, <2>3 DEF ImprimerEnPlace, ImprimeEnPlace, SpTypes
    <3>2. info_occupe' = info_occupe /\ place_libre' = place_libre + 1
      BY <1>7, <2>3 DEF ImprimerEnPlace
    <3> QED BY <1>2, <1>3, <2>1, <3>1, <3>2
  <2> QED BY <1>7, <2>2, <2>3 DEF ImprimerEnPlace
<1>8. ASSUME NEW p \in Imprimeurs, Veiller(p) \/ PrendreSousVerrou(p) \/ Rendre(p) PROVE ToutesLesPlaces'
  <2>1. spool = "threads"
    BY <1>8 DEF Veiller, PrendreSousVerrou, Rendre, SpTypes
  <2>2. D' = D /\ ImprimeEnPlace' = ImprimeEnPlace
    BY <1>1, <2>1 DEF Detenteurs, ImprimeEnPlace
  <2>3. place_libre' + info_occupe' = place_libre + info_occupe
    BY <1>2, <1>8 DEF Veiller, PrendreSousVerrou, Rendre, anneau
  <2> QED BY <1>1, <1>2, <1>3, <2>2, <2>3 DEF SpTypes
<1>9. CASE UNCHANGED spVars
  <2>1. D' = D
    BY <1>1, <1>9 DEF spVars, Detenteurs
  <2> QED BY <1>1, <1>3, <1>9, <2>1 DEF spVars, anneau, ImprimeEnPlace
<1> QED BY <1>4, <1>5, <1>6, <1>7, <1>8, <1>9 DEF SpNext, SpTravail

-----------------------------------------------------------------------------
(* A step that touches neither the ring nor the logs, and lets nobody into *)
(* the last two places of a client's section.                              *)
LEMMA RienAuTour ==
  ASSUME SpTypes, SpTypes', BonAnneau, Deposants' = Deposants, ImprimeEnPlace' = ImprimeEnPlace,
         UNCHANGED <<tab, debutlect, finecrit, info_occupe, spFin, deposes, lances>>,
         \A c, d \in Ecrivains' : c = d,
         \A c \in Deposants : sppc'[c] = "poster" <=> sppc[c] = "poster",
         \A c \in Deposants : sppc'[c] = "avancer" => sppc[c] = "avancer",
         \A c \in Deposants : sppc'[c] \in {"avancer", "poster"} => nomme'[c] = nomme[c]
  PROVE  BonAnneau'
<1>1. EnPoste' = EnPoste
  BY DEF EnPoste
<1>2. \A c \in Deposants : /\ sppc'[c] = "avancer" => spFin'[c] = finecrit'
                           /\ sppc'[c] \in {"avancer", "poster"} => tab'[Len(deposes') % CASEMAX] = <<c, nomme'[c]>>
  BY DEF BonAnneau
<1> QED BY <1>1, <1>2 DEF BonAnneau

(* In the ring: a name is put behind those that wait. *)
LEMMA Derriere ==
  ASSUME SpTypes, BonAnneau, info_occupe < CASEMAX, NEW n,
         tab' = [tab EXCEPT ![Len(deposes) % CASEMAX] = n]
  PROVE  /\ Len(deposes) % CASEMAX \in CasesAnneau /\ tab'[Len(deposes) % CASEMAX] = n
         /\ \A k \in Len(lances) + 1 .. Len(deposes) : tab'[(k - 1) % CASEMAX] = deposes[k]
<1>1. Len(lances) \in Nat /\ Len(deposes) \in Nat /\ info_occupe \in Nat /\ Len(lances) + info_occupe = Len(deposes)
  BY LenProperties DEF SpTypes, BonAnneau
<1>2. Len(deposes) % CASEMAX \in CasesAnneau
  BY <1>1, SpBornes, DivModulo
<1>3. ASSUME NEW k \in Len(lances) + 1 .. Len(deposes) PROVE tab'[(k - 1) % CASEMAX] = deposes[k]
  <2>1. k - 1 \in Nat /\ k - 1 < Len(deposes) /\ Len(deposes) - (k - 1) < CASEMAX
    BY <1>1, SpBornes
  <2>2. (k - 1) % CASEMAX # Len(deposes) % CASEMAX /\ (k - 1) % CASEMAX \in CasesAnneau
    BY <2>1, <1>1, SpBornes, RingDistinct, DivModulo
  <2>3. tab'[(k - 1) % CASEMAX] = tab[(k - 1) % CASEMAX]
    BY <2>2 DEF SpTypes
  <2> QED BY <2>3 DEF BonAnneau
<1> QED BY <1>2, <1>3 DEF SpTypes

(* Who is between taking a name and handing it over has a place to write. *)
LEMMA UnePlace ==
  ASSUME SpTypes, ToutesLesPlaces, NEW c \in Detenteurs
  PROVE  info_occupe < CASEMAX
<1>1. Cardinality(Detenteurs) \in Nat /\ Cardinality(Detenteurs) # 0
  BY FS_CardinalityType, FS_EmptySet DEF ToutesLesPlaces
<1>2. place_libre \in Nat /\ info_occupe \in Nat /\ ImprimeEnPlace \in {0, 1}
  BY DEF SpTypes, ImprimeEnPlace
<1>3. place_libre + info_occupe + ImprimeEnPlace + Cardinality(Detenteurs) = CASEMAX
  BY DEF ToutesLesPlaces
<1> QED BY <1>1, <1>2, <1>3

(* The places of the ring, and those of a client's section. *)
LEMMA SpFaits ==
  ASSUME SpTypes, BonAnneau
  PROVE  /\ Len(lances) \in Nat /\ Len(deposes) \in Nat /\ info_occupe \in Nat /\ ImprimeEnPlace \in {0, 1}
         /\ Len(lances) <= Len(deposes)
         /\ \A c \in Deposants : sppc[c] \in {"copier", "avancer"} => EnPoste = 0
         /\ \A c \in Deposants : sppc[c] = "poster" => EnPoste = 1
         /\ \A c \in Ecrivains : \A d \in Deposants \ {c} : sppc[d] \notin {"copier", "avancer", "poster"}
         /\ spool = "threads" => EnPoste = 0 /\ ImprimeEnPlace = 0
<1>1. Len(lances) \in Nat /\ Len(deposes) \in Nat /\ info_occupe \in Nat
  BY LenProperties DEF SpTypes
<1>2. \A c \in Ecrivains : \A d \in Deposants \ {c} : sppc[d] \notin {"copier", "avancer", "poster"}
  BY DEF BonAnneau, Ecrivains
<1>3. \A c \in Deposants : sppc[c] \in {"copier", "avancer"} => EnPoste = 0
  BY <1>2 DEF Ecrivains, EnPoste
<1>4. Len(lances) <= Len(deposes)
  BY <1>1 DEF BonAnneau
<1> QED BY <1>1, <1>2, <1>3, <1>4 DEF EnPoste, ImprimeEnPlace, SpTypes

-----------------------------------------------------------------------------
(* The clients keep the ring as long as no two of them write at once. *)
LEMMA AnneauClients ==
  ASSUME SpTypes, SpTypes', ToutesLesPlaces, BonAnneau, ~spCourse', NEW c \in Deposants,
         Deposants' = Deposants, spool' = spool,
         SpDemarrer(c) \/ PrendrePlace(c) \/ Nommer(c) \/ Quitter(c) \/ Tuer(c)
  PROVE  BonAnneau'
<1>1. UNCHANGED <<tab, debutlect, finecrit, info_occupe, spFin, deposes, lances, impc>>
  BY DEF SpDemarrer, PrendrePlace, Nommer, Quitter, Tuer, anneau
<1>2. ImprimeEnPlace' = ImprimeEnPlace
  BY <1>1 DEF ImprimeEnPlace
<1>3. \A d \in Deposants \ {c} : sppc'[d] = sppc[d]
  BY DEF SpDemarrer, PrendrePlace, Nommer, Quitter, Tuer, SpTypes
<1>4. sppc'[c] \notin {"avancer", "poster"} /\ sppc[c] # "poster"
  BY DEF SpDemarrer, PrendrePlace, Nommer, Quitter, Tuer, SpTypes
<1>5. \A d \in Deposants \ {c} : nomme'[d] = nomme[d]
  BY DEF SpDemarrer, PrendrePlace, Nommer, Quitter, Tuer, SpTypes
<1>6. \A d \in Deposants : sppc'[d] = "poster" <=> sppc[d] = "poster"
  BY <1>3, <1>4
<1>7. \A d \in Deposants : sppc'[d] = "avancer" => sppc[d] = "avancer"
  BY <1>3, <1>4
<1>8. \A d \in Deposants : sppc'[d] \in {"avancer", "poster"} => nomme'[d] = nomme[d]
  BY <1>4, <1>5
<1>9. \A a, b \in Ecrivains' : a = b
  <2>1. CASE Nommer(c)
    <3>1. Ecrivains = {}
      BY <2>1 DEF Nommer
    <3>2. Ecrivains' \subseteq {c}
      BY <3>1, <1>3 DEF Ecrivains
    <3> QED BY <3>2
  <2>2. CASE ~Nommer(c)
    <3>1. sppc'[c] # "copier"
      BY <2>2 DEF SpDemarrer, PrendrePlace, Quitter, Tuer, SpTypes
    <3>2. Ecrivains' \subseteq Ecrivains
      BY <3>1, <1>3, <1>4 DEF Ecrivains
    <3> QED BY <3>2 DEF BonAnneau
  <2> QED BY <2>1, <2>2
<1> QED BY ONLY <1>1, <1>2, <1>6, <1>7, <1>8, <1>9, SpTypes, SpTypes', BonAnneau, Deposants' = Deposants, RienAuTour

LEMMA AnneauCopier ==
  ASSUME SpTypes, ToutesLesPlaces, BonAnneau, NEW c \in Deposants, Deposants' = Deposants, Copier(c)
  PROVE  BonAnneau'
<1> DEFINE n == <<c, nomme[c]>>
<1>1. /\ spool = "memoire" /\ sppc[c] = "copier" /\ sppc' = [sppc EXCEPT ![c] = "avancer"]
      /\ tab' = [tab EXCEPT ![finecrit] = n] /\ spFin' = [spFin EXCEPT ![c] = finecrit]
      /\ UNCHANGED <<spool, debutlect, finecrit, place_libre, info_occupe, impc, deposes, lances, nomme>>
  BY DEF Copier
<1>2. info_occupe < CASEMAX
  BY <1>1, UnePlace DEF Detenteurs
<1>3. c \in Ecrivains /\ EnPoste = 0
  BY <1>1, SpFaits DEF Ecrivains
<1>4. finecrit = Len(deposes) % CASEMAX
  BY <1>3, SpFaits DEF BonAnneau
<1>5. /\ tab'[Len(deposes) % CASEMAX] = n
      /\ \A k \in Len(lances) + 1 .. Len(deposes) : tab'[(k - 1) % CASEMAX] = deposes[k]
  BY <1>1, <1>2, <1>4, Derriere
<1>6. \A d \in Deposants : sppc'[d] = IF d = c THEN "avancer" ELSE sppc[d]
  BY <1>1 DEF SpTypes
<1>7. \A d \in Deposants \ {c} : sppc[d] \notin {"copier", "avancer", "poster"}
  BY <1>3, SpFaits
<1>8. EnPoste' = EnPoste /\ ImprimeEnPlace' = ImprimeEnPlace
  BY <1>1, <1>6 DEF EnPoste, ImprimeEnPlace
<1>9. \A a, b \in Ecrivains' : a = b
  BY <1>6, <1>7 DEF Ecrivains
<1>10. spFin'[c] = finecrit
  BY <1>1 DEF SpTypes
<1>11. \A d \in Deposants : /\ sppc'[d] = "avancer" => spFin'[d] = finecrit'
                            /\ sppc'[d] \in {"avancer", "poster"} => tab'[Len(deposes') % CASEMAX] = <<d, nomme'[d]>>
  BY <1>1, <1>5, <1>6, <1>7, <1>10
<1> QED BY <1>1, <1>5, <1>8, <1>9, <1>11 DEF BonAnneau

LEMMA AnneauAvancer ==
  ASSUME SpTypes, BonAnneau, NEW c \in Deposants, Deposants' = Deposants, Avancer(c)
  PROVE  BonAnneau'
<1>1. /\ sppc[c] = "avancer" /\ sppc' = [sppc EXCEPT ![c] = "poster"]
      /\ \E f \in {spFin[c], finecrit} : finecrit' = (f + 1) % CASEMAX
      /\ UNCHANGED <<spool, tab, debutlect, info_occupe, spFin, impc, deposes, lances, nomme>>
  BY DEF Avancer
<1>2. c \in Ecrivains /\ EnPoste = 0
  BY <1>1, SpFaits DEF Ecrivains
<1>3. finecrit = Len(deposes) % CASEMAX /\ spFin[c] = finecrit /\ Len(deposes) \in Nat
  BY <1>1, <1>2, SpFaits DEF BonAnneau
<1>4. finecrit' = (Len(deposes) + 1) % CASEMAX
  <2>1. finecrit' = ((Len(deposes) % CASEMAX) + 1) % CASEMAX
    BY <1>1, <1>3
  <2> QED BY <2>1, <1>3, SpBornes, RingSuccessor
<1>5. \A d \in Deposants : sppc'[d] = IF d = c THEN "poster" ELSE sppc[d]
  BY <1>1 DEF SpTypes
<1>6. \A d \in Deposants \ {c} : sppc[d] \notin {"copier", "avancer", "poster"}
  BY <1>2, SpFaits
<1>7. EnPoste' = 1 /\ ImprimeEnPlace' = ImprimeEnPlace
  BY <1>1, <1>5 DEF EnPoste, ImprimeEnPlace
<1>8. \A a, b \in Ecrivains' : a = b
  BY <1>5, <1>6 DEF Ecrivains
<1>9. \A d \in Deposants : /\ sppc'[d] = "avancer" => spFin'[d] = finecrit'
                           /\ sppc'[d] \in {"avancer", "poster"} => tab'[Len(deposes') % CASEMAX] = <<d, nomme'[d]>>
  BY <1>1, <1>5, <1>6 DEF BonAnneau
<1> QED BY <1>1, <1>4, <1>7, <1>8, <1>9 DEF BonAnneau

-----------------------------------------------------------------------------
LEMMA AnneauPoster ==
  ASSUME SpTypes, BonAnneau, NEW c \in Deposants, Deposants' = Deposants, Poster(c)
  PROVE  BonAnneau'
<1> DEFINE n == <<c, nomme[c]>>
           D == Len(deposes)
<1>1. /\ sppc[c] = "poster" /\ sppc' = [sppc EXCEPT ![c] = "debut"]
      /\ info_occupe' = info_occupe + 1 /\ deposes' = Append(deposes, n)
      /\ UNCHANGED <<spool, tab, debutlect, finecrit, place_libre, spFin, impc, lances, nomme>>
  BY DEF Poster
<1>2. c \in Ecrivains /\ EnPoste = 1
  BY <1>1, SpFaits DEF Ecrivains
<1>3. finecrit = (D + 1) % CASEMAX /\ tab[D % CASEMAX] = n
  BY <1>1, <1>2 DEF BonAnneau
<1>4. n \in SpNoms
  BY SpBornes DEF SpTypes, SpNoms, Deposants
<1>5. Len(deposes') = D + 1 /\ deposes'[D + 1] = n /\ \A k \in 1 .. D : deposes'[k] = deposes[k]
  BY <1>1, <1>4, AppendProperties DEF SpTypes
<1>6. D \in Nat /\ Len(lances) \in Nat /\ Len(lances) <= D /\ info_occupe \in Nat
  BY SpFaits
<1>7. \A d \in Deposants : sppc'[d] = IF d = c THEN "debut" ELSE sppc[d]
  BY <1>1 DEF SpTypes
<1>8. \A d \in Deposants \ {c} : sppc[d] \notin {"copier", "avancer", "poster"}
  BY <1>2, SpFaits
<1>9. EnPoste' = 0 /\ ImprimeEnPlace' = ImprimeEnPlace
  BY <1>1, <1>7, <1>8 DEF EnPoste, ImprimeEnPlace
<1>10. \A d \in Deposants : sppc'[d] \notin {"copier", "avancer", "poster"}
  BY <1>7, <1>8
<1>11. \A a, b \in Ecrivains' : a = b
  BY <1>10 DEF Ecrivains
<1>12. \A k \in 1 .. Len(lances) : lances[k] = deposes'[k]
  <2>1. \A k \in 1 .. Len(lances) : k \in 1 .. D
    BY <1>6
  <2> QED BY <2>1, <1>5 DEF BonAnneau
<1>13. ASSUME NEW k \in Len(lances) + 1 .. D + 1 PROVE tab[(k - 1) % CASEMAX] = deposes'[k]
  <2>1. CASE k = D + 1
    <3>1. k - 1 = D
      BY <1>6, <2>1
    <3> QED BY <3>1, <2>1, <1>3, <1>5
  <2>2. CASE k # D + 1
    <3>1. k \in Len(lances) + 1 .. D /\ k \in 1 .. D
      BY <1>6, <2>2
    <3> QED BY <3>1, <1>5 DEF BonAnneau
  <2> QED BY <2>1, <2>2
<1>14. Len(lances) + info_occupe' = Len(deposes') /\ finecrit' = (Len(deposes') + 0) % CASEMAX
  <2>1. Len(lances) + info_occupe = D
    BY DEF BonAnneau
  <2>2. D + 1 = D + 1 + 0
    BY <1>6
  <2> QED BY <1>1, <1>3, <1>5, <1>6, <2>1, <2>2
<1> QED BY <1>1, <1>5, <1>9, <1>10, <1>11, <1>12, <1>13, <1>14 DEF BonAnneau

LEMMA AnneauDeposer ==
  ASSUME SpTypes, ToutesLesPlaces, BonAnneau, NEW c \in Deposants, Deposants' = Deposants, DeposerSousVerrou(c)
  PROVE  BonAnneau'
<1> DEFINE n == <<c, nomme[c]>>
           D == Len(deposes)
<1>1. /\ spool = "threads" /\ sppc[c] = "copier" /\ place_libre > 0
      /\ tab' = [tab EXCEPT ![finecrit] = n] /\ finecrit' = (finecrit + 1) % CASEMAX
      /\ info_occupe' = info_occupe + 1
      /\ sppc' = [sppc EXCEPT ![c] = "debut"] /\ deposes' = Append(deposes, n)
      /\ UNCHANGED <<spool, debutlect, spFin, impc, lances, nomme>>
  BY DEF DeposerSousVerrou
<1>2. EnPoste = 0 /\ ImprimeEnPlace = 0 /\ Detenteurs = {}
  BY <1>1, SpFaits DEF Detenteurs
<1>3. info_occupe < CASEMAX
  <2>1. Cardinality(Detenteurs) = 0
    BY <1>2, FS_EmptySet
  <2>2. place_libre \in Nat /\ info_occupe \in Nat
    BY DEF SpTypes
  <2>3. place_libre + info_occupe + ImprimeEnPlace + Cardinality(Detenteurs) = CASEMAX
    BY DEF ToutesLesPlaces
  <2> QED BY <1>1, <1>2, <2>1, <2>2, <2>3
<1>4. D \in Nat /\ Len(lances) \in Nat /\ Len(lances) <= D /\ info_occupe \in Nat
  BY SpFaits
<1>5. finecrit = D % CASEMAX
  BY <1>2, <1>4 DEF BonAnneau
<1>6. tab'[D % CASEMAX] = n /\ \A k \in Len(lances) + 1 .. D : tab'[(k - 1) % CASEMAX] = deposes[k]
  BY <1>1, <1>3, <1>5, Derriere
<1>7. n \in SpNoms
  BY SpBornes DEF SpTypes, SpNoms, Deposants
<1>8. Len(deposes') = D + 1 /\ deposes'[D + 1] = n /\ \A k \in 1 .. D : deposes'[k] = deposes[k]
  BY <1>1, <1>7, AppendProperties DEF SpTypes
<1>9. \A d \in Deposants : sppc'[d] = IF d = c THEN "debut" ELSE sppc[d]
  BY <1>1 DEF SpTypes
<1>10. \A d \in Deposants : sppc'[d] \notin {"avancer", "poster"}
  BY <1>1, <1>9 DEF SpTypes
<1>11. EnPoste' = 0 /\ ImprimeEnPlace' = 0
  BY <1>1, <1>10 DEF EnPoste, ImprimeEnPlace
<1>12. \A a, b \in Ecrivains' : a = b
  <2>1. Ecrivains' \subseteq Ecrivains
    BY <1>9 DEF Ecrivains
  <2> QED BY <2>1 DEF BonAnneau
<1>13. \A k \in 1 .. Len(lances) : lances[k] = deposes'[k]
  <2>1. \A k \in 1 .. Len(lances) : k \in 1 .. D
    BY <1>4
  <2> QED BY <2>1, <1>8 DEF BonAnneau
<1>14. ASSUME NEW k \in Len(lances) + 1 .. D + 1 PROVE tab'[(k - 1) % CASEMAX] = deposes'[k]
  <2>1. CASE k = D + 1
    <3>1. k - 1 = D
      BY <1>4, <2>1
    <3> QED BY <3>1, <2>1, <1>6, <1>8
  <2>2. CASE k # D + 1
    <3>1. k \in Len(lances) + 1 .. D /\ k \in 1 .. D
      BY <1>4, <2>2
    <3> QED BY <3>1, <1>6, <1>8
  <2> QED BY <2>1, <2>2
<1>15. Len(lances) + info_occupe' = Len(deposes')
  <2>1. Len(lances) + info_occupe = D
    BY DEF BonAnneau
  <2>2. info_occupe' = info_occupe + 1 /\ Len(deposes') = D + 1
    BY <1>1, <1>8
  <2>3. Len(lances) + info_occupe' = D + 1
    BY ONLY <2>1, <2>2, <1>4
  <2> QED BY ONLY <2>2, <2>3
<1>16. finecrit' = (Len(deposes') + 0) % CASEMAX
  <2>1. ((D % CASEMAX) + 1) % CASEMAX = (D + 1) % CASEMAX
    BY <1>4, SpBornes, RingSuccessor
  <2>2. Len(deposes') + 0 = D + 1
    BY <1>4, <1>8
  <2> QED BY <2>1, <2>2, <1>1, <1>5
<1>17. debutlect = (Len(lances) - 0) % CASEMAX /\ 0 <= Len(lances)
  BY <1>2 DEF BonAnneau
<1> QED BY <1>1, <1>8, <1>10, <1>11, <1>12, <1>13, <1>14, <1>15, <1>16, <1>17 DEF BonAnneau

(* The printers move the beginning of the ring. *)
LEMMA AnneauImprimeurs ==
  ASSUME SpTypes, BonAnneau, NEW p \in Imprimeurs, Deposants' = Deposants, spool' = spool,
         ImprimerEnPlace(p) \/ Veiller(p) \/ PrendreSousVerrou(p) \/ Rendre(p)
  PROVE  BonAnneau'
<1> DEFINE L == Len(lances)
           D == Len(deposes)
<1>1. UNCHANGED <<tab, finecrit, sppc, spFin, deposes, nomme>>
  BY DEF ImprimerEnPlace, Veiller, PrendreSousVerrou, Rendre, anneau
<1>2. D \in Nat /\ L \in Nat /\ L <= D /\ info_occupe \in Nat /\ ImprimeEnPlace \in {0, 1} /\ L + info_occupe = D
      /\ debutlect = (L - ImprimeEnPlace) % CASEMAX
  BY SpFaits DEF BonAnneau
<1>3. EnPoste' = EnPoste /\ Ecrivains' = Ecrivains
  BY <1>1 DEF EnPoste, Ecrivains
\* what follows looks at the printers only
<1>4. SUFFICES /\ Len(lances') + info_occupe' = D /\ ImprimeEnPlace' <= Len(lances')
               /\ debutlect' = (Len(lances') - ImprimeEnPlace') % CASEMAX
               /\ \A k \in 1 .. Len(lances') : lances'[k] = deposes[k]
               /\ \A k \in Len(lances') + 1 .. D : tab[(k - 1) % CASEMAX] = deposes[k]
  <2>1. /\ \A c, d \in Ecrivains' : c = d
        /\ finecrit' = (Len(deposes') + EnPoste') % CASEMAX
        /\ \A c \in Deposants' : /\ sppc'[c] = "avancer" => spFin'[c] = finecrit'
                                 /\ sppc'[c] \in {"avancer", "poster"} => tab'[Len(deposes') % CASEMAX] = <<c, nomme'[c]>>
    BY <1>1, <1>3 DEF BonAnneau
  <2> QED BY <1>1, <2>1 DEF BonAnneau
\* a name is taken: the next one that was handed over
<1>5. ASSUME ImprimeEnPlace = 0, info_occupe > 0, lances' = Append(lances, tab[debutlect])
      PROVE  /\ Len(lances') = L + 1 /\ \A k \in 1 .. L + 1 : lances'[k] = deposes[k]
             /\ \A k \in L + 2 .. D : tab[(k - 1) % CASEMAX] = deposes[k]
  <2>1. debutlect = L % CASEMAX /\ L + 1 \in L + 1 .. D /\ (L + 1) - 1 = L
    BY <1>2, <1>5
  <2>2. tab[debutlect] = deposes[L + 1]
    BY <2>1 DEF BonAnneau
  <2>3. tab[debutlect] \in SpNoms
    BY DEF SpTypes
  <2>4. Len(lances') = L + 1 /\ lances'[L + 1] = deposes[L + 1] /\ \A k \in 1 .. L : lances'[k] = lances[k]
    BY <1>5, <2>2, <2>3, AppendProperties DEF SpTypes
  <2>5. \A k \in 1 .. L : lances[k] = deposes[k]
    BY DEF BonAnneau
  <2>6. \A k \in 1 .. L + 1 : k \in 1 .. L \/ k = L + 1
    BY <1>2
  <2>7. \A k \in L + 2 .. D : k \in L + 1 .. D
    BY <1>2
  <2> QED BY <2>4, <2>5, <2>6, <2>7 DEF BonAnneau
<1>6. CASE ImprimerEnPlace(p)
  <2>1. spool = "memoire" /\ p = Serveur
    BY <1>6 DEF ImprimerEnPlace, Imprimeurs
  <2>2. CASE impc[p] = "repos"
    <3>1. /\ info_occupe > 0 /\ info_occupe' = info_occupe - 1 /\ debutlect' = debutlect
          /\ lances' = Append(lances, tab[debutlect]) /\ impc' = [impc EXCEPT ![p] = "imprimer"]
      BY <1>6, <2>2 DEF ImprimerEnPlace
    <3>2. ImprimeEnPlace = 0 /\ ImprimeEnPlace' = 1
      BY <3>1, <2>1, <2>2 DEF ImprimeEnPlace, SpTypes
    <3>3. L + 1 + (info_occupe - 1) = D /\ 1 <= L + 1 /\ (L + 1) - 1 = L - 0 /\ (L + 1) + 1 = L + 2
      BY <1>2
    <3> QED BY <1>2, <1>5, <3>1, <3>2, <3>3
  <2>3. CASE impc[p] = "imprimer"
    <3>1. /\ debutlect' = (debutlect + 1) % CASEMAX /\ info_occupe' = info_occupe /\ lances' = lances
          /\ impc' = [impc EXCEPT ![p] = "repos"]
      BY <1>6, <2>3 DEF ImprimerEnPlace
    <3>2. ImprimeEnPlace = 1 /\ ImprimeEnPlace' = 0
      BY <3>1, <2>1, <2>3 DEF ImprimeEnPlace, SpTypes
    <3>3. L - 1 \in Nat /\ (L - 1) + 1 = L - 0
      BY <1>2, <3>2 DEF BonAnneau
    <3>4. (((L - 1) % CASEMAX) + 1) % CASEMAX = ((L - 1) + 1) % CASEMAX
      BY <3>3, SpBornes, RingSuccessor
    <3>5. debutlect' = (L - 0) % CASEMAX
      BY <1>2, <3>1, <3>2, <3>3, <3>4
    <3>6. 0 <= L
      BY <1>2
    <3> QED BY <1>2, <3>1, <3>2, <3>5, <3>6 DEF BonAnneau
  <2> QED BY <1>6, <2>2, <2>3 DEF ImprimerEnPlace
<1>7. CASE PrendreSousVerrou(p)
  <2>1. /\ info_occupe > 0 /\ lances' = Append(lances, tab[debutlect]) /\ debutlect' = (debutlect + 1) % CASEMAX
        /\ info_occupe' = info_occupe - 1 /\ spool = "threads"
    BY <1>7 DEF PrendreSousVerrou, SpTypes
  <2>2. ImprimeEnPlace = 0 /\ ImprimeEnPlace' = 0
    BY <2>1 DEF ImprimeEnPlace
  <2>3. L + 1 + (info_occupe - 1) = D /\ 0 <= L + 1 /\ L - 0 = L /\ (L + 1) - 0 = L + 1 /\ (L + 1) + 1 = L + 2
    BY <1>2
  <2>4. ((L % CASEMAX) + 1) % CASEMAX = (L + 1) % CASEMAX
    BY <1>2, SpBornes, RingSuccessor
  <2>5. debutlect' = ((L + 1) - 0) % CASEMAX
    BY <1>2, <2>1, <2>2, <2>3, <2>4
  <2> QED BY <1>5, <2>1, <2>2, <2>3, <2>5
<1>8. CASE Veiller(p) \/ Rendre(p)
  <2>1. UNCHANGED <<debutlect, info_occupe, lances>> /\ spool = "threads"
    BY <1>8 DEF Veiller, Rendre, anneau
  <2>2. ImprimeEnPlace = 0 /\ ImprimeEnPlace' = 0
    BY <2>1 DEF ImprimeEnPlace
  <2> QED BY <2>1, <2>2 DEF BonAnneau
<1> QED BY <1>6, <1>7, <1>8

-----------------------------------------------------------------------------
LEMMA SpInitialisation == SpInit => SpInv
<1> SUFFICES ASSUME SpInit PROVE SpInv
  OBVIOUS
<1> USE SpBornes DEF SpInit
<1>1. Len(deposes) = 0 /\ Len(lances) = 0 /\ deposes \in Seq(SpNoms) /\ lances \in Seq(SpNoms)
  OBVIOUS
<1>2. SpTypes
  <2>1. sppc \in [Deposants -> {"dehors"}] /\ impc \in [Imprimeurs -> {"repos"}]
    OBVIOUS
  <2>2. tab \in [CasesAnneau -> SpNoms] /\ spFin \in [Deposants -> CasesAnneau] /\ nomme \in [Deposants -> Nat]
    BY DEF SpNoms
  <2> QED BY <1>1, <2>1, <2>2 DEF SpTypes
<1>3. Detenteurs = {} /\ Ecrivains = {} /\ ImprimeEnPlace = 0 /\ EnPoste = 0
  BY DEF Detenteurs, Ecrivains, ImprimeEnPlace, EnPoste, Imprimeurs
<1>4. ToutesLesPlaces
  <2>1. IsFiniteSet(Detenteurs) /\ Cardinality(Detenteurs) = 0
    BY <1>3, FS_EmptySet
  <2>2. place_libre + info_occupe + ImprimeEnPlace + Cardinality(Detenteurs) = CASEMAX
    BY <1>3, <2>1
  <2> QED BY <2>1, <2>2 DEF ToutesLesPlaces
<1>5. BonAnneau
  <2>1. 0 % CASEMAX = 0
    BY RemainderSmall
  <2>2. Len(lances) + info_occupe = Len(deposes) /\ ImprimeEnPlace <= Len(lances)
        /\ Len(lances) - ImprimeEnPlace = 0 /\ Len(deposes) + EnPoste = 0
    BY <1>1, <1>3
  <2>3. /\ \A k \in 1 .. Len(lances) : lances[k] = deposes[k]
        /\ \A k \in Len(lances) + 1 .. Len(deposes) : tab[(k - 1) % CASEMAX] = deposes[k]
    BY <1>1
  <2>4. \A c \in Deposants : sppc[c] = "dehors"
    OBVIOUS
  <2> QED BY <1>3, <2>1, <2>2, <2>3, <2>4 DEF BonAnneau
<1> QED BY <1>2, <1>4, <1>5 DEF SpInv

LEMMA SpPas == SpInv /\ [SpNext]_spVars => SpInv'
<1> SUFFICES ASSUME SpTypes, ToutesLesPlaces, ~spCourse => BonAnneau, [SpNext]_spVars PROVE SpInv'
  BY DEF SpInv
<1>1. SpTypes' /\ Deposants' = Deposants /\ Imprimeurs' = Imprimeurs /\ ToutesLesPlaces'
  BY SpTypesPas, PlacesPas
<1>2. spool' = spool
  BY DEF SpNext, SpTravail, SpDemarrer, PrendrePlace, Nommer, Quitter, Tuer, Copier, Avancer, Poster,
    DeposerSousVerrou, ImprimerEnPlace, Veiller, PrendreSousVerrou, Rendre, spVars
<1>3. ASSUME ~spCourse' PROVE BonAnneau'
  <2>1. BonAnneau
    <3>1. ~spCourse
      BY <1>3 DEF SpNext, SpTravail, SpDemarrer, PrendrePlace, Nommer, Quitter, Tuer, Copier, Avancer, Poster,
        DeposerSousVerrou, ImprimerEnPlace, Veiller, PrendreSousVerrou, Rendre, spVars
    <3> QED BY <3>1
  <2>2. ASSUME NEW c \in Deposants, SpDemarrer(c) \/ PrendrePlace(c) \/ Nommer(c) \/ Quitter(c) \/ Tuer(c) PROVE BonAnneau'
    BY <1>1, <1>2, <1>3, <2>1, <2>2, AnneauClients
  <2>3. ASSUME NEW c \in Deposants, Copier(c) \/ Avancer(c) \/ Poster(c) \/ DeposerSousVerrou(c) PROVE BonAnneau'
    BY <1>1, <2>1, <2>3, AnneauCopier, AnneauAvancer, AnneauPoster, AnneauDeposer
  <2>4. ASSUME NEW p \in Imprimeurs, ImprimerEnPlace(p) \/ Veiller(p) \/ PrendreSousVerrou(p) \/ Rendre(p) PROVE BonAnneau'
    BY <1>1, <1>2, <2>1, <2>4, AnneauImprimeurs
  <2>5. ASSUME UNCHANGED spVars PROVE BonAnneau'
    BY <2>1, <2>5 DEF spVars, anneau, BonAnneau, EnPoste, Ecrivains, ImprimeEnPlace, Deposants
  <2> QED BY <2>2, <2>3, <2>4, <2>5 DEF SpNext, SpTravail
<1> QED BY <1>1, <1>3 DEF SpInv

(* The ring holds, in order, the names that were handed over and not taken. *)
LEMMA FileDesNoms == SpTypes /\ BonAnneau => lances \o EnAttente = deposes
<1> SUFFICES ASSUME SpTypes, BonAnneau PROVE lances \o EnAttente = deposes
  OBVIOUS
<1> DEFINE L == Len(lances)
           s == lances \o EnAttente
<1>1. L \in Nat /\ Len(deposes) \in Nat /\ info_occupe \in Nat /\ ImprimeEnPlace \in {0, 1} /\ L - ImprimeEnPlace \in Nat
      /\ L + info_occupe = Len(deposes) /\ CASEMAX \in Nat \ {0}
  BY SpFaits, SpBornes DEF BonAnneau
<1>2. ASSUME NEW k \in 1 .. info_occupe PROVE EnAttente[k] = deposes[L + k]
  <2>1. k - 1 \in Nat /\ ImprimeEnPlace + k - 1 \in Nat /\ (L - ImprimeEnPlace) + (ImprimeEnPlace + k - 1) = (L + k) - 1
        /\ L + k \in L + 1 .. Len(deposes)
    BY <1>1
  <2>2. debutlect = (L - ImprimeEnPlace) % CASEMAX
    BY DEF BonAnneau
  <2>3. (debutlect + (ImprimeEnPlace + k - 1)) % CASEMAX = ((L + k) - 1) % CASEMAX
    <3>1. (((L - ImprimeEnPlace) % CASEMAX) + (ImprimeEnPlace + k - 1)) % CASEMAX
            = ((L - ImprimeEnPlace) + (ImprimeEnPlace + k - 1)) % CASEMAX
      BY ONLY <1>1, <2>1, RingSum
    <3> QED BY ONLY <3>1, <2>1, <2>2
  <2>4. debutlect \in Nat
    BY SpBornes DEF SpTypes
  <2>5. debutlect + ImprimeEnPlace + k - 1 = debutlect + (ImprimeEnPlace + k - 1)
    BY <1>1, <2>1, <2>4
  <2>6. EnAttente[k] = tab[(debutlect + ImprimeEnPlace + k - 1) % CASEMAX]
    BY DEF EnAttente
  <2>7. tab[((L + k) - 1) % CASEMAX] = deposes[L + k]
    BY <2>1 DEF BonAnneau
  <2> QED BY <2>3, <2>5, <2>6, <2>7
<1>3. \A k \in 1 .. info_occupe : deposes[L + k] \in SpNoms
  <2>1. \A k \in 1 .. info_occupe : L + k \in 1 .. Len(deposes)
    BY <1>1
  <2> QED BY <2>1, ElementOfSeq DEF SpTypes
<1>4. EnAttente \in Seq(SpNoms) /\ Len(EnAttente) = info_occupe
  <2>1. EnAttente \in [1 .. info_occupe -> SpNoms]
    BY <1>2, <1>3 DEF EnAttente
  <2> QED BY <2>1, <1>1
<1>5. lances \in Seq(SpNoms) /\ deposes \in Seq(SpNoms)
  BY DEF SpTypes
<1>6. s \in Seq(SpNoms) /\ Len(s) = L + info_occupe
      /\ \A i \in 1 .. L + info_occupe : s[i] = IF i <= L THEN lances[i] ELSE EnAttente[i - L]
  BY <1>4, <1>5, ConcatProperties
<1>7. ASSUME NEW i \in 1 .. Len(deposes) PROVE s[i] = deposes[i]
  <2>1. CASE i <= L
    <3>1. i \in 1 .. L /\ i \in 1 .. L + info_occupe
      BY <1>1, <2>1
    <3> QED BY <3>1, <1>6, <2>1 DEF BonAnneau
  <2>2. CASE ~(i <= L)
    <3>1. i - L \in 1 .. info_occupe /\ i \in 1 .. L + info_occupe /\ L + (i - L) = i
      BY <1>1, <2>2
    <3> QED BY <3>1, <1>2, <1>6, <2>2
  <2> QED BY <2>1, <2>2
<1> QED BY <1>1, <1>5, <1>6, <1>7, SeqEqual

(* No place of the ring is ever lost from sight, and until two clients     *)
(* write at once, or one dies with a name written, every name that was     *)
(* handed over is printed once, in order, whatever the number of clients,  *)
(* of threads and of slots.                                                *)
THEOREM ToutEstImprime == SpSpec => []AnneauExact
<1>1. SpInv => AnneauExact
  BY FileDesNoms DEF SpInv, ToutesLesPlaces, AnneauExact
<1> QED BY <1>1, SpInitialisation, SpPas, PTL DEF SpSpec

-----------------------------------------------------------------------------
(* The TCP servers of Cours8. *)

TcpN == NB_MAX_REPONSES

TcpTypes ==
  /\ tcpVivant = TRUE
  /\ gerees \subseteq TcpClients /\ fileAcces \in Seq(TcpClients)
  /\ nbReponsesAuClient \in [TcpClients -> 0 .. TcpN] /\ nbReponsesOK \in [TcpClients -> 0 .. TcpN]
  /\ requis \in [TcpClients -> BOOLEAN] /\ rendu \in [TcpClients -> 0 .. KO]
  /\ tcppc \in [TcpClients -> {"dehors", "envoyer", "lire", "fini", "tue"}]
  /\ tcpLien \in [TcpClients -> {"ouvert", "clos", "rompu"}]

(* One request or one answer in transit, never both; the counter of the    *)
(* service is the number of answers the client has read, but for the one   *)
(* in transit.                                                             *)
Alternance(c) ==
  /\ requis[c] => rendu[c] = 0 /\ tcpLien[c] # "rompu" /\ tcppc[c] \in {"lire", "tue"}
  /\ rendu[c] # 0 => tcppc[c] = "lire"
  /\ tcppc[c] \in {"dehors", "envoyer", "lire"} <=> tcpLien[c] = "ouvert"
  /\ tcppc[c] \in {"dehors", "envoyer"} \/ (tcppc[c] = "lire" /\ rendu[c] = 0) =>
       nbReponsesAuClient[c] = nbReponsesOK[c]
  /\ tcppc[c] = "lire" /\ rendu[c] # 0 =>
       /\ rendu[c] = nbReponsesOK[c] + 1
       /\ nbReponsesAuClient[c] = IF rendu[c] = KO THEN TcpN ELSE rendu[c]
  /\ tcppc[c] = "fini" => nbReponsesOK[c] = TcpN

TcpInv == TcpTypes /\ \A c \in TcpClients : Alternance(c)

-----------------------------------------------------------------------------
LEMMA TcpInitialisation == TcpInit => TcpInv
<1> TcpN \in Nat \ {0} BY TcpAssumption DEF TcpN
<1> QED BY DEF TcpInit, TcpInv, TcpTypes, Alternance, KO, TcpN

LEMMA TcpPas == TcpInv /\ [TcpNext]_tcpVars => TcpInv'
<1> SUFFICES ASSUME TcpInv, [TcpNext]_tcpVars PROVE TcpInv'
  OBVIOUS
<1>n. TcpN \in Nat \ {0} /\ TcpN = NB_MAX_REPONSES /\ KO = TcpN + 1
  BY TcpAssumption DEF TcpN, KO
<1>1. CASE TcpAccepter
  <2>1. Head(fileAcces) \in TcpClients /\ Tail(fileAcces) \in Seq(TcpClients)
    BY <1>1 DEF TcpAccepter, TcpInv, TcpTypes
  <2> QED BY <1>1, <2>1 DEF TcpAccepter, TcpInv, TcpTypes, Alternance
<1>2. ASSUME NEW c \in TcpClients, TcpEnvoyer(c) PROVE TcpInv'
  BY <1>2, <1>n DEF TcpEnvoyer, TcpInv, TcpTypes, Alternance
<1>3. ASSUME NEW c \in TcpClients, TcpLire(c) PROVE TcpInv'
  <2>1. rendu[c] = nbReponsesOK[c] + 1 /\ tcppc[c] = "lire"
        /\ rendu[c] \in 0 .. KO /\ nbReponsesOK[c] \in 0 .. TcpN
    BY <1>3 DEF TcpLire, TcpInv, TcpTypes, Alternance
  <2>2. CASE rendu[c] = KO
    <3>1. /\ tcppc' = [tcppc EXCEPT ![c] = "fini"] /\ tcpLien' = [tcpLien EXCEPT ![c] = "clos"]
          /\ rendu' = [rendu EXCEPT ![c] = 0] /\ nbReponsesOK[c] = TcpN
          /\ UNCHANGED <<tcpVivant, fileAcces, gerees, nbReponsesAuClient, requis, nbReponsesOK>>
      BY <1>3, <1>n, <2>1, <2>2 DEF TcpLire, TcpInv, TcpTypes
    <3>2. TcpTypes'
      BY <1>n, <3>1 DEF TcpInv, TcpTypes
    <3>3. ASSUME NEW d \in TcpClients PROVE Alternance(d)'
      BY <1>n, <2>1, <3>1 DEF TcpInv, TcpTypes, Alternance
    <3> QED BY <3>2, <3>3 DEF TcpInv
  <2>3. CASE rendu[c] # KO
    <3>1. /\ tcppc' = [tcppc EXCEPT ![c] = "envoyer"] /\ UNCHANGED tcpLien
          /\ rendu' = [rendu EXCEPT ![c] = 0] /\ nbReponsesOK' = [nbReponsesOK EXCEPT ![c] = @ + 1]
          /\ nbReponsesOK[c] + 1 \in 0 .. TcpN
          /\ UNCHANGED <<tcpVivant, fileAcces, gerees, nbReponsesAuClient, requis>>
      BY <1>3, <1>n, <2>1, <2>3 DEF TcpLire, TcpInv, TcpTypes
    <3>2. TcpTypes'
      BY <1>n, <3>1 DEF TcpInv, TcpTypes
    <3>3. ASSUME NEW d \in TcpClients PROVE Alternance(d)'
      BY <1>n, <2>1, <2>3, <3>1 DEF TcpInv, TcpTypes, Alternance
    <3> QED BY <3>2, <3>3 DEF TcpInv
  <2> QED BY <2>2, <2>3
<1>4. ASSUME NEW c \in TcpClients, TcpRepondre(c) PROVE TcpInv'
  <2>1. tcpLien[c] # "rompu" /\ rendu[c] = 0
    BY <1>4 DEF TcpRepondre, TcpInv, TcpTypes, Alternance
  <2>2. TcpTypes'
    BY <1>4, <1>n, <2>1 DEF TcpRepondre, TcpInv, TcpTypes
  <2>3. ASSUME NEW d \in TcpClients PROVE Alternance(d)'
    <3>1. CASE d # c
      BY <1>4, <3>1 DEF TcpRepondre, TcpInv, TcpTypes, Alternance
    <3>2. CASE d = c /\ tcpLien[c] = "ouvert"
      <4>1. tcpLien'[c] = "ouvert" /\ tcppc'[c] = tcppc[c] /\ tcppc[c] = "lire" /\ ~requis'[c]
        BY <1>4, <3>2 DEF TcpRepondre, TcpInv, TcpTypes, Alternance
      <4>2. nbReponsesOK'[c] = nbReponsesOK[c] /\ nbReponsesAuClient[c] = nbReponsesOK[c]
            /\ nbReponsesOK[c] \in 0 .. TcpN
        BY <1>4, <2>1, <4>1 DEF TcpRepondre, TcpInv, TcpTypes, Alternance
      <4>3. CASE nbReponsesOK[c] < TcpN
        <5>1. nbReponsesAuClient'[c] = nbReponsesOK[c] + 1 /\ rendu'[c] = nbReponsesOK[c] + 1
          BY <1>4, <1>n, <3>2, <4>2, <4>3 DEF TcpRepondre, TcpInv, TcpTypes
        <5> QED BY <1>n, <3>2, <4>1, <4>2, <4>3, <5>1 DEF Alternance
      <4>4. CASE nbReponsesOK[c] = TcpN
        <5>1. nbReponsesAuClient'[c] = TcpN /\ rendu'[c] = KO
          BY <1>4, <1>n, <3>2, <4>2, <4>4 DEF TcpRepondre, TcpInv, TcpTypes
        <5> QED BY <1>n, <3>2, <4>1, <4>2, <4>4, <5>1 DEF Alternance
      <4> QED BY <1>n, <4>2, <4>3, <4>4
    <3>3. CASE d = c /\ tcpLien[c] # "ouvert"
      BY <1>4, <2>1, <3>3 DEF TcpRepondre, TcpInv, TcpTypes, Alternance
    <3> QED BY <3>1, <3>2, <3>3
  <2> QED BY <2>2, <2>3 DEF TcpInv
<1>5. ASSUME NEW c \in TcpClients, TcpFermer(c) PROVE TcpInv'
  BY <1>5 DEF TcpFermer, TcpInv, TcpTypes, Alternance
<1>6. ASSUME NEW c \in TcpClients, TcpConnecter(c) PROVE TcpInv'
  BY <1>6, <1>n DEF TcpConnecter, TcpInv, TcpTypes, Alternance
<1>7. ASSUME NEW c \in TcpClients, TcpTuer(c) PROVE TcpInv'
  BY <1>7, <1>n DEF TcpTuer, TcpInv, TcpTypes, Alternance
<1>8. CASE UNCHANGED tcpVars
  BY <1>8 DEF tcpVars, TcpInv, TcpTypes, Alternance
<1> QED BY <1>1, <1>2, <1>3, <1>4, <1>5, <1>6, <1>7, <1>8 DEF TcpNext, TcpTravail

(* A server of Cours8 never ends because a client left, and the answers    *)
(* carry the numbers the clients expect.                                   *)
THEOREM ServeurSurvit == TcpSpec => []Survit
<1>1. TcpInv => Survit
  BY DEF TcpInv, TcpTypes, Alternance, Survit, TcpN
<1> QED BY <1>1, TcpInitialisation, TcpPas, PTL DEF TcpSpec

-----------------------------------------------------------------------------
(* The bank account. *)

(* The critical section, and what a process killed in it still holds. *)
Dedans(v) == bkpc[v] \in {"lire", "creer", "tronquer", "ecrire", "poster", "tue"}

BkTypes ==
  /\ ficSync \in {0, 1} /\ verses \in SUBSET Virements
  /\ bkpc \in [Virements -> {"dehors", "attendre", "lire", "creer", "tronquer", "ecrire",
                             "poster", "tue", "fini"}]
  /\ compte \in {"absent", "vide", "ecrit"} /\ montant \in Nat /\ solde \in [Virements -> Nat]

BkExclusion ==
  /\ ficSync = 1 => \A v \in Virements : ~Dedans(v)
  /\ ficSync = 0 => \E v \in Virements : Dedans(v)
  /\ \A v, w \in Virements : Dedans(v) /\ Dedans(w) => v = w

Livres ==
  /\ compte = "absent" => verses = {}
  /\ compte = "vide" => \E v \in Virements : bkpc[v] \in {"creer", "ecrire", "tue"}
  /\ compte = "ecrit" => montant = Cardinality(verses)
  /\ \A v \in Virements :
       /\ v \in verses => bkpc[v] \in {"poster", "tue", "fini"}
       /\ bkpc[v] = "creer" => verses = {}
       /\ bkpc[v] \in {"dehors", "attendre", "lire", "creer"} => solde[v] = 0
       /\ bkpc[v] \in {"tronquer", "ecrire"} => solde[v] = Cardinality(verses)

BkInv == BkTypes /\ BkExclusion /\ Livres

-----------------------------------------------------------------------------
LEMMA VersesFinis == ASSUME BkTypes PROVE IsFiniteSet(verses) /\ Cardinality(verses) \in Nat
BY BanqueAssumption, FS_Subset, FS_CardinalityType DEF BkTypes

LEMMA BkInitialisation == BkInit => BkInv
BY FS_EmptySet DEF BkInit, BkInv, BkTypes, BkExclusion, Livres, Dedans

LEMMA BkPas == BkInv /\ [BkNext]_bkVars => BkInv'
<1> SUFFICES ASSUME BkInv, [BkNext]_bkVars PROVE BkInv'
  OBVIOUS
<1>f. IsFiniteSet(verses) /\ Cardinality(verses) \in Nat
  BY VersesFinis DEF BkInv
<1> USE DEF BkInv, BkTypes, BkExclusion, Livres, Dedans, BkVa
<1>1. ASSUME NEW v \in Virements, Lancer(v) PROVE BkInv'
  BY <1>1 DEF Lancer
<1>2. ASSUME NEW v \in Virements, BkTuer(v) PROVE BkInv'
  BY <1>2 DEF BkTuer
<1>3. ASSUME NEW v \in Virements, BkAttendre(v) PROVE BkInv'
  BY <1>3 DEF BkAttendre
<1>4. ASSUME NEW v \in Virements, LireCompte(v) PROVE BkInv'
  <2>1. compte # "vide"
    BY <1>4 DEF LireCompte
  <2>2. CASE compte = "absent"
    BY <1>4, <2>2, FS_EmptySet DEF LireCompte
  <2>3. CASE compte = "ecrit"
    BY <1>4, <2>3 DEF LireCompte
  <2> QED BY <2>1, <2>2, <2>3
<1>5. ASSUME NEW v \in Virements, Creer(v) PROVE BkInv'
  BY <1>5, FS_EmptySet DEF Creer
<1>6. ASSUME NEW v \in Virements, Tronquer(v) PROVE BkInv'
  BY <1>6 DEF Tronquer
<1>7. ASSUME NEW v \in Virements, EcrireCompte(v) PROVE BkInv'
  <2>1. v \notin verses /\ solde[v] = Cardinality(verses)
    BY <1>7 DEF EcrireCompte
  <2>2. Cardinality(verses \cup {v}) = Cardinality(verses) + 1
    BY <1>f, <2>1, FS_AddElement
  <2> QED BY <1>7, <1>f, <2>1, <2>2 DEF EcrireCompte
<1>8. ASSUME NEW v \in Virements, BkPoster(v) PROVE BkInv'
  BY <1>8 DEF BkPoster
<1>9. CASE UNCHANGED bkVars
  BY <1>9 DEF bkVars
<1> QED BY <1>1, <1>2, <1>3, <1>4, <1>5, <1>6, <1>7, <1>8, <1>9 DEF BkNext, BkEtape

(* Neither the other processes nor a crash make an amount wrong that is    *)
(* read.                                                                   *)
THEOREM CompteExact == BkSpec => []SoldeExact
<1>1. BkInv => SoldeExact
  BY DEF BkInv, BkTypes, BkExclusion, Livres, Dedans, SoldeExact, Tue
<1> QED BY <1>1, BkInitialisation, BkPas, PTL DEF BkSpec

-----------------------------------------------------------------------------
(* The chat server of NET4102. *)

PointsRedacteur == EnService \cup {"dehors", "verifier", "refuse", "deborde", "echec", "fini"}
PointsLecteur == {"dehors", "choisir", "ranger", "inscrit", "deborde"}
Lignes == {"ligne", "quit", "reste"}

TcTypes ==
  /\ sock_reader \in [1 .. MAX_READER -> Lecteurs \cup {Libre}]
  /\ sock_writer \in [1 .. MAX_WRITER -> Redacteurs \cup {Libre}]
  /\ tcServeur \in {"marche", "mort"}
  /\ tcpc \in [tcClients -> PointsRedacteur \cup PointsLecteur]
  /\ \A w \in Redacteurs : tcpc[w] \in PointsRedacteur
  /\ \A r \in Lecteurs : tcpc[r] \in PointsLecteur
  /\ tci \in [tcClients -> Nat]
  /\ message \in [Redacteurs -> Lignes \cup {"inconnu"}] /\ tube \in [Redacteurs -> Seq(Lignes)]
  /\ lien \in [tcClients -> {"ouvert", "clos", "rompu"}]

(* The threads that look for a slot, those that own one, and what a slot   *)
(* designates once its owner has left with pthread_exit.                   *)
Chercheurs == {w \in Redacteurs : tcpc[w] \in {"choisir", "ranger"}}
Proprietaires == {w \in Redacteurs : tcpc[w] \in EnService \ {"choisir", "ranger"}}
Parle(w) == tcpc[w] # "echec"

(* A thread that failed had met an end of a connection. *)
EchecExplique == \A w \in Redacteurs : tcpc[w] = "echec" => \E c \in Lecteurs \cup {w} : lien[c] # "ouvert"

(* As long as the searches for a writer's slot do not overlap. *)
SuiviRedacteurs ==
  /\ \A v, w \in Chercheurs : v = w
  /\ \A w \in Redacteurs : tcpc[w] = "ranger" => tci[w] \in 1 .. MAX_WRITER /\ sock_writer[tci[w]] = Libre
  /\ \A w \in Proprietaires : tci[w] \in 1 .. MAX_WRITER /\ sock_writer[tci[w]] = w
  /\ \A i \in 1 .. MAX_WRITER : sock_writer[i] # Libre =>
       /\ tci[sock_writer[i]] = i
       /\ sock_writer[i] \in Proprietaires \/ tcpc[sock_writer[i]] = "echec"
  /\ \A v, w \in Redacteurs : Parle(v) /\ v \in Occupants(sock_writer) /\ MemePseudo(v, w) =>
       w \notin Chercheurs /\ (Parle(w) /\ w \in Occupants(sock_writer) => v = w)

(* As long as those for a reader's slot do not. *)
Rangeurs == {r \in Lecteurs : tcpc[r] = "ranger"}
SuiviLecteurs ==
  /\ \A r, s \in Rangeurs : r = s
  /\ \A r \in Lecteurs : tcpc[r] = "ranger" => tci[r] \in 1 .. MAX_READER /\ sock_reader[tci[r]] = Libre
  /\ \A r \in Lecteurs : tcpc[r] = "inscrit" => tci[r] \in 1 .. MAX_READER /\ sock_reader[tci[r]] = r

TcInv ==
  /\ TcTypes /\ EchecExplique
  /\ "writer" \notin tcCourse => SuiviRedacteurs
  /\ "reader" \notin tcCourse => SuiviLecteurs

-----------------------------------------------------------------------------
LEMMA TcRoles ==
  /\ Libre \notin Redacteurs /\ Libre \notin Lecteurs /\ Redacteurs \cap Lecteurs = {}
  /\ Redacteurs \subseteq tcClients /\ Lecteurs \subseteq tcClients
  /\ MAX_WRITER \in Nat \ {0} /\ MAX_READER \in Nat \ {0}
BY TchatonAssumption DEF tcClients

LEMMA TcInitialisation == TcInit => TcInv
<1> SUFFICES ASSUME TcInit PROVE TcInv
  OBVIOUS
<1> USE DEF TcInit
<1>1. TcTypes
  BY TcRoles DEF TcTypes, PointsRedacteur, PointsLecteur, Lignes, EnService
<1>2. EchecExplique
  BY TcRoles DEF EchecExplique
<1>3. SuiviRedacteurs
  <2>1. \A w \in Redacteurs : tcpc[w] = "dehors"
    BY TcRoles
  <2>2. Chercheurs = {} /\ Proprietaires = {}
    BY <2>1 DEF Chercheurs, Proprietaires, EnService
  <2>3. Occupants(sock_writer) = {}
    BY DEF Occupants, Range
  <2> QED BY <2>1, <2>2, <2>3 DEF SuiviRedacteurs
<1>4. SuiviLecteurs
  BY TcRoles DEF SuiviLecteurs, Rangeurs
<1> QED BY <1>1, <1>2, <1>3, <1>4 DEF TcInv

(* The slot that a search finds is free. *)
LEMMA PremierLibre ==
  ASSUME NEW n \in Nat, NEW S, NEW sock \in [1 .. n -> S], Libres(sock) # {}
  PROVE  Min(Libres(sock)) \in 1 .. n /\ sock[Min(Libres(sock))] = Libre
<1>1. Libres(sock) \subseteq 1 .. n /\ Libres(sock) \subseteq Nat
  BY DEF Libres
<1>2. Min(Libres(sock)) \in Libres(sock)
  BY <1>1, PlusPetit
<1> QED BY <1>1, <1>2 DEF Libres

LEMMA TcTypesPas == TcTypes /\ [TcNext]_tcVars => TcTypes'
<1> SUFFICES ASSUME TcTypes, [TcNext]_tcVars PROVE TcTypes'
  OBVIOUS
<1> USE TcRoles
\* a thread goes from one point of its code to another
<1>0. ASSUME NEW c \in tcClients, NEW p,
             p \in PointsRedacteur \cup PointsLecteur,
             c \in Redacteurs => p \in PointsRedacteur, c \in Lecteurs => p \in PointsLecteur, Va(c, p)
      PROVE  /\ tcpc' \in [tcClients -> PointsRedacteur \cup PointsLecteur]
             /\ \A w \in Redacteurs : tcpc'[w] \in PointsRedacteur
             /\ \A r \in Lecteurs : tcpc'[r] \in PointsLecteur
  BY <1>0 DEF Va, TcTypes
<1>1. ASSUME NEW c \in tcClients, TcConnecter(c) PROVE TcTypes'
  <2>1. PICK p \in {"choisir", "verifier"} : Va(c, p) /\ p = IF c \in Lecteurs THEN "choisir" ELSE "verifier"
    BY <1>1 DEF TcConnecter
  <2>2. /\ p \in PointsRedacteur \cup PointsLecteur
        /\ c \in Redacteurs => p \in PointsRedacteur
        /\ c \in Lecteurs => p \in PointsLecteur
    BY <2>1 DEF PointsRedacteur, PointsLecteur, EnService
  <2> QED BY <1>0, <1>1, <2>1, <2>2 DEF TcConnecter, TcTypes, tables, reseau
<1>2. ASSUME NEW w \in Redacteurs, TcEcrire(w) PROVE TcTypes'
  <2>1. tube[w] \in Seq(Lignes) /\ Append(tube[w], "ligne") \in Seq(Lignes) /\ Append(tube[w], "quit") \in Seq(Lignes)
    BY DEF TcTypes, Lignes
  <2>2. /\ tube' = [tube EXCEPT ![w] = Append(@, "ligne")] \/ tube' = [tube EXCEPT ![w] = Append(@, "quit")]
        /\ lien' = lien \/ lien' = [lien EXCEPT ![w] = "clos"]
    BY <1>2 DEF TcEcrire
  <2>3. tube' \in [Redacteurs -> Seq(Lignes)]
    BY <2>1, <2>2 DEF TcTypes
  <2>4. lien' \in [tcClients -> {"ouvert", "clos", "rompu"}]
    BY <2>2 DEF TcTypes
  <2> QED BY <1>2, <2>3, <2>4 DEF TcEcrire, TcTypes, tables
<1>3. ASSUME NEW c \in tcClients, TcPartir(c) PROVE TcTypes'
  BY <1>3 DEF TcPartir, TcTypes, tables
<1>4. ASSUME NEW w \in Redacteurs, TcVerifier(w) PROVE TcTypes'
  <2>1. /\ tcServeur' \in {"marche", "mort"} /\ UNCHANGED <<tables, tci, message, tube, lien>>
        /\ (\E p \in {"refuse", "choisir"} : Va(w, p)) \/ tcpc' = tcpc
    BY <1>4 DEF TcVerifier, TcTypes, reseau
  <2>2. \A p \in {"refuse", "choisir"} : p \in PointsRedacteur
    BY DEF PointsRedacteur, EnService
  <2> QED BY <1>0, <2>1, <2>2 DEF TcTypes, tables
<1>5. ASSUME NEW c \in tcClients, TcChoisir(c) PROVE TcTypes'
  <2>1. PICK p \in {"deborde", "ranger"} : Va(c, p)
    BY <1>5 DEF TcChoisir
  <2>2. p \in PointsRedacteur /\ p \in PointsLecteur
    BY DEF PointsRedacteur, PointsLecteur, EnService
  <2>3. tci' \in [tcClients -> Nat]
    <3> DEFINE sock == IF c \in Lecteurs THEN sock_reader ELSE sock_writer
    <3>1. CASE tci' = tci
      BY <3>1 DEF TcTypes
    <3>2. CASE Libres(sock) # {} /\ tci' = [tci EXCEPT ![c] = Min(Libres(sock))]
      <4>1. Libres(sock) \subseteq Nat
        BY DEF Libres, TcTypes
      <4>2. Min(Libres(sock)) \in Nat
        BY <3>2, <4>1, PlusPetit
      <4> QED BY <3>2, <4>2 DEF TcTypes
    <3> QED BY <1>5, <3>1, <3>2 DEF TcChoisir
  <2> QED BY <1>0, <1>5, <2>1, <2>2, <2>3 DEF TcChoisir, TcTypes, tables, reseau
<1>6. ASSUME NEW c \in tcClients, TcRanger(c) PROVE TcTypes'
  <2>1. CASE c \in Lecteurs
    <3>1. Va(c, "inscrit") /\ "inscrit" \in PointsLecteur /\ c \notin Redacteurs
      BY <1>6, <2>1 DEF TcRanger, PointsLecteur
    <3>2. sock_reader' \in [1 .. MAX_READER -> Lecteurs \cup {Libre}] /\ sock_writer' = sock_writer
      BY <1>6, <2>1, <3>1 DEF TcRanger, TcTypes
    <3> QED BY <1>0, <1>6, <3>1, <3>2 DEF TcRanger, TcTypes, reseau
  <2>2. CASE c \in Redacteurs
    <3>1. Va(c, "annoncer") /\ "annoncer" \in PointsRedacteur /\ c \notin Lecteurs
      BY <1>6, <2>2 DEF TcRanger, PointsRedacteur, EnService
    <3>2. sock_writer' \in [1 .. MAX_WRITER -> Redacteurs \cup {Libre}] /\ sock_reader' = sock_reader
      BY <1>6, <2>2, <3>1 DEF TcRanger, TcTypes
    <3> QED BY <1>0, <1>6, <3>1, <3>2 DEF TcRanger, TcTypes, reseau
  <2> QED BY <2>1, <2>2 DEF tcClients
<1>7. ASSUME NEW w \in Redacteurs, TcDiffuser(w) PROVE TcTypes'
  <2>1. tcServeur' \in {"marche", "mort"} /\ UNCHANGED <<tables, tci, message, tube, lien>>
    BY <1>7 DEF TcDiffuser, TcTypes, reseau
  <2>2. (\E p \in {"liberer", "recevoir", "echec"} : Va(w, p)) \/ tcpc' = tcpc
    BY <1>7 DEF TcDiffuser
  <2>3. \A p \in {"liberer", "recevoir", "echec"} : p \in PointsRedacteur
    BY DEF PointsRedacteur, EnService
  <2> QED BY <1>0, <2>1, <2>2, <2>3 DEF TcTypes, tables
<1>8. ASSUME NEW w \in Redacteurs, TcRecevoir(w) PROVE TcTypes'
  <2>1. UNCHANGED <<tables, tcServeur, tci, lien>>
    BY <1>8 DEF TcRecevoir
  <2>2. PICK p \in {"saluer", "diffuser", "echec"} : Va(w, p)
    BY <1>8 DEF TcRecevoir, Lire
  <2>3. p \in PointsRedacteur /\ w \notin Lecteurs /\ w \in tcClients
    BY DEF PointsRedacteur, EnService
  <2>4. message' \in [Redacteurs -> Lignes \cup {"inconnu"}] /\ tube' \in [Redacteurs -> Seq(Lignes)]
    <3>1. tube[w] \in Seq(Lignes)
      BY DEF TcTypes
    <3>2. CASE Lire(w)
      <4>1. PICK n \in 1 .. Len(tube[w]), suite \in {<<>>, <<"ligne">>, <<"reste">>}, m \in {"ligne", "quit", tube[w][1]} :
               /\ message' = [message EXCEPT ![w] = m]
               /\ tube' = [tube EXCEPT ![w] = suite \o SubSeq(@, n + 1, Len(@))]
        BY <3>2 DEF Lire
      <4>2. 1 \in 1 .. Len(tube[w]) /\ Len(tube[w]) \in Nat
        BY <3>1, <4>1
      <4>3. tube[w][1] \in Lignes
        BY <3>1, <4>2, ElementOfSeq
      <4>4. SubSeq(tube[w], n + 1, Len(tube[w])) \in Seq(Lignes)
        BY <3>1, <4>1, <4>2
      <4>5. suite \in Seq(Lignes)
        <5>1. <<>> \in Seq(Lignes) /\ <<"ligne">> \in Seq(Lignes) /\ <<"reste">> \in Seq(Lignes)
          BY DEF Lignes
        <5> QED BY <4>1, <5>1
      <4>6. suite \o SubSeq(tube[w], n + 1, Len(tube[w])) \in Seq(Lignes) /\ m \in Lignes
        BY <4>1, <4>3, <4>4, <4>5, ConcatProperties DEF Lignes
      <4> QED BY <4>1, <4>6 DEF TcTypes
    <3>3. CASE UNCHANGED <<message, tube>>
      BY <3>3 DEF TcTypes
    <3> QED BY <1>8, <3>2, <3>3 DEF TcRecevoir
  <2> QED BY <1>0, <2>1, <2>2, <2>3, <2>4 DEF TcTypes, tables
<1>9. ASSUME NEW w \in Redacteurs, TcLiberer(w) PROVE TcTypes'
  <2>1. Va(w, "fini") /\ "fini" \in PointsRedacteur /\ w \notin Lecteurs /\ w \in tcClients
    BY <1>9 DEF TcLiberer, PointsRedacteur
  <2>2. <<>> \in Seq(Lignes)
    OBVIOUS
  <2>3. /\ sock_writer' \in [1 .. MAX_WRITER -> Redacteurs \cup {Libre}]
        /\ tube' \in [Redacteurs -> Seq(Lignes)] /\ message' \in [Redacteurs -> Lignes \cup {"inconnu"}]
    BY <1>9, <2>2 DEF TcLiberer, TcTypes
  <2>4. UNCHANGED <<sock_reader, tcServeur, tci, lien>>
    BY <1>9 DEF TcLiberer
  <2> QED BY <1>0, <2>1, <2>3, <2>4 DEF TcTypes
<1>10. CASE UNCHANGED tcVars
  BY <1>10 DEF tcVars, tables, reseau, TcTypes
<1> QED BY <1>1, <1>2, <1>3, <1>4, <1>5, <1>6, <1>7, <1>8, <1>9, <1>10 DEF TcNext, TcService

LEMMA EchecPas == TcTypes /\ EchecExplique /\ [TcNext]_tcVars => EchecExplique'
<1> SUFFICES ASSUME TcTypes, EchecExplique, [TcNext]_tcVars, NEW w \in Redacteurs, tcpc'[w] = "echec"
    PROVE \E c \in Lecteurs \cup {w} : lien'[c] # "ouvert"
  BY DEF EchecExplique
<1> USE TcRoles
\* an end of a connection does not open again
<1>1. \A c \in tcClients : lien[c] # "ouvert" => lien'[c] # "ouvert"
  <2>1. ASSUME NEW c \in tcClients, TcConnecter(c) \/ TcPartir(c) \/ TcChoisir(c) \/ TcRanger(c)
        PROVE \A d \in tcClients : lien[d] # "ouvert" => lien'[d] # "ouvert"
    BY <2>1 DEF TcConnecter, TcPartir, TcChoisir, TcRanger, TcTypes, reseau
  <2>2. ASSUME NEW v \in Redacteurs,
               TcEcrire(v) \/ TcVerifier(v) \/ TcDiffuser(v) \/ TcRecevoir(v) \/ TcLiberer(v)
        PROVE \A d \in tcClients : lien[d] # "ouvert" => lien'[d] # "ouvert"
    BY <2>2 DEF TcEcrire, TcVerifier, TcDiffuser, TcRecevoir, TcLiberer, TcTypes, reseau
  <2> QED BY <2>1, <2>2 DEF TcNext, TcService, tcVars, reseau
<1>2. CASE tcpc[w] = "echec"
  <2>1. PICK c \in Lecteurs \cup {w} : lien[c] # "ouvert"
    BY <1>2 DEF EchecExplique
  <2> QED BY <1>1, <2>1
<1>3. CASE tcpc[w] # "echec"
  <2>1. ASSUME NEW c \in tcClients, TcConnecter(c) \/ TcChoisir(c) \/ TcRanger(c) PROVE FALSE
    BY <1>3, <2>1 DEF TcConnecter, TcChoisir, TcRanger, Va, TcTypes
  <2>2. ASSUME NEW v \in Redacteurs, TcVerifier(v) \/ TcLiberer(v) PROVE FALSE
    BY <1>3, <2>2 DEF TcVerifier, TcLiberer, Va, TcTypes
  <2>3. ASSUME NEW v \in Redacteurs, TcDiffuser(v) PROVE \E c \in Lecteurs \cup {w} : lien'[c] # "ouvert"
    <3>1. v = w /\ \E r \in Occupants(sock_reader) : lien[r] # "ouvert"
      BY <1>3, <2>3 DEF TcDiffuser, Va, TcTypes
    <3>2. Occupants(sock_reader) \subseteq Lecteurs
      BY DEF Occupants, Range, TcTypes
    <3> QED BY <1>1, <3>1, <3>2
  <2>4. ASSUME NEW v \in Redacteurs, TcRecevoir(v) PROVE \E c \in Lecteurs \cup {w} : lien'[c] # "ouvert"
    <3>1. v = w
      BY <1>3, <2>4 DEF TcRecevoir, Lire, Va, TcTypes
    <3>2. lien[w] = "rompu"
      BY <1>3, <2>4, <3>1 DEF TcRecevoir, Lire, Va, TcTypes
    <3> QED BY <1>1, <3>2
  <2>5. ~\E v \in Redacteurs : TcEcrire(v)
    BY <1>3 DEF TcEcrire
  <2>6. ~\E c \in tcClients : TcPartir(c)
    BY <1>3 DEF TcPartir
  <2>7. ~UNCHANGED tcVars
    BY <1>3 DEF tcVars
  <2> QED BY <2>1, <2>2, <2>3, <2>4, <2>5, <2>6, <2>7 DEF TcNext, TcService
<1> QED BY <1>2, <1>3

(* A reader's slot is written once, by the only thread that found it free. *)
LEMMA LecteursPas ==
  ASSUME TcTypes, "reader" \notin tcCourse => SuiviLecteurs, [TcNext]_tcVars, "reader" \notin tcCourse'
  PROVE  SuiviLecteurs'
<1> USE TcRoles
<1>1. SuiviLecteurs
  <2>1. tcCourse \subseteq tcCourse'
    BY DEF TcNext, TcService, TcConnecter, TcPartir, TcEcrire, TcVerifier, TcChoisir, TcRanger, TcDiffuser,
      TcRecevoir, TcLiberer, tcVars
  <2> QED BY <2>1
\* what leaves the readers' threads and their table alone keeps it
<1>2. ASSUME sock_reader' = sock_reader, \A r \in Lecteurs : tci'[r] = tci[r],
             \A r \in Lecteurs : tcpc'[r] \in {"ranger", "inscrit"} => tcpc'[r] = tcpc[r]
      PROVE  SuiviLecteurs'
  BY <1>1, <1>2 DEF SuiviLecteurs, Rangeurs
<1>3. ASSUME NEW v \in Redacteurs,
             TcEcrire(v) \/ TcVerifier(v) \/ TcDiffuser(v) \/ TcRecevoir(v) \/ TcLiberer(v)
      PROVE  SuiviLecteurs'
  <2>1. \A r \in Lecteurs : tcpc'[r] = tcpc[r] /\ tci'[r] = tci[r]
    BY <1>3 DEF TcEcrire, TcVerifier, TcDiffuser, TcRecevoir, TcLiberer, Lire, Va, TcTypes
  <2>2. sock_reader' = sock_reader
    BY <1>3 DEF TcEcrire, TcVerifier, TcDiffuser, TcRecevoir, TcLiberer, tables
  <2> QED BY <1>2, <2>1, <2>2
<1>4. ASSUME NEW c \in tcClients, TcConnecter(c) \/ TcPartir(c) PROVE SuiviLecteurs'
  BY <1>2, <1>4 DEF TcConnecter, TcPartir, Va, TcTypes, tables
<1>5. ASSUME NEW c \in Redacteurs, TcChoisir(c) \/ TcRanger(c) PROVE SuiviLecteurs'
  <2>1. \A r \in Lecteurs : tcpc'[r] = tcpc[r] /\ tci'[r] = tci[r]
    BY <1>5 DEF TcChoisir, TcRanger, Va, TcTypes
  <2>2. sock_reader' = sock_reader
    BY <1>5 DEF TcChoisir, TcRanger, tables
  <2> QED BY <1>2, <2>1, <2>2
<1>6. ASSUME NEW c \in Lecteurs, TcChoisir(c) PROVE SuiviLecteurs'
  <2>1. sock_reader' = sock_reader /\ \A r \in Lecteurs : tcpc[r] # "ranger"
    BY <1>6 DEF TcChoisir, tables
  <2>2. CASE Va(c, "deborde") /\ tci' = tci
    BY <1>2, <2>1, <2>2 DEF Va, TcTypes
  <2>3. CASE Libres(sock_reader) # {} /\ Va(c, "ranger") /\ tci' = [tci EXCEPT ![c] = Min(Libres(sock_reader))]
    <3>1. Min(Libres(sock_reader)) \in 1 .. MAX_READER /\ sock_reader[Min(Libres(sock_reader))] = Libre
      BY <2>3, PremierLibre DEF TcTypes
    <3>2. \A r \in Lecteurs : /\ tcpc'[r] = IF r = c THEN "ranger" ELSE tcpc[r]
                              /\ tci'[r] = IF r = c THEN Min(Libres(sock_reader)) ELSE tci[r]
      BY <2>3 DEF Va, TcTypes
    <3> QED BY <1>1, <2>1, <3>1, <3>2 DEF SuiviLecteurs, Rangeurs
  <2> QED BY <1>6, <2>2, <2>3 DEF TcChoisir
<1>7. ASSUME NEW c \in Lecteurs, TcRanger(c) PROVE SuiviLecteurs'
  <2>1. tcpc[c] = "ranger" /\ tci' = tci /\ c \notin Redacteurs
    BY <1>7 DEF TcRanger
  <2>2. sock_reader' = [sock_reader EXCEPT ![tci[c]] = c] /\ Va(c, "inscrit")
    BY <1>7, <2>1 DEF TcRanger
  <2>3. tci[c] \in 1 .. MAX_READER /\ sock_reader[tci[c]] = Libre
    BY <1>1, <2>1 DEF SuiviLecteurs
  <2>4. \A i \in 1 .. MAX_READER : sock_reader'[i] = IF i = tci[c] THEN c ELSE sock_reader[i]
    BY <2>2 DEF TcTypes
  <2>5. \A r \in Lecteurs : tcpc'[r] = IF r = c THEN "inscrit" ELSE tcpc[r]
    BY <2>2 DEF Va, TcTypes
  <2>6. \A r \in Lecteurs : r # c => tcpc[r] # "ranger"
    BY <1>1, <2>1 DEF SuiviLecteurs, Rangeurs
  <2>7. \A r \in Lecteurs : tcpc[r] = "inscrit" => tci[r] # tci[c]
    BY <1>1, <2>3 DEF SuiviLecteurs
  <2> QED BY <1>1, <2>1, <2>3, <2>4, <2>5, <2>6, <2>7 DEF SuiviLecteurs, Rangeurs
<1>8. CASE UNCHANGED tcVars
  BY <1>2, <1>8 DEF tcVars, tables
<1> QED BY <1>3, <1>4, <1>5, <1>6, <1>7, <1>8 DEF TcNext, TcService, tcClients

(* A step that leaves the writers' table alone, and lets no writer into a  *)
(* search, nor from a search into its service.                             *)
LEMMA TableIntacte ==
  ASSUME TcTypes, SuiviRedacteurs, sock_writer' = sock_writer,
         \A w \in Redacteurs : tci'[w] = tci[w],
         \A w \in Redacteurs : tcpc'[w] = "ranger" => tcpc[w] = "ranger",
         \A w \in Redacteurs : tcpc[w] = "echec" => tcpc'[w] = "echec",
         Chercheurs' \subseteq Chercheurs, Proprietaires' \subseteq Proprietaires,
         \A w \in Proprietaires : w \in Proprietaires' \/ tcpc'[w] = "echec"
  PROVE  SuiviRedacteurs'
<1>1. /\ \A v, w \in Chercheurs' : v = w
      /\ \A w \in Redacteurs : tcpc'[w] = "ranger" => tci'[w] \in 1 .. MAX_WRITER /\ sock_writer'[tci'[w]] = Libre
      /\ \A w \in Proprietaires' : tci'[w] \in 1 .. MAX_WRITER /\ sock_writer'[tci'[w]] = w
  BY DEF SuiviRedacteurs, Proprietaires
<1>2. ASSUME NEW i \in 1 .. MAX_WRITER, sock_writer'[i] # Libre
      PROVE  /\ tci'[sock_writer'[i]] = i
             /\ sock_writer'[i] \in Proprietaires' \/ tcpc'[sock_writer'[i]] = "echec"
  <2>1. sock_writer \in [1 .. MAX_WRITER -> Redacteurs \cup {Libre}]
    BY DEF TcTypes
  <2>2. sock_writer[i] \in Redacteurs
    BY ONLY <1>2, <2>1, sock_writer' = sock_writer
  <2> QED BY <1>2, <2>2 DEF SuiviRedacteurs
<1>3. ASSUME NEW v \in Redacteurs, NEW w \in Redacteurs, tcpc'[v] # "echec", v \in Occupants(sock_writer), MemePseudo(v, w)
      PROVE  w \notin Chercheurs' /\ (tcpc'[w] # "echec" /\ w \in Occupants(sock_writer) => v = w)
  <2>1. Parle(v) /\ (tcpc'[w] # "echec" => Parle(w))
    BY <1>3 DEF Parle
  <2> QED BY <1>3, <2>1 DEF SuiviRedacteurs
<1>4. Occupants(sock_writer)' = Occupants(sock_writer)
  BY DEF Occupants
<1> QED BY <1>1, <1>2, <1>3, <1>4 DEF SuiviRedacteurs, Parle, MemePseudo

(* Whom the table designates. *)
LEMMA QuiOccupe ==
  ASSUME NEW n \in Nat, NEW sock \in [1 .. n -> Redacteurs \cup {Libre}]
  PROVE  \A w : w \in Occupants(sock) <=> w # Libre /\ \E i \in 1 .. n : sock[i] = w
BY DEF Occupants, Range

LEMMA RedacteursPas ==
  ASSUME TcTypes, "writer" \notin tcCourse => SuiviRedacteurs, [TcNext]_tcVars, "writer" \notin tcCourse'
  PROVE  SuiviRedacteurs'
<1> USE TcRoles
<1>0. SuiviRedacteurs
  <2>1. tcCourse \subseteq tcCourse'
    BY DEF TcNext, TcService, TcConnecter, TcPartir, TcEcrire, TcVerifier, TcChoisir, TcRanger, TcDiffuser,
      TcRecevoir, TcLiberer, tcVars
  <2> QED BY <2>1
<1>1. ASSUME sock_writer' = sock_writer, tci' = tci, \A w \in Redacteurs : tcpc'[w] = tcpc[w] PROVE SuiviRedacteurs'
  <2>1. Chercheurs' = Chercheurs /\ Proprietaires' = Proprietaires
    BY <1>1 DEF Chercheurs, Proprietaires
  <2> QED BY <1>0, <1>1, <2>1, TableIntacte
\* one writer's thread moves outside a search, or ends
<1>2. ASSUME NEW w \in Redacteurs, NEW p, Va(w, p), sock_writer' = sock_writer, tci' = tci,
             \/ tcpc[w] \in {"dehors", "verifier", "choisir"} /\ p \in {"verifier", "refuse", "deborde"}
             \/ w \in Proprietaires /\ p \in {"recevoir", "diffuser", "saluer", "liberer", "echec"}
      PROVE  SuiviRedacteurs'
  <2>1. \A v \in Redacteurs : tcpc'[v] = IF v = w THEN p ELSE tcpc[v]
    BY <1>2 DEF Va, TcTypes
  <2>2. Chercheurs' \subseteq Chercheurs
    BY <1>2, <2>1 DEF Chercheurs, Proprietaires, EnService
  <2>3. Proprietaires' \subseteq Proprietaires
    BY <1>2, <2>1 DEF Proprietaires, EnService
  <2>4. \A v \in Proprietaires : v \in Proprietaires' \/ tcpc'[v] = "echec"
    BY <1>2, <2>1 DEF Proprietaires, EnService
  <2>5. \A v \in Redacteurs : tcpc'[v] = "ranger" => tcpc[v] = "ranger"
    BY <1>2, <2>1
  <2>6. \A v \in Redacteurs : tcpc[v] = "echec" => tcpc'[v] = "echec"
    BY <1>2, <2>1 DEF Proprietaires, EnService
  <2> QED BY <1>0, <1>2, <2>2, <2>3, <2>4, <2>5, <2>6, TableIntacte
<1>3. ASSUME NEW c \in tcClients, TcConnecter(c) \/ TcPartir(c) PROVE SuiviRedacteurs'
  <2>1. sock_writer' = sock_writer /\ tci' = tci
    BY <1>3 DEF TcConnecter, TcPartir, tables
  <2>2. CASE TcConnecter(c) /\ c \in Redacteurs
    BY <1>2, <2>1, <2>2 DEF TcConnecter
  <2>3. CASE ~(TcConnecter(c) /\ c \in Redacteurs)
    BY <1>1, <1>3, <2>1, <2>3 DEF TcConnecter, TcPartir, Va, TcTypes
  <2> QED BY <2>2, <2>3
<1>4. ASSUME NEW r \in Lecteurs, TcChoisir(r) \/ TcRanger(r) PROVE SuiviRedacteurs'
  <2>1. \A w \in Redacteurs : tcpc'[w] = tcpc[w] /\ tci'[w] = tci[w]
    BY <1>4 DEF TcChoisir, TcRanger, Va, TcTypes
  <2>2. sock_writer' = sock_writer
    BY <1>4 DEF TcChoisir, TcRanger, tables
  <2>3. Chercheurs' = Chercheurs /\ Proprietaires' = Proprietaires
    BY <2>1 DEF Chercheurs, Proprietaires
  <2> QED BY <1>0, <2>1, <2>2, <2>3, TableIntacte
<1>5. ASSUME NEW w \in Redacteurs, TcEcrire(w) PROVE SuiviRedacteurs'
  BY <1>1, <1>5 DEF TcEcrire, tables
<1>6. ASSUME NEW w \in Redacteurs, TcDiffuser(w) \/ TcRecevoir(w) PROVE SuiviRedacteurs'
  <2>1. sock_writer' = sock_writer /\ tci' = tci
    BY <1>6 DEF TcDiffuser, TcRecevoir, tables
  <2>2. w \in Proprietaires
    BY <1>6 DEF TcDiffuser, TcRecevoir, Proprietaires, EnService
  <2>3. tcpc' = tcpc \/ \E p \in {"recevoir", "diffuser", "saluer", "liberer", "echec"} : Va(w, p)
    BY <1>6 DEF TcDiffuser, TcRecevoir, Lire
  <2> QED BY <1>1, <1>2, <2>1, <2>2, <2>3
<1>7. ASSUME NEW w \in Redacteurs, TcVerifier(w) PROVE SuiviRedacteurs'
  <2>1. tcpc[w] = "verifier" /\ sock_writer' = sock_writer /\ tci' = tci
    BY <1>7 DEF TcVerifier, tables
  <2>2. CASE Va(w, "refuse")
    BY <1>2, <2>1, <2>2
  <2>3. CASE Va(w, "choisir") /\ FALSE \in Pris(w)
    <3>1. Chercheurs = {}
      <4>1. ~\E v \in Redacteurs : tcpc[v] \in {"choisir", "ranger"}
        BY <1>7 DEF TcVerifier
      <4> QED BY <4>1 DEF Chercheurs
    <3>2. \A v \in Occupants(sock_writer) : tcpc[v] # "echec" => ~MemePseudo(v, w)
      BY <2>3 DEF Pris
    <3>3. \A v \in Redacteurs : tcpc'[v] = IF v = w THEN "choisir" ELSE tcpc[v]
      BY <2>3 DEF Va, TcTypes
    <3>4. Chercheurs' = {w} /\ Proprietaires' = Proprietaires
      BY <2>1, <3>1, <3>3 DEF Chercheurs, Proprietaires, EnService
    <3>5. \A v \in Redacteurs : tcpc'[v] # "ranger" /\ (tcpc'[v] = "echec" <=> tcpc[v] = "echec")
      BY <2>1, <3>1, <3>3 DEF Chercheurs
    <3>6. ASSUME NEW i \in 1 .. MAX_WRITER, sock_writer[i] # Libre
          PROVE  /\ tci[sock_writer[i]] = i
                 /\ sock_writer[i] \in Proprietaires \/ tcpc'[sock_writer[i]] = "echec"
      <4>1. sock_writer[i] \in Redacteurs
        BY <3>6 DEF TcTypes
      <4> QED BY <1>0, <3>5, <3>6, <4>1 DEF SuiviRedacteurs
    <3>7. \A v, u \in Redacteurs : tcpc'[v] # "echec" /\ v \in Occupants(sock_writer) /\ MemePseudo(v, u) =>
            u # w /\ (tcpc'[u] # "echec" /\ u \in Occupants(sock_writer) => v = u)
      BY <1>0, <3>2, <3>5 DEF SuiviRedacteurs, Parle
    <3>8. Occupants(sock_writer)' = Occupants(sock_writer)
      BY <2>1 DEF Occupants
    <3> QED BY <1>0, <2>1, <3>4, <3>5, <3>6, <3>7, <3>8 DEF SuiviRedacteurs, Parle, MemePseudo
  <2>4. CASE tcpc' = tcpc
    BY <1>1, <2>1, <2>4
  <2> QED BY <1>7, <2>2, <2>3, <2>4 DEF TcVerifier, Pris
<1>8. ASSUME NEW w \in Redacteurs, TcChoisir(w) PROVE SuiviRedacteurs'
  <2>1. tcpc[w] = "choisir" /\ sock_writer' = sock_writer /\ w \notin Lecteurs
    BY <1>8 DEF TcChoisir, tables
  <2>2. CASE Va(w, "deborde") /\ tci' = tci
    BY <1>2, <2>1, <2>2
  <2>3. CASE Libres(sock_writer) # {} /\ Va(w, "ranger") /\ tci' = [tci EXCEPT ![w] = Min(Libres(sock_writer))]
    <3> DEFINE m == Min(Libres(sock_writer))
    <3>1. m \in 1 .. MAX_WRITER /\ sock_writer[m] = Libre
      BY <2>3, PremierLibre DEF TcTypes
    <3>2. \A v \in Redacteurs : /\ tcpc'[v] = IF v = w THEN "ranger" ELSE tcpc[v]
                                /\ tci'[v] = IF v = w THEN m ELSE tci[v]
      BY <2>3 DEF Va, TcTypes
    <3> HIDE DEF m
    <3>3. Chercheurs' = Chercheurs /\ Proprietaires' = Proprietaires /\ w \notin Proprietaires
      BY <2>1, <3>2 DEF Chercheurs, Proprietaires, EnService
    <3>4. \A v \in Redacteurs : tcpc'[v] = "ranger" => v = w
      BY <1>0, <2>1, <3>2 DEF SuiviRedacteurs, Chercheurs
    <3>5. ASSUME NEW i \in 1 .. MAX_WRITER, sock_writer[i] # Libre
          PROVE  /\ tci'[sock_writer[i]] = i
                 /\ sock_writer[i] \in Proprietaires \/ tcpc'[sock_writer[i]] = "echec"
      <4>1. sock_writer[i] \in Redacteurs
        BY <3>5 DEF TcTypes
      <4>2. sock_writer[i] # w
        BY <1>0, <2>1, <3>3, <3>5 DEF SuiviRedacteurs
      <4> QED BY <1>0, <3>2, <3>5, <4>1, <4>2 DEF SuiviRedacteurs
    <3>6. \A v \in Redacteurs : tcpc'[v] = "echec" <=> tcpc[v] = "echec"
      BY <2>1, <3>2
    <3>7. \A v \in Proprietaires : tci'[v] \in 1 .. MAX_WRITER /\ sock_writer[tci'[v]] = v
      BY <1>0, <3>2, <3>3 DEF SuiviRedacteurs, Proprietaires
    <3>8. Occupants(sock_writer)' = Occupants(sock_writer)
      BY <2>1 DEF Occupants
    <3>9. \A v, u \in Redacteurs : tcpc'[v] # "echec" /\ v \in Occupants(sock_writer) /\ MemePseudo(v, u) =>
            u \notin Chercheurs /\ (tcpc'[u] # "echec" /\ u \in Occupants(sock_writer) => v = u)
      BY <1>0, <3>6 DEF SuiviRedacteurs, Parle
    <3>10. \A v \in Redacteurs : tcpc'[v] = "ranger" => tci'[v] \in 1 .. MAX_WRITER /\ sock_writer[tci'[v]] = Libre
      BY <3>1, <3>2, <3>4
    <3> QED BY <1>0, <2>1, <3>3, <3>5, <3>7, <3>8, <3>9, <3>10 DEF SuiviRedacteurs, Parle, MemePseudo
  <2> QED BY <1>8, <2>1, <2>2, <2>3 DEF TcChoisir
<1>9. ASSUME NEW w \in Redacteurs, TcRanger(w) PROVE SuiviRedacteurs'
  <2>1. tcpc[w] = "ranger" /\ tci' = tci /\ w \notin Lecteurs /\ w \in Chercheurs
    BY <1>9 DEF TcRanger, Chercheurs
  <2>2. sock_writer' = [sock_writer EXCEPT ![tci[w]] = w] /\ Va(w, "annoncer")
    BY <1>9, <2>1 DEF TcRanger
  <2>3. tci[w] \in 1 .. MAX_WRITER /\ sock_writer[tci[w]] = Libre
    BY <1>0, <2>1 DEF SuiviRedacteurs
  <2>4. \A i \in 1 .. MAX_WRITER : sock_writer'[i] = IF i = tci[w] THEN w ELSE sock_writer[i]
    BY <2>2 DEF TcTypes
  <2>5. \A v \in Redacteurs : tcpc'[v] = IF v = w THEN "annoncer" ELSE tcpc[v]
    BY <2>2 DEF Va, TcTypes
  <2>6. Chercheurs' = {} /\ Proprietaires' = Proprietaires \cup {w} /\ w \notin Proprietaires
    BY <1>0, <2>1, <2>5 DEF SuiviRedacteurs, Chercheurs, Proprietaires, EnService
  <2>7. \A v : v \in Occupants(sock_writer)' <=> v \in Occupants(sock_writer) \/ v = w
    <3>1. sock_writer' \in [1 .. MAX_WRITER -> Redacteurs \cup {Libre}] /\ sock_writer \in [1 .. MAX_WRITER -> Redacteurs \cup {Libre}]
      BY <2>2 DEF TcTypes
    <3>2. \A v : v \in Occupants(sock_writer') <=> v # Libre /\ \E i \in 1 .. MAX_WRITER : sock_writer'[i] = v
      BY <3>1, QuiOccupe
    <3>3. \A v : v \in Occupants(sock_writer) <=> v # Libre /\ \E i \in 1 .. MAX_WRITER : sock_writer[i] = v
      BY <3>1, QuiOccupe
    <3> QED BY <2>3, <2>4, <3>2, <3>3 DEF Occupants
  <2>8. \A v \in Redacteurs : tcpc'[v] = "echec" <=> tcpc[v] = "echec"
    BY <2>1, <2>5
  <2>9. ASSUME NEW i \in 1 .. MAX_WRITER, sock_writer'[i] # Libre
        PROVE  /\ tci[sock_writer'[i]] = i
               /\ sock_writer'[i] \in Proprietaires' \/ tcpc'[sock_writer'[i]] = "echec"
    <3>1. CASE i = tci[w]
      BY <2>4, <2>6, <3>1
    <3>2. CASE i # tci[w]
      <4>1. sock_writer'[i] = sock_writer[i] /\ sock_writer[i] \in Redacteurs
        BY <2>4, <2>9, <3>2 DEF TcTypes
      <4> QED BY <1>0, <2>6, <2>8, <2>9, <4>1 DEF SuiviRedacteurs
    <3> QED BY <3>1, <3>2
  <2>10. \A v \in Proprietaires' : tci[v] \in 1 .. MAX_WRITER /\ sock_writer'[tci[v]] = v
    <3>1. \A v \in Proprietaires : tci[v] \in 1 .. MAX_WRITER /\ sock_writer[tci[v]] = v /\ v # Libre
      BY <1>0 DEF SuiviRedacteurs, Proprietaires
    <3> QED BY <2>3, <2>4, <2>6, <3>1
  <2>11. \A v \in Redacteurs : Parle(v) /\ v \in Occupants(sock_writer) => ~MemePseudo(v, w) /\ ~MemePseudo(w, v)
    BY <1>0, <2>1 DEF SuiviRedacteurs, MemePseudo
  <2>12. \A v, u \in Redacteurs : tcpc'[v] # "echec" /\ v \in Occupants(sock_writer)' /\ MemePseudo(v, u)
            /\ tcpc'[u] # "echec" /\ u \in Occupants(sock_writer)' => v = u
    BY <1>0, <2>7, <2>8, <2>11 DEF SuiviRedacteurs, Parle
  <2>13. \A v \in Redacteurs : tcpc'[v] # "ranger"
    BY <2>6 DEF Chercheurs
  <2> QED BY <2>1, <2>6, <2>9, <2>10, <2>12, <2>13 DEF SuiviRedacteurs, Parle, MemePseudo
<1>10. ASSUME NEW w \in Redacteurs, TcLiberer(w) PROVE SuiviRedacteurs'
  <2>1. tcpc[w] = "liberer" /\ tci' = tci /\ w \in Proprietaires
    BY <1>10 DEF TcLiberer, Proprietaires, EnService
  <2>2. sock_writer' = [sock_writer EXCEPT ![tci[w]] = Libre] /\ Va(w, "fini")
    BY <1>10 DEF TcLiberer
  <2>3. tci[w] \in 1 .. MAX_WRITER /\ sock_writer[tci[w]] = w
    BY <1>0, <2>1 DEF SuiviRedacteurs
  <2>4. \A i \in 1 .. MAX_WRITER : sock_writer'[i] = IF i = tci[w] THEN Libre ELSE sock_writer[i]
    BY <2>2 DEF TcTypes
  <2>5. \A v \in Redacteurs : tcpc'[v] = IF v = w THEN "fini" ELSE tcpc[v]
    BY <2>2 DEF Va, TcTypes
  <2>6. Chercheurs' = Chercheurs /\ Proprietaires' = Proprietaires \ {w}
    BY <2>1, <2>5 DEF Chercheurs, Proprietaires, EnService
  <2>7. \A v : v \in Occupants(sock_writer)' => v \in Occupants(sock_writer)
    <3>1. sock_writer' \in [1 .. MAX_WRITER -> Redacteurs \cup {Libre}] /\ sock_writer \in [1 .. MAX_WRITER -> Redacteurs \cup {Libre}]
      BY <2>2 DEF TcTypes
    <3>2. \A v : v \in Occupants(sock_writer') <=> v # Libre /\ \E i \in 1 .. MAX_WRITER : sock_writer'[i] = v
      BY <3>1, QuiOccupe
    <3>3. \A v : v \in Occupants(sock_writer) <=> v # Libre /\ \E i \in 1 .. MAX_WRITER : sock_writer[i] = v
      BY <3>1, QuiOccupe
    <3> QED BY <2>4, <3>2, <3>3 DEF Occupants
  <2>8. \A v \in Redacteurs : tcpc'[v] = "echec" <=> tcpc[v] = "echec"
    BY <2>1, <2>5
  <2>9. ASSUME NEW i \in 1 .. MAX_WRITER, sock_writer'[i] # Libre
        PROVE  /\ tci[sock_writer'[i]] = i
               /\ sock_writer'[i] \in Proprietaires' \/ tcpc'[sock_writer'[i]] = "echec"
    <3>1. i # tci[w] /\ sock_writer'[i] = sock_writer[i] /\ sock_writer[i] \in Redacteurs
      BY <2>4, <2>9 DEF TcTypes
    <3>2. tci[sock_writer[i]] = i /\ (sock_writer[i] \in Proprietaires \/ tcpc[sock_writer[i]] = "echec")
      BY <1>0, <2>9, <3>1 DEF SuiviRedacteurs
    <3> QED BY <2>6, <2>8, <3>1, <3>2
  <2>10. \A v \in Proprietaires' : tci[v] \in 1 .. MAX_WRITER /\ sock_writer'[tci[v]] = v
    <3>1. \A v \in Proprietaires : tci[v] \in 1 .. MAX_WRITER /\ sock_writer[tci[v]] = v /\ v # Libre
      BY <1>0 DEF SuiviRedacteurs, Proprietaires
    <3> QED BY <2>3, <2>4, <2>6, <3>1
  <2>11. ASSUME NEW v \in Redacteurs, tcpc'[v] = "ranger" PROVE tci[v] \in 1 .. MAX_WRITER /\ sock_writer'[tci[v]] = Libre
    <3>1. tcpc[v] = "ranger"
      BY <2>5, <2>11
    <3> QED BY <1>0, <2>4, <3>1 DEF SuiviRedacteurs
  <2>12. \A v, u \in Redacteurs : tcpc'[v] # "echec" /\ v \in Occupants(sock_writer)' /\ MemePseudo(v, u) =>
            u \notin Chercheurs' /\ (tcpc'[u] # "echec" /\ u \in Occupants(sock_writer)' => v = u)
    BY <1>0, <2>6, <2>7, <2>8 DEF SuiviRedacteurs, Parle
  <2> QED BY <1>0, <2>1, <2>6, <2>9, <2>10, <2>11, <2>12 DEF SuiviRedacteurs, Parle, MemePseudo
<1>11. CASE UNCHANGED tcVars
  BY <1>1, <1>11 DEF tcVars, tables
<1> QED BY <1>3, <1>4, <1>5, <1>6, <1>7, <1>8, <1>9, <1>10, <1>11 DEF TcNext, TcService, tcClients

LEMMA TcPas == TcInv /\ [TcNext]_tcVars => TcInv'
BY TcTypesPas, EchecPas, RedacteursPas, LecteursPas DEF TcInv

(* For any tables, clients and pseudos, as long as two searches of a kind  *)
(* do not overlap, every thread in service owns the slot it will reset,    *)
(* and a slot is lost only to a thread that met a broken connection.       *)
THEOREM PlacesTenues == TcSpec => []Places
<1>1. TcInv => Places
  <2> SUFFICES ASSUME TcInv PROVE Places
    OBVIOUS
  <2> USE TcRoles
  <2>1. ASSUME "writer" \notin tcCourse
        PROVE  /\ \A w \in Redacteurs :
                    tcpc[w] \in EnService \ {"choisir", "ranger"} => sock_writer[tci[w]] = w
               /\ \A v, w \in {x \in Occupants(sock_writer) : tcpc[x] # "echec"} :
                    MemePseudo(v, w) => v = w
               /\ \A w \in Occupants(sock_writer) : tcpc[w] \notin EnService =>
                    tcpc[w] = "echec" /\ \E c \in Lecteurs \cup {w} : lien[c] # "ouvert"
    <3>1. SuiviRedacteurs /\ TcTypes /\ EchecExplique
      BY <2>1 DEF TcInv
    <3>2. \A w : w \in Occupants(sock_writer) <=> w # Libre /\ \E i \in 1 .. MAX_WRITER : sock_writer[i] = w
      BY <3>1, QuiOccupe DEF TcTypes
    <3>3. Occupants(sock_writer) \subseteq Redacteurs
      BY <3>1, <3>2 DEF TcTypes
    <3>4. \A w \in Occupants(sock_writer) : w \in Proprietaires \/ tcpc[w] = "echec"
      BY <3>1, <3>2 DEF SuiviRedacteurs
    <3>5. \A w \in Redacteurs : tcpc[w] \in EnService \ {"choisir", "ranger"} => sock_writer[tci[w]] = w
      BY <3>1 DEF SuiviRedacteurs, Proprietaires
    <3>6. \A v, w \in {x \in Occupants(sock_writer) : tcpc[x] # "echec"} : MemePseudo(v, w) => v = w
      BY <3>1, <3>3 DEF SuiviRedacteurs, Parle
    <3>7. ASSUME NEW w \in Occupants(sock_writer), tcpc[w] \notin EnService
          PROVE  tcpc[w] = "echec" /\ \E c \in Lecteurs \cup {w} : lien[c] # "ouvert"
      <4>1. tcpc[w] = "echec"
        BY <3>4, <3>7 DEF Proprietaires
      <4> QED BY <3>1, <3>3, <4>1 DEF EchecExplique
    <3> QED BY <3>5, <3>6, <3>7
  <2>2. ASSUME "reader" \notin tcCourse PROVE \A r \in Lecteurs : tcpc[r] = "inscrit" => sock_reader[tci[r]] = r
    BY <2>2 DEF TcInv, SuiviLecteurs
  <2> QED BY <2>1, <2>2 DEF Places
<1> QED BY <1>1, TcInitialisation, TcPas, PTL DEF TcSpec

-----------------------------------------------------------------------------
(* The chat server of CSC4103. *)

ChLiens == {"dehors", "connecte", "ouvert", "clos", "rompu"}
Sondes == {"rien", "in", "hup"}

ChTypes ==
  /\ boucle \in {"poll", "ecouter", "pid", "balayer", "lire", "bloque", "mort"} /\ rang \in Nat
  /\ fds \in Seq(ChClients \cup {Ignore}) /\ revents \in Seq(Sondes)
  /\ clients \in Seq(ChClients) /\ chFile \in Seq(ChClients) /\ nouveau \in ChClients \cup {Ignore}
  /\ chLien \in [ChClients -> ChLiens] /\ reste \in SUBSET ChClients

Distincts(s) == \A i, j \in 1 .. Len(s) : s[i] = s[j] => i = j
Parti(c) == chLien[c] \in {"clos", "rompu"}

(* A connection is on its way to accept, or accepted, or in the structures *)
(* of the server, once.                                                    *)
ChPlaces ==
  /\ \A i, j \in 1 .. Len(fds) : fds[i] = fds[j] /\ fds[i] # Ignore => i = j
  /\ Distincts(clients) /\ Distincts(chFile)
  /\ \A c \in Range(chFile) : c \notin Range(fds) /\ c \notin Range(clients) /\ c # nouveau
  /\ nouveau \notin Range(fds) \ {Ignore} /\ nouveau \notin Range(clients)
  /\ \A c \in ChClients : chLien[c] = "dehors" =>
       c \notin Range(fds) /\ c \notin Range(clients) /\ c \notin Range(chFile) /\ c # nouveau

(* What the pass has still to examine agrees with the array. *)
ChPasse ==
  /\ boucle = "ecouter" => chFile # <<>>
  /\ boucle = "pid" => nouveau # Ignore
  /\ boucle = "bloque" => chLien[Distrait] \in {"ouvert", "clos", "rompu"}
  /\ boucle \in {"ecouter", "pid", "balayer", "lire", "bloque"} =>
       /\ rang # 0 /\ Len(revents) = Len(fds)
       /\ \A i \in 1 .. Len(fds) : revents[i] = "hup" /\ fds[i] # Ignore =>
            chLien[fds[i]] = "rompu" \/ "revents" \in chTas
  /\ boucle = "lire" => rang \in 1 .. Len(fds) /\ fds[rang] \in Range(clients)

(* Who is in one structure and not in the other. *)
ChAccord ==
  /\ \A c \in Suivis \ Range(clients) : Parti(c)
  /\ \A c \in Range(clients) \ Suivis : chLien[c] = "rompu" \/ "revents" \in chTas

MortExpliquee == boucle = "mort" =>
  \/ \E c \in ChClients : Parti(c)
  \/ nouveau # Ignore /\ Len(fds) + 1 = MAX_CLIENTS
  \/ chTas # {}

ChInv == ChTypes /\ ChPlaces /\ ChPasse /\ ChAccord /\ MortExpliquee

(* What sequences contain. *)
LEMMA Contenu ==
  ASSUME NEW S, NEW s \in Seq(S)
  PROVE  /\ Len(s) \in Nat /\ Range(s) \subseteq S
         /\ \A x : x \in Range(s) <=> \E i \in 1 .. Len(s) : s[i] = x
<1>1. DOMAIN s = 1 .. Len(s) /\ Len(s) \in Nat
  OBVIOUS
<1>2. \A x : x \in Range(s) <=> \E i \in 1 .. Len(s) : s[i] = x
  BY <1>1 DEF Range
<1>3. \A i \in 1 .. Len(s) : s[i] \in S
  OBVIOUS
<1> QED BY <1>1, <1>2, <1>3

LEMMA ContenuAppend ==
  ASSUME NEW S, NEW s \in Seq(S), NEW e \in S
  PROVE  /\ Append(s, e) \in Seq(S) /\ Range(Append(s, e)) = Range(s) \cup {e}
         /\ Distincts(s) /\ e \notin Range(s) => Distincts(Append(s, e))
<1> DEFINE t == Append(s, e)
<1>1. t \in Seq(S) /\ Len(t) = Len(s) + 1 /\ Len(s) \in Nat /\ t[Len(s) + 1] = e /\ \A i \in 1 .. Len(s) : t[i] = s[i]
  BY AppendProperties, LenProperties
<1> HIDE DEF t
<1>2. \A i \in 1 .. Len(t) : i \in 1 .. Len(s) \/ i = Len(s) + 1
  BY <1>1
<1>3. \A i \in 1 .. Len(s) + 1 : i \in 1 .. Len(t)
  BY <1>1
<1>4. \A i \in 1 .. Len(s) : i \in 1 .. Len(s) + 1
  BY <1>1
<1>5. Len(s) + 1 \in 1 .. Len(s) + 1
  BY <1>1
<1>6. \A x : x \in Range(t) <=> \E i \in 1 .. Len(t) : t[i] = x
  BY <1>1, Contenu
<1>7. \A x : x \in Range(s) <=> \E i \in 1 .. Len(s) : s[i] = x
  BY Contenu
<1>8. Range(t) = Range(s) \cup {e}
  BY <1>1, <1>2, <1>3, <1>4, <1>5, <1>6, <1>7
<1>9. ASSUME Distincts(s), e \notin Range(s) PROVE Distincts(t)
  BY <1>1, <1>2, <1>7, <1>9 DEF Distincts
<1> QED BY <1>1, <1>8, <1>9 DEF t

LEMMA ContenuDevant ==
  ASSUME NEW S, NEW s \in Seq(S), NEW e \in S
  PROVE  /\ <<e>> \o s \in Seq(S) /\ Range(<<e>> \o s) = Range(s) \cup {e}
         /\ Distincts(s) /\ e \notin Range(s) => Distincts(<<e>> \o s)
<1> DEFINE t == <<e>> \o s
<1>1. <<e>> \in Seq(S) /\ Len(<<e>>) = 1 /\ <<e>>[1] = e /\ Len(s) \in Nat
  BY LenProperties
<1>2. t \in Seq(S) /\ Len(t) = 1 + Len(s) /\ \A i \in 1 .. 1 + Len(s) : t[i] = IF i <= 1 THEN <<e>>[i] ELSE s[i - 1]
  BY <1>1, ConcatProperties
<1> HIDE DEF t
<1>3. 1 \in 1 .. Len(t) /\ t[1] = e
  BY <1>1, <1>2
<1>4. ASSUME NEW i \in 1 .. Len(s) PROVE i + 1 \in 1 .. Len(t) /\ t[i + 1] = s[i]
  <2>1. i + 1 \in 1 .. 1 + Len(s) /\ ~(i + 1 <= 1) /\ (i + 1) - 1 = i
    BY <1>1
  <2> QED BY <1>2, <2>1
<1>5. ASSUME NEW i \in 1 .. Len(t), i # 1 PROVE i - 1 \in 1 .. Len(s) /\ t[i] = s[i - 1]
  <2>1. i \in 1 .. 1 + Len(s) /\ ~(i <= 1) /\ i - 1 \in 1 .. Len(s)
    BY <1>1, <1>2, <1>5
  <2> QED BY <1>2, <2>1
<1>6. \A x : x \in Range(t) <=> \E i \in 1 .. Len(t) : t[i] = x
  BY <1>2, Contenu
<1>7. \A x : x \in Range(s) <=> \E i \in 1 .. Len(s) : s[i] = x
  BY Contenu
<1>8. Range(t) = Range(s) \cup {e}
  <2>1. ASSUME NEW x \in Range(t) PROVE x \in Range(s) \cup {e}
    <3>1. PICK i \in 1 .. Len(t) : t[i] = x
      BY <1>6, <2>1
    <3>2. CASE i = 1
      BY <1>3, <3>1, <3>2
    <3>3. CASE i # 1
      <4>1. i - 1 \in 1 .. Len(s) /\ s[i - 1] = x
        BY <1>5, <3>1, <3>3
      <4> QED BY <1>7, <4>1
    <3> QED BY <3>2, <3>3
  <2>2. ASSUME NEW x \in Range(s) PROVE x \in Range(t)
    <3>1. PICK i \in 1 .. Len(s) : s[i] = x
      BY <1>7, <2>2
    <3>2. i + 1 \in 1 .. Len(t) /\ t[i + 1] = x
      BY <1>4, <3>1
    <3> QED BY <1>6, <3>2
  <2>3. e \in Range(t)
    BY <1>3, <1>6
  <2> QED BY <2>1, <2>2, <2>3
<1>9. ASSUME Distincts(s), e \notin Range(s) PROVE Distincts(t)
  <2>1. ASSUME NEW i \in 1 .. Len(t), NEW j \in 1 .. Len(t), t[i] = t[j], i # 1, j # 1 PROVE i = j
    <3>1. i - 1 \in 1 .. Len(s) /\ j - 1 \in 1 .. Len(s) /\ s[i - 1] = s[j - 1]
      BY <1>5, <2>1
    <3>2. i - 1 = j - 1
      BY <1>9, <3>1 DEF Distincts
    <3> QED BY <1>2, <3>1, <3>2
  <2>2. ASSUME NEW i \in 1 .. Len(t), i # 1 PROVE t[i] # t[1]
    <3>1. i - 1 \in 1 .. Len(s) /\ t[i] = s[i - 1]
      BY <1>5, <2>2
    <3> QED BY <1>3, <1>7, <1>9, <3>1
  <2> QED BY <2>1, <2>2 DEF Distincts
<1> QED BY <1>2, <1>8, <1>9 DEF t

LEMMA ContenuTail ==
  ASSUME NEW S, NEW s \in Seq(S), s # <<>>
  PROVE  /\ Tail(s) \in Seq(S) /\ Head(s) \in Range(s) /\ Range(Tail(s)) \subseteq Range(s)
         /\ Distincts(s) => Distincts(Tail(s)) /\ Head(s) \notin Range(Tail(s))
<1> DEFINE t == Tail(s)
<1>1. Len(s) \in Nat /\ Len(s) # 0
  BY EmptySeq
<1>2. t \in Seq(S) /\ Len(t) = Len(s) - 1 /\ \A i \in 1 .. Len(s) - 1 : t[i] = s[i + 1]
  BY <1>1, HeadTailProperties
<1>3. Head(s) = s[1] /\ 1 \in 1 .. Len(s)
  BY <1>1
<1> HIDE DEF t
<1>4. \A i \in 1 .. Len(t) : i + 1 \in 1 .. Len(s) /\ i + 1 # 1 /\ t[i] = s[i + 1]
  BY <1>1, <1>2
<1>5. \A x : x \in Range(t) <=> \E i \in 1 .. Len(t) : t[i] = x
  BY <1>2, Contenu
<1>6. \A x : x \in Range(s) <=> \E i \in 1 .. Len(s) : s[i] = x
  BY Contenu
<1>7. Range(t) \subseteq Range(s) /\ Head(s) \in Range(s)
  BY <1>3, <1>4, <1>5, <1>6
<1>8. ASSUME Distincts(s) PROVE Distincts(t) /\ Head(s) \notin Range(t)
  <2>1. \A i, j \in 1 .. Len(t) : i + 1 = j + 1 => i = j
    BY <1>1, <1>2
  <2>2. Distincts(t)
    BY <1>4, <1>8, <2>1 DEF Distincts
  <2>3. Head(s) \notin Range(t)
    BY <1>3, <1>4, <1>5, <1>8 DEF Distincts
  <2> QED BY <2>2, <2>3
<1> QED BY <1>2, <1>7, <1>8 DEF t

LEMMA ContenuSansUn ==
  ASSUME NEW S, NEW s \in Seq(S), NEW i \in 1 .. Len(s), Distincts(s)
  PROVE  /\ RemoveAt(s, i) \in Seq(S) /\ Distincts(RemoveAt(s, i))
         /\ Range(RemoveAt(s, i)) = Range(s) \ {s[i]}
<1> DEFINE t == RemoveAt(s, i)
           de(j) == IF j < i THEN j ELSE j + 1
<1>1. Len(s) \in Nat /\ t \in Seq(S) /\ Len(t) = Len(s) - 1 /\ \A j \in 1 .. Len(s) - 1 : t[j] = s[de(j)]
  BY SansUn, LenProperties
<1> HIDE DEF t
<1>2. \A j \in 1 .. Len(t) : de(j) \in 1 .. Len(s) /\ de(j) # i /\ t[j] = s[de(j)]
  BY <1>1
<1>3. \A j, k \in 1 .. Len(t) : de(j) = de(k) => j = k
  BY <1>1
<1>4. \A k \in 1 .. Len(s) : k # i => \E j \in 1 .. Len(t) : de(j) = k
  <2> SUFFICES ASSUME NEW k \in 1 .. Len(s), k # i PROVE \E j \in 1 .. Len(t) : de(j) = k
    OBVIOUS
  <2>1. CASE k < i
    <3>1. k \in 1 .. Len(t) /\ de(k) = k
      BY <1>1, <2>1
    <3> QED BY <3>1
  <2>2. CASE ~(k < i)
    <3>1. k - 1 \in 1 .. Len(t) /\ de(k - 1) = k
      BY <1>1, <2>2
    <3> QED BY <3>1
  <2> QED BY <2>1, <2>2
<1> HIDE DEF de
<1>5. Distincts(t)
  BY <1>2, <1>3 DEF Distincts
<1>6. \A x : x \in Range(t) <=> \E j \in 1 .. Len(t) : t[j] = x
  BY <1>1, Contenu
<1>7. \A x : x \in Range(s) <=> \E j \in 1 .. Len(s) : s[j] = x
  BY Contenu
<1>8. Range(t) \subseteq Range(s) \ {s[i]}
  BY <1>2, <1>6, <1>7 DEF Distincts
<1>9. Range(s) \ {s[i]} \subseteq Range(t)
  BY <1>2, <1>4, <1>6, <1>7
<1> QED BY <1>1, <1>5, <1>8, <1>9 DEF t

LEMMA ChInitialisation == ChInit => ChInv
<1> SUFFICES ASSUME ChInit PROVE ChInv
  OBVIOUS
<1> USE ChatAssumption DEF ChInit
<1>1. fds \in Seq(ChClients \cup {Ignore}) /\ revents \in Seq(Sondes) /\ clients \in Seq(ChClients) /\ chFile \in Seq(ChClients)
  OBVIOUS
<1>2. ChTypes
  BY <1>1 DEF ChTypes, ChLiens
<1>3. Len(fds) = 0 /\ Len(clients) = 0 /\ Len(chFile) = 0
  OBVIOUS
<1>4. Range(fds) = {} /\ Range(clients) = {} /\ Range(chFile) = {}
  <2>1. DOMAIN <<>> = {}
    OBVIOUS
  <2> QED BY <2>1 DEF Range
<1>5. ChPlaces
  BY <1>3, <1>4 DEF ChPlaces, Distincts
<1>6. ChPasse /\ ChAccord /\ MortExpliquee
  BY <1>4 DEF ChPasse, ChAccord, Suivis, MortExpliquee
<1> QED BY <1>2, <1>5, <1>6 DEF ChInv

(* What never happens to a connection: that it opens again. *)
Avance ==
  /\ chLien' \in [ChClients -> ChLiens]
  /\ \A c \in ChClients : /\ chLien'[c] = "dehors" => chLien[c] = "dehors"
                          /\ Parti(c) => chLien'[c] \in {"clos", "rompu"}
                          /\ chLien[c] = "rompu" => chLien'[c] = "rompu"
                          /\ chLien[c] = "ouvert" => chLien'[c] \in {"ouvert", "clos", "rompu"}

(* A step outside the loop. *)
LEMMA ChDehors ==
  ASSUME ChInv, NEW c \in ChClients, ChConnecter(c) \/ EnvoyerPid(c) \/ ChEcrire(c) \/ ChPartir(c)
  PROVE  ChInv'
<1> USE DEF ChInv
<1>1. UNCHANGED <<boucle, rang, fds, revents, clients, nouveau, reste, chTas>>
  BY DEF ChConnecter, EnvoyerPid, ChEcrire, ChPartir
<1>2. Avance
  BY DEF ChConnecter, EnvoyerPid, ChEcrire, ChPartir, ChTypes, ChLiens, Avance, Parti
<1>3. /\ chFile' \in Seq(ChClients) /\ Distincts(chFile')
      /\ \A d \in Range(chFile') : d \notin Range(fds) /\ d \notin Range(clients) /\ d # nouveau /\ chLien'[d] # "dehors"
      /\ chFile # <<>> => chFile' # <<>>
  <2>1. CASE ChConnecter(c)
    <3>1. /\ chFile' = Append(chFile, c) /\ chLien[c] = "dehors" /\ chLien' = [chLien EXCEPT ![c] = "connecte"]
      BY <2>1 DEF ChConnecter
    <3>2. c \notin Range(fds) /\ c \notin Range(clients) /\ c \notin Range(chFile) /\ c # nouveau
      BY <3>1 DEF ChPlaces
    <3>3. /\ chFile' \in Seq(ChClients) /\ Range(chFile') = Range(chFile) \cup {c} /\ Distincts(chFile')
      BY <3>1, <3>2, ContenuAppend DEF ChTypes, ChPlaces
    <3>4. \A d \in Range(chFile) : d \in ChClients /\ chLien[d] # "dehors"
      BY Contenu DEF ChTypes, ChPlaces
    <3>5. \A d \in Range(chFile') : d \in ChClients /\ chLien'[d] # "dehors"
      BY <1>2, <3>1, <3>3, <3>4 DEF Avance, ChTypes
    <3>6. chFile' # <<>>
      BY <3>1, AppendProperties DEF ChTypes
    <3> QED BY <3>2, <3>3, <3>5, <3>6 DEF ChPlaces
  <2>2. CASE chFile' = chFile
    <3>1. \A d \in Range(chFile) : d \in ChClients /\ chLien[d] # "dehors"
      BY Contenu DEF ChTypes, ChPlaces
    <3> QED BY <1>2, <2>2, <3>1 DEF Avance, ChTypes, ChPlaces
  <2> QED BY <2>1, <2>2 DEF EnvoyerPid, ChEcrire, ChPartir
<1>4. ChTypes'
  BY <1>1, <1>2, <1>3 DEF Avance, ChTypes
<1>5. ChPlaces'
  BY <1>1, <1>2, <1>3 DEF Avance, ChPlaces
<1>6. ChPasse'
  <2>1. ASSUME NEW i \in 1 .. Len(fds), fds[i] # Ignore PROVE fds[i] \in ChClients
    BY <2>1 DEF ChTypes
  <2>2. Distrait \in ChClients
    BY ChatAssumption
  <2> QED BY <1>1, <1>2, <1>3, <2>1, <2>2 DEF Avance, ChPasse, Parti
<1>7. ChAccord'
  <2>1. Suivis \subseteq ChClients /\ Range(clients) \subseteq ChClients
    BY Contenu DEF ChTypes, Suivis
  <2>2. Suivis' = Suivis /\ Range(clients)' = Range(clients)
    BY <1>1 DEF Suivis, Range
  <2> QED BY <1>1, <1>2, <2>1, <2>2 DEF Avance, ChAccord, Parti
<1>8. MortExpliquee'
  BY DEF ChConnecter, EnvoyerPid, ChEcrire, ChPartir, MortExpliquee
<1> QED BY <1>4, <1>5, <1>6, <1>7, <1>8

LEMMA ChSonder == ChInv /\ Sonder => ChInv'
<1> SUFFICES ASSUME ChTypes, ChPlaces, ChPasse, ChAccord, MortExpliquee, Sonder PROVE ChInv'
  BY DEF ChInv
<1>1. /\ revents' = [i \in DOMAIN fds |-> Sonde(fds[i])]
      /\ boucle' = IF chFile # <<>> THEN "ecouter" ELSE "balayer"
      /\ rang' = 1 /\ UNCHANGED <<fds, clients, chFile, nouveau, chLien, reste, chTas>>
  BY DEF Sonder
<1>2. DOMAIN fds = 1 .. Len(fds) /\ Len(fds) \in Nat
  BY DEF ChTypes
<1>3. \A c : Sonde(c) \in Sondes
  BY DEF Sonde, Sondes
<1>4. revents' \in Seq(Sondes) /\ Len(revents') = Len(fds)
  <2>1. revents' \in [1 .. Len(fds) -> Sondes]
    BY <1>1, <1>2, <1>3
  <2> QED BY <1>2, <2>1
<1>5. \A i \in 1 .. Len(fds) : revents'[i] = "hup" /\ fds[i] # Ignore => chLien[fds[i]] = "rompu"
  BY <1>1, <1>2 DEF Sonde
<1>6. ChTypes'
  BY <1>1, <1>4 DEF ChTypes
<1>7. ChPlaces' /\ ChAccord'
  BY <1>1 DEF ChPlaces, ChAccord, Suivis, Parti, Range, Distincts
<1>8. ChPasse'
  <2>1. rang' # 0
    BY <1>1
  <2> QED BY <1>1, <1>4, <1>5, <2>1 DEF ChPasse
<1>9. MortExpliquee'
  BY <1>1 DEF MortExpliquee
<1> QED BY <1>6, <1>7, <1>8, <1>9 DEF ChInv

LEMMA ChAccepter == ChInv /\ Accepter => ChInv'
<1> SUFFICES ASSUME ChTypes, ChPlaces, ChPasse, ChAccord, MortExpliquee, Accepter PROVE ChInv'
  BY DEF ChInv
<1>1. /\ boucle = "ecouter" /\ chFile' = Tail(chFile) /\ nouveau' = Head(chFile)
      /\ boucle' = IF Len(fds) + 1 = MAX_CLIENTS THEN "mort" ELSE "pid"
      /\ UNCHANGED <<rang, fds, revents, clients, chLien, reste, chTas>>
  BY DEF Accepter
<1>2. chFile # <<>> /\ chFile \in Seq(ChClients) /\ Range(chFile) \subseteq ChClients
  BY <1>1, Contenu DEF ChPasse, ChTypes
<1>3. /\ chFile' \in Seq(ChClients) /\ nouveau' \in Range(chFile) /\ Range(chFile') \subseteq Range(chFile)
      /\ Distincts(chFile') /\ nouveau' \notin Range(chFile')
  BY <1>1, <1>2, ContenuTail DEF ChPlaces
<1>4. nouveau' \in ChClients /\ nouveau' # Ignore
  BY <1>2, <1>3, ChatAssumption
<1>5. ChTypes'
  BY <1>1, <1>3, <1>4 DEF ChTypes
<1>6. Range(fds)' = Range(fds) /\ Range(clients)' = Range(clients) /\ Range(chFile)' = Range(chFile')
  BY <1>1 DEF Range
<1>7. ChPlaces'
  BY <1>1, <1>3, <1>6 DEF ChPlaces, Distincts
<1>8. ChAccord'
  BY <1>1, <1>6 DEF ChAccord, Suivis, Parti
<1>9. ChPasse' /\ MortExpliquee'
  BY <1>1, <1>4 DEF ChPasse, MortExpliquee
<1> QED BY <1>5, <1>7, <1>8, <1>9 DEF ChInv

LEMMA ChEcrireFaits ==
  ASSUME ChTypes, NEW D, D \subseteq ChClients, Ecrire(D)
  PROVE  /\ Avance /\ boucle' \in {"balayer", "bloque", "mort"} /\ reste' \in SUBSET ChClients
         /\ boucle' = "mort" => \E c \in ChClients : chLien'[c] \in {"clos", "rompu"}
         /\ boucle' = "bloque" => chLien'[Distrait] = "ouvert"
<1>1. PICK fait : /\ fait = D \/ (chLien[Distrait] = "ouvert" /\ fait \subseteq D \ {Distrait})
                  /\ chLien' = [c \in ChClients |-> IF c \in fait /\ chLien[c] = "clos" THEN "rompu" ELSE chLien[c]]
                  /\ reste' = D \ (fait \cup {Distrait})
                  /\ boucle' \in {IF fait = D THEN "balayer" ELSE "bloque"}
                                 \cup (IF \E c \in fait : chLien[c] = "rompu" THEN {"mort"} ELSE {})
  BY DEF Ecrire
<1>2. fait \subseteq ChClients
  BY <1>1
<1>3. Avance
  BY <1>1 DEF Avance, ChTypes, ChLiens, Parti
<1>4. boucle' = "mort" => \E c \in fait : chLien[c] = "rompu"
  BY <1>1
<1>5. boucle' = "bloque" => chLien'[Distrait] = "ouvert"
  BY <1>1, ChatAssumption
<1> QED BY <1>1, <1>2, <1>3, <1>4, <1>5 DEF Avance

(* The types, once and for all. *)
LEMMA ChFaits ==
  ASSUME ChTypes
  PROVE  /\ Len(fds) \in Nat /\ Range(fds) \subseteq ChClients \cup {Ignore}
         /\ \A x : x \in Range(fds) <=> \E i \in 1 .. Len(fds) : fds[i] = x
         /\ Range(clients) \subseteq ChClients /\ Range(chFile) \subseteq ChClients /\ Suivis \subseteq ChClients
         /\ DOMAIN clients = 1 .. Len(clients) /\ Len(revents) \in Nat
BY Contenu DEF ChTypes, Suivis

(* The loop writes, and changes neither structure. *)
LEMMA ChApresEcrire ==
  ASSUME ChInv, boucle \in {"lire", "bloque"}, NEW D, D \subseteq ChClients, Ecrire(D),
         UNCHANGED <<fds, revents, clients, chFile, nouveau, chTas>>, rang' \in Nat, rang' # 0
  PROVE  ChInv'
<1> USE DEF ChInv
<1>1. /\ Avance /\ boucle' \in {"balayer", "bloque", "mort"} /\ reste' \in SUBSET ChClients
      /\ boucle' = "mort" => \E d \in ChClients : chLien'[d] \in {"clos", "rompu"}
      /\ boucle' = "bloque" => chLien'[Distrait] = "ouvert"
  BY ChEcrireFaits
<1>2. /\ Range(clients)' = Range(clients) /\ Range(fds)' = Range(fds) /\ Range(chFile)' = Range(chFile)
      /\ Suivis' = Suivis
  BY DEF Range, Suivis
<1>3. ChTypes'
  BY <1>1 DEF ChTypes, Avance
<1>4. ChPlaces'
  BY <1>1, <1>2 DEF ChPlaces, Avance, Distincts
<1>5. ChPasse'
  <2>1. \A i \in 1 .. Len(fds) : fds[i] # Ignore => fds[i] \in ChClients
    BY DEF ChTypes
  <2> QED BY <1>1, <2>1 DEF ChPasse, Avance
<1>6. ChAccord'
  BY <1>1, <1>2, ChFaits DEF ChAccord, Avance, Parti
<1>7. MortExpliquee'
  BY <1>1 DEF MortExpliquee, Parti
<1> QED BY <1>3, <1>4, <1>5, <1>6, <1>7

LEMMA ChAjouter == ChInv /\ Ajouter => ChInv'
<1> SUFFICES ASSUME ChTypes, ChPlaces, ChPasse, ChAccord, MortExpliquee, Ajouter PROVE ChInv'
  BY DEF ChInv
<1>1. /\ boucle = "pid" /\ clients' = <<nouveau>> \o clients /\ fds' = Append(fds, nouveau)
      /\ nouveau' = Ignore /\ UNCHANGED <<rang, chFile>>
  BY DEF Ajouter
<1>2. nouveau \in ChClients /\ nouveau # Ignore /\ Len(revents) = Len(fds)
  BY <1>1 DEF ChPasse, ChTypes
<1>3. nouveau \notin Range(fds) /\ nouveau \notin Range(clients) /\ nouveau \notin Range(chFile) /\ chLien[nouveau] # "dehors"
  BY <1>2 DEF ChPlaces
<1>4. PICK r \in Sondes : /\ revents' = Append(revents, r)
                          /\ \/ /\ boucle' = "mort" /\ UNCHANGED <<chLien, reste>>
                                /\ chTas' = chTas \cup {"next_cli"}
                             \/ /\ Ecrire(Range(clients'))
                                /\ chTas' = chTas \cup (IF r = "rien" THEN {} ELSE {"revents"})
  BY DEF Ajouter, Sondes
<1>5. clients' \in Seq(ChClients) /\ Range(clients') = Range(clients) \cup {nouveau} /\ Distincts(clients')
  BY <1>1, <1>2, <1>3, ContenuDevant DEF ChTypes, ChPlaces
<1>6. fds' \in Seq(ChClients \cup {Ignore}) /\ Range(fds') = Range(fds) \cup {nouveau}
  BY <1>1, <1>2, ContenuAppend DEF ChTypes
<1>7. Len(fds') = Len(fds) + 1 /\ fds'[Len(fds) + 1] = nouveau /\ \A i \in 1 .. Len(fds) : fds'[i] = fds[i]
  BY <1>1, <1>2, AppendProperties DEF ChTypes
<1>8. revents' \in Seq(Sondes) /\ Len(revents') = Len(fds) + 1 /\ revents'[Len(fds) + 1] = r
      /\ \A i \in 1 .. Len(fds) : revents'[i] = revents[i]
  BY <1>2, <1>4, AppendProperties DEF ChTypes
<1>9. Avance /\ boucle' \in {"balayer", "bloque", "mort"} /\ chTas \subseteq chTas' /\ reste' \in SUBSET ChClients
      /\ (boucle' = "bloque" => chLien'[Distrait] = "ouvert")
      /\ (boucle' = "mort" => (\E c \in ChClients : chLien'[c] \in {"clos", "rompu"}) \/ chTas' # {})
  <2>1. CASE boucle' = "mort" /\ UNCHANGED <<chLien, reste>> /\ chTas' = chTas \cup {"next_cli"}
    BY <2>1 DEF Avance, Parti, ChTypes
  <2>2. CASE Ecrire(Range(clients')) /\ chTas' = chTas \cup (IF r = "rien" THEN {} ELSE {"revents"})
    <3>1. Range(clients') \subseteq ChClients
      BY <1>2, <1>5, ChFaits
    <3> QED BY <2>2, <3>1, ChEcrireFaits
  <2> QED BY <1>4, <2>1, <2>2
<1>10. ChTypes'
  BY <1>1, <1>5, <1>6, <1>8, <1>9 DEF ChTypes, Avance
<1>11. \A i, j \in 1 .. Len(fds') : fds'[i] = fds'[j] /\ fds'[i] # Ignore => i = j
  <2>1. \A i \in 1 .. Len(fds') : i = Len(fds) + 1 \/ i \in 1 .. Len(fds)
    BY <1>7, ChFaits
  <2>2. \A i \in 1 .. Len(fds) : fds[i] # nouveau
    BY <1>3, ChFaits
  <2> QED BY <1>7, <2>1, <2>2 DEF ChPlaces
<1>12. ChPlaces'
  <2>1. \A c \in Range(chFile) : c \notin Range(fds') /\ c \notin Range(clients') /\ c # Ignore
    BY <1>3, <1>5, <1>6, ChFaits, ChatAssumption DEF ChPlaces
  <2>2. Ignore \notin Range(fds') \ {Ignore} /\ Ignore \notin Range(clients')
    BY <1>2, <1>5, ChFaits, ChatAssumption
  <2>3. ASSUME NEW c \in ChClients, chLien'[c] = "dehors"
        PROVE  c \notin Range(fds') /\ c \notin Range(clients') /\ c \notin Range(chFile) /\ c # Ignore
    <3>1. chLien[c] = "dehors" /\ c # nouveau
      BY <1>3, <1>9, <2>3 DEF Avance
    <3> QED BY <1>5, <1>6, <3>1, ChatAssumption DEF ChPlaces
  <2> QED BY <1>1, <1>5, <1>11, <2>1, <2>2, <2>3 DEF ChPlaces, Distincts
<1>13. ChPasse'
  <2>1. ASSUME NEW i \in 1 .. Len(fds'), revents'[i] = "hup", fds'[i] # Ignore, boucle' \in {"balayer", "bloque"}
        PROVE  chLien'[fds'[i]] = "rompu" \/ "revents" \in chTas'
    <3>1. CASE i = Len(fds) + 1
      <4>1. r # "rien"
        BY <1>8, <2>1, <3>1
      <4>2. boucle' # "mort"
        BY <2>1
      <4> QED BY <1>4, <4>1, <4>2
    <3>2. CASE i # Len(fds) + 1
      <4>1. i \in 1 .. Len(fds)
        BY <1>7, <3>2, ChFaits
      <4>2. fds[i] = fds'[i] /\ revents[i] = "hup" /\ fds[i] \in ChClients
        BY <1>7, <1>8, <2>1, <4>1, <1>6 DEF ChTypes
      <4>3. chLien[fds[i]] = "rompu" \/ "revents" \in chTas
        BY <1>1, <2>1, <4>1, <4>2 DEF ChPasse
      <4> QED BY <1>9, <4>2, <4>3 DEF Avance
    <3> QED BY <3>1, <3>2
  <2>2. rang' # 0 /\ boucle' \in {"balayer", "bloque", "mort"} /\ Len(revents') = Len(fds')
    BY <1>1, <1>7, <1>8, <1>9 DEF ChPasse
  <2> QED BY <1>9, <2>1, <2>2 DEF ChPasse
<1>14. ChAccord'
  <2>1. Suivis' = Suivis \cup {nouveau}
    BY <1>2, <1>6 DEF Suivis
  <2>2. \A c \in Suivis \ Range(clients) : c \in ChClients /\ chLien'[c] \in {"clos", "rompu"}
    BY <1>9, ChFaits DEF ChAccord, Avance
  <2>3. \A c \in Range(clients) \ Suivis : chLien'[c] = "rompu" \/ "revents" \in chTas'
    BY <1>9, ChFaits DEF ChAccord, Avance
  <2> QED BY <1>5, <2>1, <2>2, <2>3 DEF ChAccord, Parti
<1>15. MortExpliquee'
  BY <1>9 DEF MortExpliquee, Parti
<1> QED BY <1>10, <1>12, <1>13, <1>14, <1>15 DEF ChInv

LEMMA ChExaminer == ChInv /\ Examiner => ChInv'
<1> SUFFICES ASSUME ChTypes, ChPlaces, ChPasse, ChAccord, MortExpliquee, Examiner PROVE ChInv'
  BY DEF ChInv
<1> DEFINE suivants == {j \in rang .. Len(fds) : revents[j] # "rien"}
           i == Min(suivants)
<1>1. boucle = "balayer" /\ UNCHANGED <<clients, chFile, nouveau, chLien, reste, chTas>>
  BY DEF Examiner
<1>2. Range(clients)' = Range(clients) /\ Range(chFile)' = Range(chFile)
  BY <1>1 DEF Range
<1>3. CASE suivants = {} /\ boucle' = "poll" /\ rang' = 0 /\ revents' = <<>> /\ UNCHANGED fds
  <2>1. <<>> \in Seq(Sondes)
    OBVIOUS
  <2>2. Range(fds)' = Range(fds)
    BY <1>3 DEF Range
  <2>3. ChTypes'
    BY <1>1, <1>3, <2>1 DEF ChTypes
  <2>4. ChPlaces' /\ ChAccord'
    BY <1>1, <1>2, <1>3, <2>2 DEF ChPlaces, ChAccord, Suivis, Parti, Distincts
  <2>5. ChPasse' /\ MortExpliquee'
    BY <1>3 DEF ChPasse, MortExpliquee
  <2> QED BY <2>3, <2>4, <2>5 DEF ChInv
\* the entry is in the array
<1>4. ASSUME suivants # {} PROVE i \in 1 .. Len(fds)
  <2>1. suivants \subseteq Nat
    BY DEF ChTypes
  <2>2. i \in suivants
    BY <1>4, <2>1, PlusPetit
  <2>3. i \in rang .. Len(fds) /\ rang \in Nat /\ Len(fds) \in Nat /\ rang # 0
    BY <1>1, <2>2, ChFaits DEF ChTypes, ChPasse
  <2> QED BY <2>3
<1>5. CASE /\ suivants # {} /\ revents[i] = "in" /\ fds[i] \in Range(clients)
           /\ boucle' = "lire" /\ rang' = i /\ UNCHANGED <<fds, revents>>
  <2>1. i \in 1 .. Len(fds) /\ i \in Nat /\ i # 0
    BY <1>4, <1>5, ChFaits
  <2> HIDE DEF i
  <2>2. Range(fds)' = Range(fds)
    BY <1>5 DEF Range
  <2>3. ChTypes'
    BY <1>1, <1>5, <2>1 DEF ChTypes
  <2>4. ChPlaces' /\ ChAccord'
    BY <1>1, <1>2, <1>5, <2>2 DEF ChPlaces, ChAccord, Suivis, Parti, Distincts
  <2>5. ChPasse' /\ MortExpliquee'
    BY <1>1, <1>2, <1>5, <2>1 DEF ChPasse, MortExpliquee
  <2> QED BY <2>3, <2>4, <2>5 DEF ChInv
<1>6. CASE /\ suivants # {} /\ (revents[i] = "hup" \/ fds[i] \notin Range(clients))
           /\ fds' = [fds EXCEPT ![i] = Ignore] /\ rang' = i + 1 /\ UNCHANGED <<boucle, revents>>
  <2>1. i \in 1 .. Len(fds)
    BY <1>4, <1>6
  <2> HIDE DEF i
  <2>2. /\ fds' \in Seq(ChClients \cup {Ignore}) /\ Len(fds') = Len(fds)
        /\ \A j \in 1 .. Len(fds) : fds'[j] = IF j = i THEN Ignore ELSE fds[j]
    BY <1>6, <2>1, ExceptSeq DEF ChTypes
  <2>3. i + 1 \in Nat /\ i + 1 # 0
    BY <2>1, ChFaits
  <2>4. ChTypes'
    BY <1>1, <1>6, <2>2, <2>3 DEF ChTypes
  <2>5. \A x : x \in Range(fds') <=> \E j \in 1 .. Len(fds) : fds'[j] = x
    BY <2>2, Contenu
  <2>6. Suivis' = Suivis \ {fds[i]}
    <3>1. \A x : x \in Range(fds) <=> \E j \in 1 .. Len(fds) : fds[j] = x
      BY ChFaits
    <3>2. ASSUME NEW x \in Suivis' PROVE x \in Suivis \ {fds[i]}
      <4>1. PICK j \in 1 .. Len(fds) : fds'[j] = x /\ x # Ignore
        BY <2>5, <3>2 DEF Suivis
      <4>2. j # i /\ fds[j] = x
        BY <2>2, <4>1
      <4>3. fds[j] # fds[i]
        BY <2>1, <4>1, <4>2 DEF ChPlaces
      <4> QED BY <3>1, <4>1, <4>2, <4>3 DEF Suivis
    <3>3. ASSUME NEW x \in Suivis, x # fds[i] PROVE x \in Suivis'
      <4>1. PICK j \in 1 .. Len(fds) : fds[j] = x /\ x # Ignore
        BY <3>1, <3>3 DEF Suivis
      <4>2. fds'[j] = x
        BY <2>2, <3>3, <4>1
      <4> QED BY <2>5, <4>1, <4>2 DEF Suivis
    <3> QED BY <3>2, <3>3
  <2>7. \A i1, j \in 1 .. Len(fds') : fds'[i1] = fds'[j] /\ fds'[i1] # Ignore => i1 = j
    BY <2>2 DEF ChPlaces
  <2>8. \A c : c \in Range(fds') /\ c # Ignore => c \in Range(fds)
    BY <2>6 DEF Suivis
  <2>9. ChPlaces'
    <3>1. \A c \in ChClients : c # Ignore
      BY ChatAssumption
    <3>2. \A c \in Range(chFile) : c \in ChClients
      BY ChFaits
    <3> QED BY <1>1, <1>2, <2>7, <2>8, <3>1, <3>2 DEF ChPlaces, Distincts
  <2>10. ChPasse'
    <3>1. \A j \in 1 .. Len(fds) : revents[j] = "hup" /\ fds'[j] # Ignore =>
            chLien[fds'[j]] = "rompu" \/ "revents" \in chTas
      BY <1>1, <2>2 DEF ChPasse
    <3>2. Len(revents) = Len(fds)
      BY <1>1 DEF ChPasse
    <3> QED BY <1>1, <1>6, <2>2, <2>3, <3>1, <3>2 DEF ChPasse
  <2>11. ChAccord'
    <3>1. fds[i] # Ignore /\ fds[i] \in Range(clients) => chLien[fds[i]] = "rompu" \/ "revents" \in chTas
      BY <1>1, <1>6, <2>1 DEF ChPasse
    <3>2. fds[i] = Ignore => fds[i] \notin Range(clients)
      BY ChFaits, ChatAssumption
    <3> QED BY <1>1, <1>2, <2>6, <3>1, <3>2 DEF ChAccord, Parti
  <2>12. MortExpliquee'
    BY <1>1, <1>6 DEF MortExpliquee
  <2> QED BY <2>4, <2>9, <2>10, <2>11, <2>12 DEF ChInv
<1> QED BY <1>3, <1>5, <1>6 DEF Examiner

LEMMA ChExecuter == ChInv /\ ExecuterCommande => ChInv'
<1> SUFFICES ASSUME ChTypes, ChPlaces, ChPasse, ChAccord, MortExpliquee, ExecuterCommande PROVE ChInv'
  BY DEF ChInv
<1> DEFINE c == fds[rang]
<1>1. boucle = "lire" /\ rang' = rang + 1 /\ UNCHANGED <<fds, revents, chFile, nouveau, chTas>>
  BY DEF ExecuterCommande
<1>2. rang \in 1 .. Len(fds) /\ c \in Range(clients) /\ c \in ChClients /\ c # Ignore /\ rang + 1 \in Nat /\ rang + 1 # 0
  BY <1>1, ChFaits, ChatAssumption DEF ChPasse, ChTypes
<1>3. c \in Suivis
  BY <1>2, ChFaits DEF Suivis
<1>4. Range(fds)' = Range(fds) /\ Range(chFile)' = Range(chFile) /\ Suivis' = Suivis
  BY <1>1 DEF Range, Suivis
<1> HIDE DEF c
\* a command changes neither structure
<1>5. CASE clients' = clients /\ \E D \in {Range(clients), {c}, {}} \cup {{c, d} : d \in Range(clients)} : Ecrire(D)
  <2>1. PICK D \in {Range(clients), {c}, {}} \cup {{c, d} : d \in Range(clients)} : Ecrire(D)
    BY <1>5
  <2>2. D \subseteq ChClients
    BY <1>2, ChFaits
  <2> QED BY <1>1, <1>2, <1>5, <2>1, <2>2, ChApresEcrire DEF ChInv
<1>6. CASE UNCHANGED <<clients, chLien, reste>> /\ boucle' = "mort" /\ Parti(c)
  <2>1. Range(clients)' = Range(clients)
    BY <1>6 DEF Range
  <2>2. ChTypes'
    BY <1>1, <1>2, <1>6 DEF ChTypes
  <2>3. ChPlaces' /\ ChAccord'
    BY <1>1, <1>4, <1>6, <2>1 DEF ChPlaces, ChAccord, Distincts, Parti
  <2>4. ChPasse' /\ MortExpliquee'
    BY <1>1, <1>2, <1>6 DEF ChPasse, MortExpliquee, Parti
  <2> QED BY <2>2, <2>3, <2>4 DEF ChInv
\* the end of the stream: the client leaves the list
<1>7. CASE /\ UNCHANGED <<chLien, reste>> /\ boucle' = "balayer" /\ Parti(c)
           /\ \E i \in DOMAIN clients : clients[i] = c /\ clients' = RemoveAt(clients, i)
  <2>1. PICK i \in 1 .. Len(clients) : clients[i] = c /\ clients' = RemoveAt(clients, i)
    BY <1>7, ChFaits
  <2>2. clients' \in Seq(ChClients) /\ Distincts(clients') /\ Range(clients') = Range(clients) \ {c}
    BY <2>1, ContenuSansUn DEF ChTypes, ChPlaces
  <2>3. ChTypes'
    BY <1>1, <1>2, <1>7, <2>2 DEF ChTypes
  <2>4. ChPlaces'
    BY <1>1, <1>4, <1>7, <2>2 DEF ChPlaces, Distincts
  <2>5. ChAccord'
    BY <1>1, <1>3, <1>4, <1>7, <2>2 DEF ChAccord, Parti
  <2>6. ChPasse' /\ MortExpliquee'
    BY <1>1, <1>2, <1>7 DEF ChPasse, MortExpliquee
  <2> QED BY <2>3, <2>4, <2>5, <2>6 DEF ChInv
<1> QED
  <2>1. \/ clients' = clients /\ \E D \in {Range(clients), {c}, {}} \cup {{c, d} : d \in Range(clients)} : Ecrire(D)
        \/ chLien[c] \in {"clos", "rompu"} /\ queue_delete(c) /\ UNCHANGED <<chLien, reste>>
        \/ chLien[c] = "rompu" /\ boucle' = "mort" /\ UNCHANGED <<clients, chLien, reste>>
    BY DEF ExecuterCommande, c
  <2> QED BY <1>5, <1>6, <1>7, <2>1 DEF queue_delete, Parti

LEMMA ChReprendre == ChInv /\ ChDebloquer => ChInv'
<1> SUFFICES ASSUME ChInv, ChDebloquer PROVE ChInv'
  OBVIOUS
<1> USE DEF ChInv
<1>1. /\ boucle = "bloque" /\ Parti(Distrait) /\ Distrait \in ChClients
      /\ UNCHANGED <<rang, fds, revents, clients, chFile, nouveau, chTas>>
  BY ChatAssumption DEF ChDebloquer, ChPasse, Parti
<1>2. CASE Ecrire(reste)
  <2>1. reste \subseteq ChClients /\ rang' \in Nat /\ rang' # 0
    BY <1>1 DEF ChTypes, ChPasse
  <2> QED BY <1>1, <1>2, <2>1, ChApresEcrire
<1>3. CASE boucle' = "mort" /\ UNCHANGED <<chLien, reste>>
  <2>1. ChTypes'
    BY <1>1, <1>3 DEF ChTypes
  <2>2. ChPlaces' /\ ChAccord'
    BY <1>1, <1>3 DEF ChPlaces, ChAccord, Suivis, Parti, Range, Distincts
  <2>3. ChPasse' /\ MortExpliquee'
    BY <1>1, <1>3 DEF ChPasse, MortExpliquee, Parti
  <2> QED BY <2>1, <2>2, <2>3
<1> QED BY <1>2, <1>3 DEF ChDebloquer

LEMMA ChPas == ChInv /\ [ChNext]_chVars => ChInv'
<1>1. ASSUME ChInv, UNCHANGED chVars PROVE ChInv'
  <2>1. ChTypes'
    BY <1>1 DEF chVars, ChInv, ChTypes
  <2>2. ChPlaces' /\ ChAccord'
    BY <1>1 DEF chVars, ChInv, ChPlaces, ChAccord, Suivis, Parti, Range, Distincts
  <2>3. ChPasse' /\ MortExpliquee'
    BY <1>1 DEF chVars, ChInv, ChPasse, MortExpliquee, Parti
  <2> QED BY <2>1, <2>2, <2>3 DEF ChInv
<1> QED BY <1>1, ChDehors, ChSonder, ChAccepter, ChAjouter, ChExaminer, ChExecuter, ChReprendre DEF ChNext, ChBoucle

(* For any number of clients, the array of poll and the list agree about   *)
(* who is there, and the server dies of nothing that a client types.       *)
THEOREM TableauEtListe == ChSpec => []ListeSuivie
<1>1. ChInv => ListeSuivie
  <2> SUFFICES ASSUME ChInv PROVE ListeSuivie
    OBVIOUS
  <2>1. DOMAIN fds = 1 .. Len(fds) /\ DOMAIN clients = 1 .. Len(clients)
    BY DEF ChInv, ChTypes
  <2> QED BY <2>1 DEF ChInv, ChPlaces, ChAccord, MortExpliquee, ListeSuivie, Parti, Distincts
<1> QED BY <1>1, ChInitialisation, ChPas, PTL DEF ChSpec

-----------------------------------------------------------------------------
(* The echo servers on select and poll. *)

EcTypes ==
  /\ version \in {"select", "poll", "tp4"}
  /\ etape \in {"attendre", "clavier", "passer", "bloque", "arrete", "mort"}
  /\ prets \subseteq EcClients /\ arrivee \in BOOLEAN /\ squeeze \in BOOLEAN
  /\ master \subseteq Nat /\ fdmax \in Nat /\ fd \in [EcClients -> Nat]
  /\ ufds \in Seq(EcClients \cup {Personne}) /\ clientList \in [1 .. Cases -> EcClients \cup {Personne}]
  /\ ecFile \in Seq(EcClients) /\ jetes \subseteq EcClients
  /\ ecLien \in [EcClients -> {"hors", "ouvert", "clos", "rompu"}]
  /\ demande \in [EcClients -> {"rien", "echo", "quit#"}]
  /\ \A c \in EcClients : demande[c] = "quit#" => version = "tp4"

(* Each server's structure gives no place twice. *)
Structures ==
  /\ \A b, c \in EcClients : fd[b] = fd[c] /\ fd[b] # 0 => b = c
  /\ 0 \notin master /\ \A c \in EcClients : fd[c] # 0 => fd[c] \in master
  /\ \A d \in master : d <= fdmax /\ \E c \in EcClients : fd[c] = d
  /\ \A i, j \in 1 .. Len(ufds) : ufds[i] = ufds[j] /\ ufds[i] # Personne => i = j
  /\ \A i, j \in 1 .. Cases : clientList[i] = clientList[j] /\ clientList[i] # Personne => i = j

Loges == {c \in EcClients : Place(c) # {}}

(* A connection waits for accept, or has a place, or was let down, or is   *)
(* not there; those that a pass has still to serve have a place.           *)
Logement ==
  /\ Distincts(ecFile)
  /\ \A c \in Range(ecFile) : ecLien[c] # "hors" /\ c \notin Loges /\ c \notin jetes
  /\ \A c \in jetes : c \notin Loges /\ ecLien[c] # "hors"
  /\ \A c \in Loges : ecLien[c] # "hors"
  /\ \A c \in EcClients : ecLien[c] # "hors" => c \in Loges \cup jetes \cup Range(ecFile)
  /\ \A c \in prets : c \in Loges /\ (demande[c] # "rien" \/ ecLien[c] # "ouvert")
  /\ arrivee => etape \in {"clavier", "passer", "arrete"} /\ ecFile # <<>>

(* Until two neighbours of ufds leave in the same pass, a squeeze leaves   *)
(* no hole.                                                                *)
Trous ==
  /\ etape = "attendre" \/ arrivee => ~squeeze
  /\ ~voisins => /\ ~squeeze => \A i \in 1 .. Len(ufds) : ufds[i] # Personne
                 /\ \A i \in 1 .. Len(ufds) - 1 : ufds[i] # Personne \/ ufds[i + 1] # Personne

EcInv == EcTypes /\ Structures /\ Logement /\ Trous

(* Who has a place, by the structure that gives it. *)
ParVersion ==
  /\ Loges \subseteq EcClients
  /\ version = "select" => \A c \in EcClients : c \in Loges <=> fd[c] # 0
  /\ version = "poll" => \A c \in EcClients : c \in Loges <=> \E i \in 1 .. Len(ufds) : ufds[i] = c
  /\ version = "tp4" => \A c \in EcClients : c \in Loges <=> \E i \in 1 .. Cases : clientList[i] = c

LEMMA EcPlaces == EcTypes /\ Structures => ParVersion
<1> SUFFICES ASSUME EcTypes, Structures, NEW c \in EcClients
             PROVE  /\ version = "select" => (c \in Loges <=> fd[c] # 0)
                    /\ version = "poll" => (c \in Loges <=> \E i \in 1 .. Len(ufds) : ufds[i] = c)
                    /\ version = "tp4" => (c \in Loges <=> \E i \in 1 .. Cases : clientList[i] = c)
  BY DEF Loges, ParVersion
<1>1. c \in Loges <=> Place(c) # {}
  BY DEF Loges
<1>2. CASE version = "select"
  BY <1>1, <1>2 DEF Place, EcTypes, Structures
<1>3. CASE version = "poll"
  <2>1. DOMAIN ufds = 1 .. Len(ufds)
    BY DEF EcTypes
  <2>2. Place(c) = {i \in 1 .. Len(ufds) : ufds[i] = c}
    BY <1>3, <2>1 DEF Place
  <2> QED BY <1>1, <1>3, <2>2
<1>4. CASE version = "tp4"
  <2>1. DOMAIN clientList = 1 .. Cases
    BY DEF EcTypes
  <2>2. Place(c) = {i \in 1 .. Cases : clientList[i] = c}
    BY <1>4, <2>1 DEF Place
  <2> QED BY <1>1, <1>4, <2>2
<1> QED BY <1>2, <1>3, <1>4

LEMMA EcPlacesApres == EcTypes' /\ Structures' => ParVersion'
<1> QED BY EcPlaces, PTL

LEMMA EcInitialisation == EcInit => EcInv
<1> SUFFICES ASSUME EcInit PROVE EcInv
  OBVIOUS
<1> USE EchoAssumption
<1>1. Len(ufds) = 0 /\ Len(ecFile) = 0 /\ ufds \in Seq(EcClients \cup {Personne}) /\ ecFile \in Seq(EcClients)
  BY DEF EcInit
<1>2. EcTypes
  BY <1>1 DEF EcInit, EcTypes, Listening
<1>3. Structures
  BY <1>1 DEF EcInit, Structures
<1>4. Loges = {}
  <2>1. version = "select" \/ version = "poll" \/ version = "tp4"
    BY DEF EcInit
  <2>2. \A c \in EcClients : fd[c] = 0
    BY DEF EcInit
  <2>3. \A c \in EcClients, i \in 1 .. Cases : clientList[i] # c
    BY DEF EcInit
  <2>4. \A c \in EcClients : c \notin Loges
    BY <1>1, <1>2, <1>3, <2>1, <2>2, <2>3, EcPlaces DEF ParVersion
  <2> QED BY <2>4 DEF Loges
<1>5. Range(ecFile) = {}
  <2>1. \A x : x \in Range(ecFile) <=> \E i \in 1 .. Len(ecFile) : ecFile[i] = x
    BY <1>1, Contenu
  <2> QED BY <1>1, <2>1
<1>6. Logement
  BY <1>1, <1>4, <1>5 DEF EcInit, Logement, Distincts
<1>7. Trous
  BY <1>1 DEF EcInit, Trous
<1> QED BY <1>2, <1>3, <1>6, <1>7 DEF EcInv

(* What leaves the structure alone leaves its places alone. *)
LEMMA EcIntact ==
  ASSUME EcInv, UNCHANGED <<version, acces>>
  PROVE  Structures' /\ Loges' = Loges /\ (UNCHANGED voisins /\ (etape' = "attendre" => ~squeeze') /\ (arrivee' => ~squeeze') => Trous')
<1>1. UNCHANGED <<master, fdmax, fd, ufds, squeeze, clientList>>
  BY DEF acces
<1>2. Structures'
  BY <1>1 DEF EcInv, Structures
<1>3. \A c : Place(c)' = Place(c)
  BY <1>1 DEF Place
<1>4. Loges' = Loges
  BY <1>3 DEF Loges
<1>5. ASSUME UNCHANGED voisins, etape' = "attendre" => ~squeeze', arrivee' => ~squeeze' PROVE Trous'
  BY <1>1, <1>5 DEF EcInv, Trous
<1> QED BY <1>2, <1>4, <1>5

LEMMA EcConnecterPas == ASSUME EcInv, NEW c \in EcClients, EcConnecter(c) PROVE EcInv'
<1>0. ecFile \in Seq(EcClients) /\ ecFile' = Append(ecFile, c) /\ ecLien[c] = "hors" /\ ecLien \in [EcClients -> {"hors", "ouvert", "clos", "rompu"}]
  BY DEF EcInv, EcTypes, EcConnecter
<1>1. UNCHANGED <<version, etape, prets, arrivee, acces, jetes, demande, voisins>>
  BY DEF EcConnecter
<1>2. \A b \in EcClients : ecLien'[b] = IF b = c THEN "ouvert" ELSE ecLien[b]
  BY <1>0 DEF EcConnecter
<1>3. c \notin Loges /\ c \notin jetes /\ c \notin Range(ecFile) /\ c \notin prets
  BY <1>0 DEF EcInv, Logement
<1>4. ecFile' \in Seq(EcClients) /\ Range(ecFile') = Range(ecFile) \cup {c} /\ Distincts(ecFile') /\ Range(ecFile) \subseteq EcClients
  BY <1>0, <1>3, Contenu, ContenuAppend DEF EcInv, Logement
<1>5. Structures' /\ Loges' = Loges /\ Trous'
  BY <1>1, EcIntact DEF acces, EcInv, Trous
<1>6. EcTypes'
  <2>1. ecLien' \in [EcClients -> {"hors", "ouvert", "clos", "rompu"}]
    BY <1>0 DEF EcConnecter
  <2> QED BY <1>1, <1>4, <2>1 DEF EcInv, EcTypes, acces
<1>7. Loges \subseteq EcClients
  BY DEF Loges
<1>8. Logement'
  <2>1. arrivee' => etape' \in {"clavier", "passer", "arrete"} /\ ecFile' # <<>>
    <3>1. ecFile' # <<>>
      BY <1>0
    <3> QED BY <1>1, <3>1 DEF EcInv, Logement
  <2>2. jetes \subseteq EcClients /\ prets \subseteq EcClients
    BY DEF EcInv, EcTypes
  <2> QED BY <1>1, <1>2, <1>3, <1>4, <1>5, <1>7, <2>1, <2>2 DEF EcInv, Logement
<1> QED BY <1>5, <1>6, <1>8 DEF EcInv

LEMMA EcDehors ==
  ASSUME EcInv, \/ \E c \in EcClients : Demander(c) \/ EcPartir(c)
                \/ Taper \/ Eteindre \/ Attendre \/ Debloquer
  PROVE  EcInv'
<1>0. UNCHANGED <<version, acces, ecFile, jetes, voisins>>
  BY DEF Demander, EcPartir, Taper, Eteindre, Attendre, Debloquer
<1>1. ASSUME etape' = "attendre" => ~squeeze', arrivee' => ~squeeze', EcTypes', Logement' PROVE EcInv'
  <2>1. Structures' /\ Trous'
    BY <1>0, <1>1, EcIntact
  <2> QED BY <1>1, <2>1 DEF EcInv
<1>2. Loges' = Loges /\ UNCHANGED squeeze
  BY <1>0, EcIntact DEF acces
<1>3. ASSUME NEW c \in EcClients, Demander(c) PROVE EcInv'
  <2>1. UNCHANGED <<etape, prets, arrivee, ecLien>> /\ ecLien[c] = "ouvert"
    BY <1>3 DEF Demander
  <2>2. PICK m \in {"echo"} \cup (IF version = "tp4" THEN {"quit#"} ELSE {}) : demande' = [demande EXCEPT ![c] = m]
    BY <1>3 DEF Demander
  <2>3. demande' \in [EcClients -> {"rien", "echo", "quit#"}] /\ \A b \in EcClients : demande'[b] = IF b = c THEN m ELSE demande[b]
    BY <2>2 DEF EcInv, EcTypes
  <2>4. EcTypes'
    BY <1>0, <2>1, <2>2, <2>3 DEF EcInv, EcTypes, acces
  <2>5. \A b \in prets : demande'[b] # "rien" \/ ecLien[b] # "ouvert"
    BY <2>2, <2>3 DEF EcInv, EcTypes, Logement
  <2>6. Logement'
    BY <1>0, <1>2, <2>1, <2>5 DEF EcInv, Logement
  <2> QED BY <1>0, <1>1, <1>2, <2>1, <2>4, <2>6 DEF EcInv, Trous
<1>4. ASSUME NEW c \in EcClients, EcPartir(c) PROVE EcInv'
  <2>1. UNCHANGED <<etape, prets, arrivee, demande>> /\ ecLien[c] = "ouvert"
    BY <1>4 DEF EcPartir
  <2>2. PICK l \in {"clos", "rompu"} : ecLien' = [ecLien EXCEPT ![c] = l]
    BY <1>4 DEF EcPartir
  <2>3. ecLien' \in [EcClients -> {"hors", "ouvert", "clos", "rompu"}] /\ \A b \in EcClients : ecLien'[b] = IF b = c THEN l ELSE ecLien[b]
    BY <2>2 DEF EcInv, EcTypes
  <2>4. EcTypes'
    BY <1>0, <2>1, <2>3 DEF EcInv, EcTypes, acces
  <2>5. \A b \in EcClients : (ecLien'[b] # "hors" <=> ecLien[b] # "hors") /\ (ecLien[b] # "ouvert" => ecLien'[b] # "ouvert")
    BY <2>1, <2>2, <2>3
  <2>6. Loges \subseteq EcClients /\ jetes \subseteq EcClients /\ prets \subseteq EcClients /\ Range(ecFile) \subseteq EcClients
    BY Contenu DEF Loges, EcInv, EcTypes
  <2>7. Logement'
    BY <1>0, <1>2, <2>1, <2>5, <2>6 DEF EcInv, Logement
  <2> QED BY <1>0, <1>1, <1>2, <2>1, <2>4, <2>7 DEF EcInv, Trous
<1>5. CASE Eteindre
  <2>1. UNCHANGED <<prets, arrivee, ecLien, demande>> /\ etape = "clavier" /\ etape' \in {"passer", "arrete"}
    BY <1>5 DEF Eteindre
  <2>2. EcTypes'
    BY <1>0, <2>1 DEF EcInv, EcTypes, acces
  <2>3. Logement'
    BY <1>0, <1>2, <2>1 DEF EcInv, Logement
  <2> QED BY <1>0, <1>1, <1>2, <2>1, <2>2, <2>3 DEF EcInv, Trous
<1>6. CASE Attendre \/ Taper
  <2>1. /\ UNCHANGED <<ecLien, demande>> /\ etape = "attendre" /\ etape' \in {"passer", "clavier", "arrete"}
        /\ arrivee' = (ecFile # <<>>)
        /\ prets' = Lisibles
    BY <1>6 DEF Attendre, Taper
  <2>2. EcTypes'
    BY <1>0, <2>1 DEF EcInv, EcTypes, Lisibles, acces
  <2>3. \A c \in prets' : c \in Loges /\ (demande[c] # "rien" \/ ecLien[c] # "ouvert")
    BY <2>1 DEF Lisibles, Suivie, Loges
  <2>4. Logement'
    BY <1>0, <1>2, <2>1, <2>3 DEF EcInv, Logement
  <2> QED BY <1>0, <1>1, <1>2, <2>1, <2>2, <2>4 DEF EcInv, Trous
<1>7. CASE Debloquer
  <2>1. UNCHANGED <<prets, arrivee, ecLien, demande>> /\ etape = "bloque" /\ etape' \in {"passer", "mort"}
    BY <1>7 DEF Debloquer
  <2>2. EcTypes'
    BY <1>0, <2>1 DEF EcInv, EcTypes, acces
  <2>3. ~arrivee
    BY <2>1 DEF EcInv, Logement
  <2>4. Logement'
    BY <1>0, <1>2, <2>1, <2>3 DEF EcInv, Logement
  <2> QED BY <1>0, <1>1, <1>2, <2>1, <2>2, <2>3, <2>4 DEF EcInv, EcTypes, Trous
<1> QED BY <1>3, <1>4, <1>5, <1>6, <1>7

(* accept gives a place, or turns the connection away. *)
LEMMA EcArrivee ==
  ASSUME EcInv, EcAccepter, Loges' \subseteq EcClients,
         \/ Loges' = Loges \cup {Head(ecFile)} /\ jetes' = jetes
         \/ Loges' = Loges /\ jetes' = jetes \cup {Head(ecFile)}
  PROVE  Logement'
<1> DEFINE c == Head(ecFile)
<1>1. /\ ecFile # <<>> /\ ecFile' = Tail(ecFile) /\ ~arrivee' /\ UNCHANGED <<prets, ecLien, demande>>
      /\ ecFile \in Seq(EcClients) /\ Distincts(ecFile)
  BY DEF EcAccepter, EcInv, EcTypes, Logement
<1>2. c \in Range(ecFile) /\ Range(ecFile') \subseteq Range(ecFile) /\ Distincts(ecFile') /\ c \notin Range(ecFile')
  BY <1>1, ContenuTail
<1>3. \A b \in Range(ecFile) : b \in Range(ecFile') \/ b = c
  <2>1. \A x : x \in Range(ecFile) <=> \E i \in 1 .. Len(ecFile) : ecFile[i] = x
    BY <1>1, Contenu
  <2>2. ecFile' \in Seq(EcClients) /\ Len(ecFile) \in Nat /\ Len(ecFile') = Len(ecFile) - 1 /\ \A i \in 1 .. Len(ecFile) - 1 : ecFile'[i] = ecFile[i + 1]
    BY <1>1, EmptySeq, HeadTailProperties
  <2>3. \A x : x \in Range(ecFile') <=> \E i \in 1 .. Len(ecFile') : ecFile'[i] = x
    BY <2>2, Contenu
  <2>4. ASSUME NEW i \in 1 .. Len(ecFile), i # 1 PROVE ecFile[i] \in Range(ecFile')
    <3>1. i - 1 \in 1 .. Len(ecFile') /\ (i - 1) + 1 = i /\ i - 1 \in 1 .. Len(ecFile) - 1
      BY <2>2, <2>4
    <3>2. ecFile'[i - 1] = ecFile[i]
      BY <2>2, <3>1
    <3> QED BY <2>3, <3>1, <3>2
  <2>5. c = ecFile[1]
    BY <1>1
  <2> QED BY <2>1, <2>4, <2>5
<1>4. c \notin Loges /\ c \notin jetes /\ ecLien[c] # "hors"
  BY <1>2 DEF EcInv, Logement
<1> HIDE DEF c
<1>5. \/ Loges' = Loges \cup {c} /\ jetes' = jetes
      \/ Loges' = Loges /\ jetes' = jetes \cup {c}
  BY DEF c
<1> QED BY <1>1, <1>2, <1>3, <1>4, <1>5 DEF EcInv, Logement

(* accept finds a descriptor: the connections have fewer than there are.   *)
LEMMA DescripteurLibre ==
  ASSUME fd \in [EcClients -> Nat], NEW c \in EcClients, fd[c] = 0
  PROVE  {d \in Listening + 1 .. Listening + Cardinality(EcClients) : \A b \in EcClients : fd[b] # d} # {}
<1> USE EchoAssumption
<1> DEFINE A == Listening + 1 .. Listening + Cardinality(EcClients)
           B == EcClients \ {c}
<1> SUFFICES ASSUME \A d \in A : \E b \in EcClients : fd[b] = d PROVE FALSE
  OBVIOUS
<1>1. Cardinality(EcClients) \in Nat
  BY FS_CardinalityType
<1>2. IsFiniteSet(A) /\ Cardinality(A) = Cardinality(EcClients)
  <2> DEFINE p == Listening + 1
             q == Listening + Cardinality(EcClients)
  <2>1. p \in Int /\ q \in Int /\ Cardinality(EcClients) = IF p > q THEN 0 ELSE q - p + 1
    BY <1>1 DEF Listening
  <2>2. A = p .. q
    OBVIOUS
  <2> HIDE DEF A, p, q
  <2> QED BY <2>1, <2>2, FS_Interval
<1>3. IsFiniteSet(B) /\ Cardinality(B) = Cardinality(EcClients) - 1
  BY FS_RemoveElement
<1>4. \A d \in A : d # 0
  BY <1>1 DEF Listening
<1>5. \A d \in A : \E b \in B : fd[b] = d
  BY <1>4
<1> DEFINE f == [d \in A |-> CHOOSE b \in B : fd[b] = d]
<1> HIDE DEF A, B
<1>6. f \in [A -> B] /\ \A d \in A : fd[f[d]] = d
  BY <1>5
<1>7. Cardinality(B) < Cardinality(A)
  BY <1>1, <1>2, <1>3
<1> HIDE DEF f
<1>8. \E x, y \in A : x # y /\ f[x] = f[y]
  BY <1>2, <1>3, <1>6, <1>7, FS_PigeonHole
<1> QED BY <1>6, <1>8

LEMMA EcAccepterPas == EcInv /\ EcAccepter => EcInv'
<1> SUFFICES ASSUME EcInv, EcAccepter PROVE EcInv'
  OBVIOUS
<1> USE EchoAssumption
<1> DEFINE c == Head(ecFile)
<1>1. /\ ecFile # <<>> /\ ecFile' = Tail(ecFile) /\ ~arrivee' /\ arrivee /\ UNCHANGED <<version, etape, prets, ecLien, demande, voisins>>
      /\ ecFile \in Seq(EcClients) /\ ecFile' \in Seq(EcClients) /\ arrivee' \in BOOLEAN /\ Recevant(c)
  BY ContenuTail DEF EcAccepter, EcInv, EcTypes, Logement
<1>2. c \in Range(ecFile) /\ c \in EcClients
  BY <1>1, ContenuTail, Contenu
<1>3. c \notin Loges /\ c \notin jetes
  BY <1>2 DEF EcInv, Logement
<1>4. ParVersion /\ ~squeeze /\ version \in {"select", "poll", "tp4"}
  BY <1>1, EcPlaces DEF EcInv, EcTypes, Trous
<1> HIDE DEF c
<1>5. ASSUME EcTypes', Structures', Trous', ParVersion',
             \/ Loges' = Loges \cup {c} /\ jetes' = jetes
             \/ Loges' = Loges /\ jetes' = jetes \cup {c}
      PROVE  EcInv'
  BY <1>5, EcArrivee DEF c, EcInv, ParVersion
<1>6. CASE version = "select"
  <2> DEFINE libres == {d \in Listening + 1 .. Listening + Cardinality(EcClients) : \A b \in EcClients : fd[b] # d}
             n == Min(libres)
  <2>1. /\ fd' = [fd EXCEPT ![c] = n] /\ master' = master \cup {fd'[c]}
        /\ fdmax' = (IF fd'[c] > fdmax THEN fd'[c] ELSE fdmax) /\ UNCHANGED <<ufds, squeeze, clientList, jetes>>
    BY <1>1, <1>6 DEF Recevant
  <2>2. fd \in [EcClients -> Nat] /\ fdmax \in Nat /\ master \subseteq Nat /\ fd[c] = 0
    BY <1>2, <1>3, <1>4, <1>6 DEF EcInv, EcTypes, ParVersion
  <2>3. libres # {}
    BY <1>2, <2>2, DescripteurLibre
  <2>4. n \in Nat /\ n # 0 /\ \A b \in EcClients : fd[b] # n
    <3>1. libres \subseteq Nat
      BY DEF Listening
    <3>2. n \in libres
      BY <2>3, <3>1, PlusPetit
    <3>3. \A d \in libres : d \in Nat /\ d # 0
      <4>1. Cardinality(EcClients) \in Nat
        BY FS_CardinalityType
      <4> QED BY <4>1 DEF Listening
    <3> QED BY <3>2, <3>3
  <2> HIDE DEF n, libres
  <2>5. fd' \in [EcClients -> Nat] /\ fd'[c] = n /\ \A b \in EcClients : fd'[b] = IF b = c THEN n ELSE fd[b]
    BY <1>2, <2>1, <2>2, <2>4
  <2>6. master' = master \cup {n} /\ master' \subseteq Nat /\ fdmax' \in Nat /\ fdmax <= fdmax' /\ n <= fdmax'
    <3>1. master' = master \cup {n} /\ fdmax' = IF n > fdmax THEN n ELSE fdmax
      BY <2>1, <2>5
    <3>2. fdmax' \in Nat /\ fdmax <= fdmax' /\ n <= fdmax'
      BY <2>2, <2>4, <3>1
    <3> QED BY <2>2, <2>4, <3>1, <3>2
  <2>7. EcTypes'
    BY <1>1, <2>1, <2>5, <2>6 DEF EcInv, EcTypes
  <2>8. Structures'
    <3>1. \A a, b \in EcClients : fd'[a] = fd'[b] /\ fd'[a] # 0 => a = b
      BY <2>4, <2>5 DEF EcInv, Structures
    <3>2. 0 \notin master' /\ \A b \in EcClients : fd'[b] # 0 => fd'[b] \in master'
      BY <2>4, <2>5, <2>6 DEF EcInv, Structures
    <3>3. ASSUME NEW d \in master' PROVE d <= fdmax' /\ \E b \in EcClients : fd'[b] = d
      <4>1. CASE d = n
        BY <1>2, <2>5, <2>6, <4>1
      <4>2. CASE d \in master
        <5>1. d <= fdmax /\ d \in Nat
          BY <2>2, <4>2 DEF EcInv, Structures
        <5>2. PICK b \in EcClients : fd[b] = d
          BY <4>2 DEF EcInv, Structures
        <5>3. d # 0
          BY <4>2 DEF EcInv, Structures
        <5>4. fd'[b] = d
          BY <2>2, <2>5, <5>2, <5>3
        <5>5. d <= fdmax'
          BY <2>2, <2>6, <5>1
        <5> QED BY <5>4, <5>5
      <4> QED BY <2>6, <4>1, <4>2
    <3> QED BY <2>1, <3>1, <3>2, <3>3 DEF EcInv, Structures
  <2>9. Trous'
    BY <1>1, <2>1 DEF EcInv, Trous
  <2>10. ParVersion'
    BY <2>7, <2>8, EcPlacesApres
  <2>11. Loges' = Loges \cup {c}
    <3>1. Loges \subseteq EcClients /\ \A b \in EcClients : b \in Loges <=> fd[b] # 0
      BY <1>4, <1>6 DEF ParVersion
    <3>2. Loges' \subseteq EcClients /\ \A b \in EcClients : b \in Loges' <=> fd'[b] # 0
      BY <1>1, <1>6, <2>10 DEF ParVersion
    <3> QED BY <1>2, <2>4, <2>5, <3>1, <3>2
  <2> QED BY <1>5, <2>1, <2>7, <2>8, <2>9, <2>10, <2>11
<1>7. CASE version = "poll"
  <2>1. /\ UNCHANGED <<master, fdmax, fd, squeeze, clientList>>
        /\ \/ ufds' = Append(ufds, c) /\ UNCHANGED jetes
           \/ jetes' = jetes \cup {c} /\ UNCHANGED ufds
    BY <1>1, <1>7 DEF Recevant
  <2>2. ufds \in Seq(EcClients \cup {Personne}) /\ Len(ufds) \in Nat /\ \A i \in 1 .. Len(ufds) : ufds[i] # c
    BY <1>2, <1>3, <1>4, <1>7 DEF EcInv, EcTypes, ParVersion
  <2>3. CASE ufds' = Append(ufds, c) /\ UNCHANGED jetes
    <3>1. /\ ufds' \in Seq(EcClients \cup {Personne}) /\ Len(ufds') = Len(ufds) + 1 /\ ufds'[Len(ufds) + 1] = c
          /\ \A i \in 1 .. Len(ufds) : ufds'[i] = ufds[i]
      BY <1>2, <2>2, <2>3, AppendProperties
    <3>2. \A i \in 1 .. Len(ufds') : (i \in 1 .. Len(ufds) /\ ufds'[i] = ufds[i]) \/ (i = Len(ufds) + 1 /\ ufds'[i] = c)
      BY <2>2, <3>1
    <3>3. \A i \in 1 .. Len(ufds) + 1 : i \in 1 .. Len(ufds')
      BY <3>1
    <3>4. \A i \in 1 .. Len(ufds) : i \in 1 .. Len(ufds')
      BY <2>2, <3>3
    <3>5. Len(ufds) + 1 \in 1 .. Len(ufds')
      BY <2>2, <3>1
    <3>6. EcTypes'
      BY <1>1, <2>1, <2>3, <3>1 DEF EcInv, EcTypes
    <3>7. Structures'
      BY <2>1, <2>2, <3>2 DEF EcInv, Structures
    <3>8. Trous'
      <4>1. c # Personne
        BY <1>2
      <4>2. ASSUME ~voisins PROVE \A i \in 1 .. Len(ufds') : ufds'[i] # Personne
        BY <1>4, <3>2, <4>1, <4>2 DEF EcInv, Trous
      <4>3. \A i \in 1 .. Len(ufds') - 1 : i \in 1 .. Len(ufds')
        BY <2>2, <3>1
      <4> QED BY <1>1, <1>4, <2>1, <4>2, <4>3 DEF Trous
    <3>9. ParVersion'
      BY <3>6, <3>7, EcPlacesApres
    <3>10. Loges' = Loges \cup {c}
      <4>1. \A b \in EcClients : b \in Loges' <=> b \in Loges \/ b = c
        BY <1>1, <1>4, <1>7, <3>1, <3>2, <3>4, <3>5, <3>9 DEF ParVersion
      <4> QED BY <1>2, <1>4, <3>9, <4>1 DEF ParVersion
    <3> QED BY <1>5, <2>3, <3>6, <3>7, <3>8, <3>9, <3>10
  <2>4. CASE jetes' = jetes \cup {c} /\ UNCHANGED ufds
    <3>1. UNCHANGED <<version, acces>>
      BY <1>1, <2>1, <2>4 DEF acces
    <3>2. EcTypes'
      BY <1>1, <1>2, <2>1, <2>4 DEF EcInv, EcTypes
    <3>3. Structures' /\ Loges' = Loges /\ Trous'
      BY <1>1, <1>4, <2>1, <3>1, EcIntact
    <3> QED BY <1>5, <2>4, <3>2, <3>3, EcPlacesApres
  <2> QED BY <2>1, <2>3, <2>4
<1>8. CASE version = "tp4"
  <2> DEFINE libres == {i \in DOMAIN clientList : clientList[i] = Personne}
  <2>1. /\ UNCHANGED <<master, fdmax, fd, ufds, squeeze>>
        /\ \/ libres # {} /\ clientList' = [clientList EXCEPT ![Min(libres)] = c] /\ UNCHANGED jetes
           \/ jetes' = jetes \cup {c} /\ UNCHANGED clientList
    BY <1>1, <1>8 DEF Recevant
  <2>2. clientList \in [1 .. Cases -> EcClients \cup {Personne}] /\ \A i \in 1 .. Cases : clientList[i] # c
    BY <1>2, <1>3, <1>4, <1>8 DEF EcInv, EcTypes, ParVersion
  <2>3. ASSUME libres # {}, clientList' = [clientList EXCEPT ![Min(libres)] = c], UNCHANGED jetes PROVE EcInv'
    <3>1. libres \subseteq Nat /\ libres \subseteq 1 .. Cases
      BY <2>2
    <3>2. Min(libres) \in libres
      BY <2>3, <3>1, PlusPetit
    <3> DEFINE p == Min(libres)
    <3>3. p \in 1 .. Cases /\ clientList[p] = Personne
      BY <3>1, <3>2
    <3> HIDE DEF p
    <3>4. clientList' \in [1 .. Cases -> EcClients \cup {Personne}] /\ \A i \in 1 .. Cases : clientList'[i] = IF i = p THEN c ELSE clientList[i]
      BY <1>2, <2>2, <2>3, <3>3 DEF p
    <3>5. EcTypes'
      BY <1>1, <2>1, <2>3, <3>4 DEF EcInv, EcTypes
    <3>6. Structures'
      BY <2>1, <2>2, <3>4 DEF EcInv, Structures
    <3>7. Trous'
      BY <1>1, <2>1 DEF EcInv, Trous
    <3>8. ParVersion'
      BY <3>5, <3>6, EcPlacesApres
    <3>9. Loges' = Loges \cup {c}
      <4>1. \A b \in EcClients : b \in Loges' <=> b \in Loges \/ b = c
        BY <1>1, <1>4, <1>8, <3>3, <3>4, <3>8 DEF ParVersion
      <4> QED BY <1>2, <1>4, <3>8, <4>1 DEF ParVersion
    <3> QED BY <1>5, <2>3, <3>5, <3>6, <3>7, <3>8, <3>9
  <2>4. CASE jetes' = jetes \cup {c} /\ UNCHANGED clientList
    <3>1. UNCHANGED <<version, acces>>
      BY <1>1, <2>1, <2>4 DEF acces
    <3>2. EcTypes'
      BY <1>1, <1>2, <2>1, <2>4 DEF EcInv, EcTypes
    <3>3. Structures' /\ Loges' = Loges /\ Trous'
      BY <1>1, <1>4, <2>1, <3>1, EcIntact
    <3> QED BY <1>5, <2>4, <3>2, <3>3, EcPlacesApres
  <2> QED BY <2>1, <2>3, <2>4
<1> QED BY <1>4, <1>6, <1>7, <1>8

(* A connection that is served keeps its place, or loses it and is let     *)
(* down or gone.                                                           *)
LEMMA EcLogement ==
  ASSUME EcInv, NEW c \in prets, prets' = prets \ {c}, ~arrivee', UNCHANGED ecFile, Loges' \subseteq EcClients,
         \A b \in EcClients \ {c} : ecLien'[b] = ecLien[b] /\ demande'[b] = demande[b],
         \/ Loges' = Loges /\ jetes' = jetes /\ ecLien'[c] = ecLien[c]
         \/ Loges' = Loges \ {c} /\ jetes' = jetes \cup {c} /\ ecLien'[c] = ecLien[c]
         \/ Loges' = Loges \ {c} /\ jetes' = jetes /\ ecLien'[c] = "hors"
  PROVE  Logement'
<1>1. c \in EcClients /\ c \in Loges /\ c \notin jetes /\ c \notin Range(ecFile) /\ ecLien[c] # "hors"
      /\ Loges \subseteq EcClients /\ jetes \subseteq EcClients /\ prets \subseteq EcClients
  BY DEF EcInv, EcTypes, Logement, Loges
<1>2. Range(ecFile) \subseteq EcClients
  BY Contenu DEF EcInv, EcTypes
<1>3. \A b \in prets' : b \in Loges' /\ (demande'[b] # "rien" \/ ecLien'[b] # "ouvert")
  BY <1>1 DEF EcInv, Logement
<1>4. \A b \in Range(ecFile') : ecLien'[b] # "hors" /\ b \notin Loges' /\ b \notin jetes'
  BY <1>1, <1>2 DEF EcInv, Logement
<1>5. \A b \in jetes' : b \notin Loges' /\ ecLien'[b] # "hors"
  BY <1>1 DEF EcInv, Logement
<1>6. \A b \in Loges' : ecLien'[b] # "hors"
  BY <1>1 DEF EcInv, Logement
<1>7. \A b \in EcClients : ecLien'[b] # "hors" => b \in Loges' \cup jetes' \cup Range(ecFile')
  BY <1>1 DEF EcInv, Logement
<1> QED BY <1>3, <1>4, <1>5, <1>6, <1>7 DEF EcInv, Logement

(* The answer. *)
LEMMA EcRepondre ==
  ASSUME EcInv, etape = "passer", ~arrivee, NEW c \in prets, prets' = prets \ {c}, Repondant(c),
         demande' = [demande EXCEPT ![c] = "rien"], UNCHANGED <<version, arrivee, ecFile, ecLien>>
  PROVE  EcInv'
<1> USE EchoAssumption
<1>1. /\ c \in EcClients /\ ParVersion /\ c # Personne
      /\ demande \in [EcClients -> {"rien", "echo", "quit#"}]
  BY EcPlaces DEF EcInv, EcTypes
<1>2. demande' \in [EcClients -> {"rien", "echo", "quit#"}] /\ \A b \in EcClients : demande'[b] = IF b = c THEN "rien" ELSE demande[b]
  BY <1>1
<1>3. UNCHANGED <<master, fdmax, fd, ufds, squeeze, voisins>>
  BY DEF Repondant, acces
<1>4. ASSUME etape' \in {"passer", "bloque", "mort"}, jetes' \subseteq EcClients, clientList' \in [1 .. Cases -> EcClients \cup {Personne}]
      PROVE  EcTypes' /\ Trous'
  <2>1. EcTypes'
    BY <1>1, <1>2, <1>3, <1>4 DEF EcInv, EcTypes
  <2>2. Trous'
    BY <1>3, <1>4 DEF EcInv, Trous
  <2> QED BY <2>1, <2>2
<1>5. CASE demande[c] = "echo"
  <2>1. UNCHANGED <<acces, jetes, voisins>> /\ etape' \in {"passer", "bloque", "mort"}
    BY <1>5 DEF Repondant
  <2>2. EcTypes' /\ Trous'
    BY <1>4, <2>1 DEF acces, EcInv, EcTypes
  <2>3. Structures' /\ Loges' = Loges
    BY <2>1, EcIntact
  <2>4. Logement'
    BY <1>1, <1>2, <2>1, <2>3, EcLogement DEF ParVersion
  <2> QED BY <2>2, <2>3, <2>4 DEF EcInv
<1>6. CASE demande[c] = "quit#"
  <2>1. etape' = "passer" /\ jetes' = jetes \cup {c} /\ version = "tp4" /\ version' = "tp4"
        /\ clientList' = [i \in DOMAIN clientList |-> IF clientList[i] = c THEN Personne ELSE clientList[i]]
    BY <1>1, <1>6 DEF Repondant, EcInv, EcTypes
  <2>2. clientList \in [1 .. Cases -> EcClients \cup {Personne}]
    BY DEF EcInv, EcTypes
  <2>3. clientList' \in [1 .. Cases -> EcClients \cup {Personne}]
        /\ \A i \in 1 .. Cases : clientList'[i] = IF clientList[i] = c THEN Personne ELSE clientList[i]
    BY <2>1, <2>2
  <2>4. EcTypes' /\ Trous'
    BY <1>1, <1>4, <2>1, <2>3 DEF EcInv, EcTypes
  <2>5. Structures'
    BY <1>3, <2>3 DEF EcInv, Structures
  <2>6. ParVersion'
    BY <2>4, <2>5, EcPlacesApres
  <2>7. \A b \in EcClients : b \in Loges' <=> b \in Loges /\ b # c
    BY <1>1, <2>1, <2>3, <2>6 DEF ParVersion
  <2>8. Loges' = Loges \ {c}
    BY <1>1, <2>6, <2>7 DEF ParVersion
  <2>9. Logement'
    BY <1>1, <1>2, <2>1, <2>6, <2>8, EcLogement DEF ParVersion
  <2> QED BY <2>4, <2>5, <2>9 DEF EcInv
<1> QED BY <1>5, <1>6 DEF Repondant

(* The end of a connection. *)
LEMMA EcOublier ==
  ASSUME EcInv, etape = "passer", ~arrivee, NEW c \in prets, prets' = prets \ {c}, Oublier(c),
         UNCHANGED <<version, etape, demande, jetes, arrivee, ecFile>>,
         ecLien' = [ecLien EXCEPT ![c] = IF version = "tp4" THEN @ ELSE "hors"]
  PROVE  EcInv'
<1> USE EchoAssumption
<1>1. /\ c \in EcClients /\ ParVersion /\ c # Personne /\ c \in Loges
      /\ ecLien \in [EcClients -> {"hors", "ouvert", "clos", "rompu"}] /\ version \in {"select", "poll", "tp4"}
  BY EcPlaces DEF EcInv, EcTypes, Logement
<1>2. /\ ecLien' \in [EcClients -> {"hors", "ouvert", "clos", "rompu"}]
      /\ \A b \in EcClients : b # c => ecLien'[b] = ecLien[b]
      /\ ecLien'[c] = IF version = "tp4" THEN ecLien[c] ELSE "hors"
  BY <1>1
<1>3. ASSUME Loges' = Loges \ {c}, Loges' \subseteq EcClients, version # "tp4" PROVE Logement'
  BY <1>2, <1>3, EcLogement
<1>4. CASE version = "tp4"
  <2>1. UNCHANGED <<version, acces, voisins>>
    BY <1>4 DEF Oublier
  <2>2. EcTypes'
    BY <1>2, <2>1 DEF acces, EcInv, EcTypes
  <2>3. Structures' /\ Loges' = Loges /\ Trous'
    BY <2>1, EcIntact
  <2>4. Logement'
    BY <1>1, <1>2, <1>4, <2>3, EcLogement DEF ParVersion
  <2> QED BY <2>2, <2>3, <2>4 DEF EcInv
<1>5. CASE version = "select"
  <2>1. /\ master' = master \ {fd[c]} /\ fd' = [fd EXCEPT ![c] = 0] /\ fdmax' = Max({Listening} \cup master')
        /\ UNCHANGED <<ufds, squeeze, clientList, voisins>>
    BY <1>5 DEF Oublier
  <2>2. fd \in [EcClients -> Nat] /\ fdmax \in Nat /\ master \subseteq Nat /\ \A d \in master : d <= fdmax
    BY DEF EcInv, EcTypes, Structures
  <2>3. fd' \in [EcClients -> Nat] /\ \A b \in EcClients : fd'[b] = IF b = c THEN 0 ELSE fd[b]
    BY <2>1, <2>2
  <2>4. fdmax' \in Nat /\ \A d \in master' : d <= fdmax'
    <3> DEFINE S == {Listening} \cup master'
    <3>1. S \subseteq Nat /\ S # {} /\ fdmax + Listening \in Nat
      BY <2>1, <2>2 DEF Listening
    <3>2. \A d \in S : d <= fdmax + Listening
      BY <2>1, <2>2 DEF Listening
    <3>3. Max(S) \in S /\ \A d \in S : d <= Max(S)
      BY <3>1, <3>2, PlusGrand
    <3> QED BY <2>1, <3>1, <3>3
  <2>5. EcTypes'
    BY <1>2, <2>1, <2>2, <2>3, <2>4 DEF EcInv, EcTypes
  <2>6. Structures'
    <3>1. \A a, b \in EcClients : fd'[a] = fd'[b] /\ fd'[a] # 0 => a = b
      BY <2>3 DEF EcInv, Structures
    <3>2. ASSUME NEW b \in EcClients, fd'[b] # 0 PROVE fd'[b] \in master'
      <4>1. b # c /\ fd'[b] = fd[b] /\ fd[b] # 0
        BY <2>3, <3>2
      <4>2. fd[b] \in master /\ fd[b] # fd[c]
        BY <1>1, <4>1 DEF EcInv, Structures
      <4> QED BY <2>1, <4>1, <4>2
    <3>3. ASSUME NEW d \in master' PROVE \E b \in EcClients : fd'[b] = d
      <4>1. d \in master /\ d # fd[c]
        BY <2>1
      <4>2. PICK b \in EcClients : fd[b] = d
        BY <4>1 DEF EcInv, Structures
      <4> QED BY <2>3, <4>1, <4>2
    <3>4. 0 \notin master'
      BY <2>1 DEF EcInv, Structures
    <3> QED BY <2>1, <2>4, <3>1, <3>2, <3>3, <3>4 DEF EcInv, Structures
  <2>7. Trous'
    BY <2>1 DEF EcInv, Trous
  <2>8. ParVersion'
    BY <2>5, <2>6, EcPlacesApres
  <2>9. \A b \in EcClients : b \in Loges' <=> b \in Loges /\ b # c
    BY <1>1, <1>5, <2>3, <2>8 DEF ParVersion
  <2>10. Loges' = Loges \ {c} /\ Loges' \subseteq EcClients
    BY <1>1, <2>8, <2>9 DEF ParVersion
  <2> QED BY <1>3, <1>5, <2>5, <2>6, <2>7, <2>10 DEF EcInv
<1>6. CASE version = "poll"
  <2>1. /\ ufds' = [i \in DOMAIN ufds |-> IF ufds[i] = c THEN Personne ELSE ufds[i]]
        /\ voisins' = (voisins \/ \E i \in 1 .. Len(ufds) - 1 : ufds'[i] = Personne /\ ufds'[i + 1] = Personne)
        /\ squeeze' = TRUE /\ UNCHANGED <<master, fdmax, fd, clientList>>
    BY <1>6 DEF Oublier
  <2>2. ufds \in Seq(EcClients \cup {Personne})
    BY DEF EcInv, EcTypes
  <2>3. /\ ufds' \in Seq(EcClients \cup {Personne}) /\ Len(ufds') = Len(ufds)
        /\ \A i \in 1 .. Len(ufds) : ufds'[i] = IF ufds[i] = c THEN Personne ELSE ufds[i]
    <3>1. DOMAIN ufds = 1 .. Len(ufds) /\ Len(ufds) \in Nat /\ \A i \in 1 .. Len(ufds) : ufds[i] \in EcClients \cup {Personne}
      BY <2>2
    <3>2. ufds' \in [1 .. Len(ufds) -> EcClients \cup {Personne}]
      BY <2>1, <3>1
    <3>3. ufds' \in Seq(EcClients \cup {Personne}) /\ Len(ufds') = Len(ufds)
      BY <3>1, <3>2
    <3> QED BY <2>1, <3>1, <3>3
  <2>5. EcTypes'
    BY <1>2, <2>1, <2>3 DEF EcInv, EcTypes
  <2>6. Structures'
    BY <2>1, <2>3 DEF EcInv, Structures
  <2>7. Trous'
    <3>1. ~voisins' => \A i \in 1 .. Len(ufds') - 1 : ufds'[i] # Personne \/ ufds'[i + 1] # Personne
      BY <2>1, <2>3
    <3> QED BY <2>1, <3>1 DEF EcInv, Trous
  <2>8. ParVersion'
    BY <2>5, <2>6, EcPlacesApres
  <2>9. \A b \in EcClients : b \in Loges' <=> b \in Loges /\ b # c
    BY <1>1, <1>6, <2>3, <2>8 DEF ParVersion
  <2>10. Loges' = Loges \ {c} /\ Loges' \subseteq EcClients
    BY <1>1, <2>8, <2>9 DEF ParVersion
  <2> QED BY <1>3, <1>6, <2>5, <2>6, <2>7, <2>10 DEF EcInv
<1> QED BY <1>1, <1>4, <1>5, <1>6

LEMMA EcServirPas == EcInv /\ EcServir => EcInv'
<1> SUFFICES ASSUME EcInv, EcServir PROVE EcInv'
  OBVIOUS
<1>1. etape = "passer" /\ ~arrivee /\ UNCHANGED <<version, arrivee, ecFile>>
  BY DEF EcServir
<1>2. PICK c \in prets : /\ prets' = prets \ {c}
                         /\ \/ Repondant(c) /\ demande' = [demande EXCEPT ![c] = "rien"] /\ UNCHANGED ecLien
                            \/ /\ Oublier(c) /\ UNCHANGED <<etape, demande, jetes>>
                               /\ ecLien' = [ecLien EXCEPT ![c] = IF version = "tp4" THEN @ ELSE "hors"]
  BY DEF EcServir
<1>3. CASE Repondant(c) /\ demande' = [demande EXCEPT ![c] = "rien"] /\ UNCHANGED ecLien
  BY <1>1, <1>2, <1>3, EcRepondre
<1>4. CASE /\ Oublier(c) /\ UNCHANGED <<etape, demande, jetes>>
           /\ ecLien' = [ecLien EXCEPT ![c] = IF version = "tp4" THEN @ ELSE "hors"]
  BY <1>1, <1>2, <1>4, EcOublier
<1> QED BY <1>2, <1>3, <1>4

(* squeezing_ufds removes no connection, and every lone hole.              *)
LEMMA Garde ==
  ASSUME ufds \in Seq(EcClients \cup {Personne}), NEW i \in 1 .. Len(ufds)
  PROVE  /\ ufds[i] # Personne => ~Retire(i)
         /\ ufds[i] = Personne /\ (i = 1 \/ ufds[i - 1] # Personne) => Retire(i)
<1> DEFINE D == {0} \cup {j \in 1 .. i : ufds[j] # Personne}
           m == Max(D)
<1>0. i \in Nat /\ i >= 1 /\ 0 \in D /\ \A j \in 1 .. i : ufds[j] # Personne => j \in D
  OBVIOUS
<1>1. D \subseteq Nat /\ D # {} /\ \A j \in D : j <= i /\ (j = i => ufds[i] # Personne)
  BY <1>0
<1>2. m \in D /\ \A j \in D : j <= m
  BY <1>0, <1>1, PlusGrand
<1>3. Retire(i) <=> (i - m) % 2 = 1
  BY DEF Retire
<1> HIDE DEF m, D
<1>4. m \in Nat /\ m <= i
  BY <1>1, <1>2
<1>5. ASSUME ufds[i] # Personne PROVE ~Retire(i)
  <2>1. i <= m
    BY <1>0, <1>2, <1>5
  <2>2. i - m = 0
    BY <1>0, <1>4, <2>1
  <2> QED BY <1>3, <2>2
<1>6. ASSUME ufds[i] = Personne, i = 1 \/ ufds[i - 1] # Personne PROVE Retire(i)
  <2>1. i - 1 \in D
    <3>1. i # 1 => i - 1 \in 1 .. i
      BY <1>0
    <3> QED BY <1>0, <1>6, <3>1
  <2>2. i - 1 <= m /\ m # i
    BY <1>1, <1>2, <1>6, <2>1
  <2>3. i - m = 1
    BY <1>0, <1>4, <2>2
  <2> QED BY <1>3, <2>3
<1> QED BY <1>5, <1>6

LEMMA EcFinir == EcInv /\ FinirPasse => EcInv'
<1> SUFFICES ASSUME EcInv, FinirPasse PROVE EcInv'
  OBVIOUS
<1> USE EchoAssumption
<1> DEFINE gardes == {i \in DOMAIN ufds : ~Retire(i)}
           n == Cardinality(gardes)
<1>1. /\ etape = "passer" /\ etape' = "attendre" /\ ~arrivee /\ squeeze' = FALSE
      /\ UNCHANGED <<version, prets, arrivee, master, fdmax, fd, clientList, ecFile, jetes, ecLien, demande, voisins>>
  BY DEF FinirPasse
<1>2. ufds \in Seq(EcClients \cup {Personne}) /\ DOMAIN ufds = 1 .. Len(ufds) /\ Len(ufds) \in Nat /\ ParVersion
  BY EcPlaces DEF EcInv, EcTypes
<1>3. ASSUME EcTypes', Structures', Loges' = Loges, Trous' PROVE EcInv'
  <2>1. Logement'
    BY <1>1, <1>3 DEF EcInv, Logement
  <2> QED BY <1>3, <2>1 DEF EcInv
<1>4. CASE ~squeeze /\ UNCHANGED ufds
  <2>1. UNCHANGED <<version, acces>>
    BY <1>1, <1>4 DEF acces, EcInv, EcTypes
  <2>2. EcTypes'
    BY <1>1, <1>4 DEF EcInv, EcTypes
  <2>3. Structures' /\ Loges' = Loges /\ Trous'
    BY <1>1, <2>1, EcIntact
  <2> QED BY <1>3, <2>2, <2>3
<1>5. ASSUME squeeze, NEW rangs \in Bijection(1 .. n, gardes), ufds' = [k \in DOMAIN rangs |-> ufds[rangs[k]]]
      PROVE  EcInv'
  <2>1. n \in Nat
    <3>1. IsFiniteSet(1 .. Len(ufds)) /\ gardes \subseteq 1 .. Len(ufds)
      BY <1>2, FS_Interval
    <3>2. IsFiniteSet(gardes)
      BY <3>1, FS_Subset
    <3> QED BY <3>2, FS_CardinalityType
  <2>2. \A i \in gardes : i \in 1 .. Len(ufds)
    BY <1>2
  <2>3. /\ \A i \in 1 .. Len(ufds) : ufds[i] # Personne => i \in gardes
        /\ \A i \in gardes : ~(ufds[i] = Personne /\ (i = 1 \/ ufds[i - 1] # Personne))
    BY <1>2, Garde
  <2> HIDE DEF gardes, n
  <2>4. rangs \in [1 .. n -> gardes] /\ (\A j, k \in 1 .. n : rangs[j] = rangs[k] => j = k) /\ \A i \in gardes : \E k \in 1 .. n : rangs[k] = i
    BY DEF Bijection, Injection, Surjection, IsInjective
  <2>5. /\ ufds' \in Seq(EcClients \cup {Personne}) /\ Len(ufds') = n /\ \A k \in 1 .. n : ufds'[k] = ufds[rangs[k]]
    <3>1. ufds' = [k \in 1 .. n |-> ufds[rangs[k]]]
      BY <1>5, <2>4
    <3>2. \A k \in 1 .. n : ufds[rangs[k]] \in EcClients \cup {Personne}
      BY <1>2, <2>2, <2>4
    <3>3. ufds' \in [1 .. n -> EcClients \cup {Personne}] /\ \A k \in 1 .. n : ufds'[k] = ufds[rangs[k]]
      BY <3>1, <3>2
    <3> QED BY <2>1, <3>3
  <2>6. EcTypes'
    BY <1>1, <2>5 DEF EcInv, EcTypes
  <2>7. Structures'
    <3>1. ASSUME NEW j \in 1 .. Len(ufds'), NEW k \in 1 .. Len(ufds'), ufds'[j] = ufds'[k], ufds'[j] # Personne PROVE j = k
      <4>1. j \in 1 .. n /\ k \in 1 .. n /\ ufds[rangs[j]] = ufds[rangs[k]] /\ ufds[rangs[j]] # Personne
        BY <2>5, <3>1
      <4>2. rangs[j] \in 1 .. Len(ufds) /\ rangs[k] \in 1 .. Len(ufds)
        BY <2>2, <2>4, <4>1
      <4>3. rangs[j] = rangs[k]
        BY <4>1, <4>2 DEF EcInv, Structures
      <4> QED BY <2>4, <4>1, <4>3
    <3> QED BY <1>1, <3>1 DEF EcInv, Structures
  <2>8. ParVersion'
    BY <2>6, <2>7, EcPlacesApres
  <2>9. \A b \in EcClients : (\E i \in 1 .. Len(ufds) : ufds[i] = b) <=> (\E k \in 1 .. Len(ufds') : ufds'[k] = b)
    <3> SUFFICES ASSUME NEW b \in EcClients PROVE (\E i \in 1 .. Len(ufds) : ufds[i] = b) <=> (\E k \in 1 .. Len(ufds') : ufds'[k] = b)
      OBVIOUS
    <3>1. ASSUME NEW i \in 1 .. Len(ufds), ufds[i] = b PROVE \E k \in 1 .. Len(ufds') : ufds'[k] = b
      <4>1. i \in gardes
        BY <2>3, <3>1
      <4> QED BY <2>4, <2>5, <3>1, <4>1
    <3>2. ASSUME NEW k \in 1 .. Len(ufds'), ufds'[k] = b PROVE \E i \in 1 .. Len(ufds) : ufds[i] = b
      BY <2>2, <2>4, <2>5, <3>2
    <3> QED BY <3>1, <3>2
  <2>10. \A b \in EcClients : b \in Loges' <=> b \in Loges
    <3>1. version \in {"select", "poll", "tp4"}
      BY DEF EcInv, EcTypes
    <3> QED BY <1>1, <1>2, <2>8, <2>9, <3>1 DEF ParVersion
  <2>11. Loges' = Loges
    BY <1>2, <2>8, <2>10 DEF ParVersion
  <2>12. Trous'
    <3>1. ASSUME ~voisins, NEW k \in 1 .. Len(ufds') PROVE ufds'[k] # Personne
      <4> DEFINE i == rangs[k]
      <4>1. k \in 1 .. n /\ i \in gardes /\ i \in 1 .. Len(ufds) /\ ufds'[k] = ufds[i]
        BY <2>2, <2>4, <2>5, <3>1
      <4> HIDE DEF i
      <4>2. i # 1 => i - 1 \in 1 .. Len(ufds) - 1 /\ (i - 1) + 1 = i
        BY <1>2, <4>1
      <4>3. i # 1 => ufds[i - 1] # Personne \/ ufds[i] # Personne
        BY <3>1, <4>2 DEF EcInv, Trous
      <4> QED BY <2>3, <4>1, <4>3
    <3>2. \A k \in 1 .. Len(ufds') - 1 : k \in 1 .. Len(ufds')
      BY <2>1, <2>5
    <3> QED BY <1>1, <3>1, <3>2 DEF Trous
  <2> QED BY <1>3, <2>6, <2>7, <2>11, <2>12
<1> QED BY <1>4, <1>5 DEF FinirPasse

LEMMA EcPas == EcInv /\ [EcNext]_ecVars => EcInv'
<1> SUFFICES ASSUME EcInv, [EcNext]_ecVars PROVE EcInv'
  OBVIOUS
<1>1. CASE UNCHANGED ecVars
  <2>1. UNCHANGED <<version, etape, prets, arrivee, acces, ecFile, jetes, ecLien, demande, voisins>>
    BY <1>1 DEF ecVars
  <2>2. UNCHANGED <<master, fdmax, fd, ufds, squeeze, clientList>>
    BY <2>1 DEF acces
  <2>3. EcTypes' /\ Structures' /\ Loges' = Loges /\ Trous'
    BY <2>1, <2>2, EcIntact DEF EcInv, EcTypes, Trous
  <2>4. Logement'
    BY <2>1, <2>3 DEF EcInv, Logement
  <2> QED BY <2>3, <2>4 DEF EcInv
<1> QED BY <1>1, EcConnecterPas, EcDehors, EcAccepterPas, EcServirPas, EcFinir DEF EcNext, EcBoucle

(* Whenever the loop of an echo server waits, a client that was accepted,  *)
(* is there and was not let down is watched at one place, for any clients, *)
(* any array size, and whatever left in the pass before.                   *)
THEOREM ToujoursSuivi == EcSpec => []EchoSuivi
<1>1. ASSUME EcInv PROVE EchoSuivi
  <2> SUFFICES ASSUME NEW c \in EcClients, ecLien[c] = "ouvert", c \notin jetes \cup Range(ecFile)
               PROVE  Suivie(c) /\ Cardinality(Place(c)) = 1
    BY DEF EchoSuivi
  <2>1. c \in Loges /\ ParVersion /\ version \in {"select", "poll", "tp4"}
    BY <1>1, EcPlaces DEF EcInv, EcTypes, Logement
  <2>2. Place(c) # {}
    BY <2>1 DEF Loges
  <2>3. \A p, q \in Place(c) : p = q
    <3>1. CASE version = "select"
      BY <3>1 DEF Place
    <3>2. CASE version = "poll"
      <4>1. Place(c) = {i \in 1 .. Len(ufds) : ufds[i] = c}
        BY <1>1, <3>2 DEF Place, EcInv, EcTypes
      <4> QED BY <1>1, <4>1, EchoAssumption DEF EcInv, Structures
    <3>3. CASE version = "tp4"
      <4>1. Place(c) = {i \in 1 .. Cases : clientList[i] = c}
        BY <1>1, <3>3 DEF Place, EcInv, EcTypes
      <4> QED BY <1>1, <4>1, EchoAssumption DEF EcInv, Structures
    <3> QED BY <2>1, <3>1, <3>2, <3>3
  <2>4. Cardinality(Place(c)) = 1
    <3>1. PICK p : p \in Place(c)
      BY <2>2
    <3>2. Place(c) = {p}
      BY <2>3, <3>1
    <3> QED BY <3>2, FS_Singleton
  <2>5. version = "select" => fd[c] <= fdmax
    <3>1. version = "select" => fd[c] \in master
      BY <1>1, <2>1 DEF ParVersion, EcInv, Structures
    <3> QED BY <1>1, <3>1 DEF EcInv, Structures
  <2> QED BY <2>2, <2>4, <2>5 DEF Suivie
<1> QED BY <1>1, EcInitialisation, EcPas, PTL DEF EcSpec

(* In every step: poll turns a client away only when MAXFDS connections    *)
(* are there or after two neighbours left in the same pass, and the array  *)
(* of TP4/server.c keeps the clients that left without "quit#".            *)
THEOREM PlacesGardees == EcSpec => PlacesPerdues
<1> DEFINE Refus == version = "poll" /\ jetes' # jetes =>
             voisins \/ Cardinality({i \in DOMAIN ufds : ufds[i] # Personne}) + 2 >= MAXFDS
           Tenues == \A i \in DOMAIN clientList : LET c == clientList[i] IN
             c # Personne /\ ecLien[c] # "ouvert" /\ demande[c] # "quit#" => clientList'[i] = c
<1>1. ASSUME EcInv, EcNext PROVE Refus
  <2> SUFFICES ASSUME version = "poll", jetes' # jetes, ~voisins
               PROVE  Cardinality({i \in DOMAIN ufds : ufds[i] # Personne}) + 2 >= MAXFDS
    OBVIOUS
  <2>1. EcAccepter \/ EcServir
    BY <1>1 DEF EcNext, EcBoucle, EcConnecter, Demander, EcPartir, Taper, Eteindre, Attendre, Debloquer, FinirPasse
  <2>2. CASE EcServir
    <3>1. PICK c \in prets : Repondant(c)
      BY <2>2 DEF EcServir
    <3>2. demande[c] = "quit#"
      BY <3>1 DEF Repondant
    <3> QED BY <1>1, <3>2 DEF EcInv, EcTypes
  <2>3. CASE EcAccepter
    <3>1. Len(ufds) + 2 >= MAXFDS
      BY <2>3 DEF EcAccepter, Recevant
    <3>2. ufds \in Seq(EcClients \cup {Personne}) /\ \A i \in 1 .. Len(ufds) : ufds[i] # Personne
      BY <1>1, <2>3 DEF EcAccepter, EcInv, EcTypes, Trous
    <3>3. {i \in DOMAIN ufds : ufds[i] # Personne} = 1 .. Len(ufds) /\ Len(ufds) \in Nat
      BY <3>2
    <3>4. Cardinality(1 .. Len(ufds)) = Len(ufds)
      <4>1. Cardinality(1 .. Len(ufds)) = IF 1 > Len(ufds) THEN 0 ELSE Len(ufds) - 1 + 1
        BY <3>3, FS_Interval
      <4> QED BY <3>3, <4>1
    <3> QED BY <3>1, <3>3, <3>4
  <2> QED BY <2>1, <2>2, <2>3
<1>2. ASSUME EcInv, EcNext PROVE Tenues
  <2> SUFFICES ASSUME NEW i \in 1 .. Cases, clientList[i] # Personne, demande[clientList[i]] # "quit#",
                      clientList' # clientList
               PROVE  clientList'[i] = clientList[i]
    <3>1. DOMAIN clientList = 1 .. Cases
      BY <1>2 DEF EcInv, EcTypes
    <3> QED BY <3>1
  <2>0. clientList \in [1 .. Cases -> EcClients \cup {Personne}]
    BY <1>2 DEF EcInv, EcTypes
  <2>1. EcAccepter \/ EcServir
    BY <1>2 DEF EcNext, EcBoucle, EcConnecter, Demander, EcPartir, Taper, Eteindre, Attendre, Debloquer, FinirPasse, acces
  <2>2. CASE EcAccepter
    <3> DEFINE libres == {j \in DOMAIN clientList : clientList[j] = Personne}
               c == Head(ecFile)
    <3>1. libres # {} /\ clientList' = [clientList EXCEPT ![Min(libres)] = c]
      BY <2>2 DEF EcAccepter, Recevant
    <3>2. libres \subseteq Nat
      BY <2>0
    <3>3. Min(libres) \in libres
      BY <3>1, <3>2, PlusPetit
    <3>4. Min(libres) # i
      BY <3>3
    <3> QED BY <2>0, <3>1, <3>4
  <2>3. CASE EcServir
    <3>1. PICK c \in prets : Repondant(c) \/ Oublier(c)
      BY <2>3 DEF EcServir
    <3>2. Repondant(c)
      BY <3>1 DEF Oublier, acces
    <3>3. demande[c] = "quit#" /\ clientList' = [j \in DOMAIN clientList |-> IF clientList[j] = c THEN Personne ELSE clientList[j]]
      BY <3>2 DEF Repondant, acces
    <3> QED BY <2>0, <3>3
  <2> QED BY <2>1, <2>2, <2>3
<1>3. EcInv /\ [EcNext]_ecVars => [Refus /\ Tenues]_ecVars
  BY <1>1, <1>2
<1> QED BY <1>3, EcInitialisation, EcPas, PTL DEF EcSpec, PlacesPerdues

-----------------------------------------------------------------------------
(* The page allocator. *)

(* The walk of maillon, as a function of the pages and of the first one.   *)
Contenus == Pages \union {Fin, Donnee}
SuivantDe(b, p) == IF p \in Pages THEN b[p] ELSE Fin
Marche(b, p) == CHOOSE m : m = [i \in 0..DEFAULT_SIZE |-> IF i = 0 THEN p ELSE SuivantDe(b, m[i - 1])]

LEMMA Taille == /\ DEFAULT_SIZE \in Nat /\ DEFAULT_SIZE > 0 /\ Pages = 0..DEFAULT_SIZE - 1
                /\ Pages \subseteq Nat /\ Fin = -1 /\ Donnee = -10 /\ Fin \notin Pages /\ Donnee \notin Pages
                /\ Fin \in Contenus /\ Pages \subseteq Contenus
BY MemoryAllocAssumption DEF Pages, Fin, Donnee, Contenus

LEMMA MarcheExiste ==
  ASSUME NEW b \in [Pages -> Contenus], NEW p \in Contenus
  PROVE  /\ Marche(b, p) \in [0..DEFAULT_SIZE -> Contenus]
         /\ Marche(b, p)[0] = p
         /\ \A i \in 1..DEFAULT_SIZE : Marche(b, p)[i] = SuivantDe(b, Marche(b, p)[i - 1])
<1> DEFINE Bonne(n, m) == m[0] = p /\ \A i \in 1..n : m[i] = SuivantDe(b, m[i - 1])
           S == {n \in Nat : ~\E m \in [0..n -> Contenus] : Bonne(n, m)}
<1>1. \A q \in Contenus : SuivantDe(b, q) \in Contenus
  BY Taille DEF SuivantDe
<1>2. S = {}
  <2> SUFFICES ASSUME S # {} PROVE FALSE
    OBVIOUS
  <2> DEFINE n == Min(S)
  <2>1. n \in S /\ \A k \in S : n <= k
    BY PlusPetit
  <2> HIDE DEF n
  <2>2. n \in Nat
    BY <2>1
  <2>3. CASE n = 0
    <3> DEFINE m == [i \in 0..0 |-> p]
    <3>1. m \in [0..0 -> Contenus] /\ Bonne(0, m)
      OBVIOUS
    <3> HIDE DEF m, Bonne
    <3> QED BY <2>1, <2>3, <3>1
  <2>4. CASE n # 0
    <3>1. n - 1 \in Nat /\ n - 1 \notin S
      <4>1. n - 1 \in Nat /\ ~(n <= n - 1)
        BY <2>2, <2>4
      <4> HIDE DEF S
      <4> QED BY <2>1, <4>1
    <3>2. PICK m \in [0..n - 1 -> Contenus] : Bonne(n - 1, m)
      BY <3>1
    <3> DEFINE g == [i \in 0..n |-> IF i = n THEN SuivantDe(b, m[n - 1]) ELSE m[i]]
    <3>3. g \in [0..n -> Contenus]
      BY <1>1, <2>2, <3>1
    <3>4. g[0] = p
      BY <2>2, <2>4, <3>2
    <3>5. ASSUME NEW i \in 1..n PROVE g[i] = SuivantDe(b, g[i - 1])
      <4>1. g[i - 1] = m[i - 1]
        BY <2>2
      <4>2. CASE i = n
        BY <4>1, <4>2, <2>2
      <4>3. CASE i # n
        <5>1. i \in 1..n - 1 /\ g[i] = m[i]
          BY <2>2, <4>3
        <5> QED BY <3>2, <4>1, <5>1
      <4> QED BY <4>2, <4>3
    <3> HIDE DEF g
    <3>6. Bonne(n, g)
      BY <3>4, <3>5
    <3> QED BY <2>1, <3>3, <3>6
  <2> QED BY <2>3, <2>4
<1>3. PICK m \in [0..DEFAULT_SIZE -> Contenus] : Bonne(DEFAULT_SIZE, m)
  BY <1>2, Taille
<1>4. m = [i \in 0..DEFAULT_SIZE |-> IF i = 0 THEN p ELSE SuivantDe(b, m[i - 1])]
  <2>1. \A i \in 0..DEFAULT_SIZE : m[i] = IF i = 0 THEN p ELSE SuivantDe(b, m[i - 1])
    BY <1>3, Taille
  <2> QED BY <2>1
<1>5. Marche(b, p) = [i \in 0..DEFAULT_SIZE |-> IF i = 0 THEN p ELSE SuivantDe(b, Marche(b, p)[i - 1])]
  BY <1>4 DEF Marche
<1> DEFINE M == Marche(b, p)
<1> HIDE DEF M
<1>6. M = [i \in 0..DEFAULT_SIZE |-> IF i = 0 THEN p ELSE SuivantDe(b, M[i - 1])]
  BY <1>5 DEF M
<1>7. M[0] = p /\ \A i \in 1..DEFAULT_SIZE : M[i] = SuivantDe(b, M[i - 1])
  <2>1. \A i \in 0..DEFAULT_SIZE : M[i] = IF i = 0 THEN p ELSE SuivantDe(b, M[i - 1])
    BY <1>6
  <2>2. 0 \in 0..DEFAULT_SIZE /\ \A i \in 1..DEFAULT_SIZE : i \in 0..DEFAULT_SIZE /\ i # 0
    BY Taille
  <2> QED BY <2>1, <2>2
<1>8. M \in [0..DEFAULT_SIZE -> Contenus]
  <2> DEFINE E == {i \in 0..DEFAULT_SIZE : M[i] \notin Contenus}
  <2>1. E = {}
    <3> SUFFICES ASSUME E # {} PROVE FALSE
      OBVIOUS
    <3>1. E \subseteq Nat
      BY Taille
    <3>2. PICK n \in E : \A k \in E : n <= k
      <4> HIDE DEF E
      <4>1. Min(E) \in E /\ \A k \in E : Min(E) <= k
        BY <3>1, PlusPetit
      <4> QED BY <4>1
    <3>3. n # 0 /\ n \in 1..DEFAULT_SIZE
      BY <1>7, Taille
    <3>4. n - 1 \notin E /\ n - 1 \in 0..DEFAULT_SIZE
      BY <3>2, <3>3, Taille
    <3> QED BY <1>1, <1>7, <3>3, <3>4
  <2>2. \A i \in 0..DEFAULT_SIZE : M[i] \in Contenus
    BY <2>1
  <2> QED BY <1>6, <2>2
<1> QED BY <1>7, <1>8 DEF M

LEMMA MaillonMarche == maillon = Marche(blocks, first_block)
BY DEF maillon, Marche, SuivantDe

(* A list of a pages that starts at p. *)
Liste(b, p, a, m) ==
  /\ m \in [0..a -> Contenus] /\ m[0] = p /\ m[a] = Fin
  /\ \A i \in 0..a - 1 : m[i] \in Pages /\ b[m[i]] = m[i + 1]
  /\ \A i, j \in 0..a - 1 : m[i] = m[j] => i = j

LEMMA Reconnue ==
  ASSUME NEW b \in [Pages -> Contenus], NEW p \in Contenus, NEW a \in 0..DEFAULT_SIZE,
         NEW m, Liste(b, p, a, m)
  PROVE  \A i \in 0..a : Marche(b, p)[i] = m[i]
<1> DEFINE M == Marche(b, p)
           E == {i \in 0..a : M[i] # m[i]}
<1>1. M[0] = p /\ \A i \in 1..DEFAULT_SIZE : M[i] = SuivantDe(b, M[i - 1])
  BY MarcheExiste
<1> HIDE DEF M
<1> SUFFICES ASSUME E # {} PROVE FALSE
  BY DEF M
<1>2. PICK n \in E : \A k \in E : n <= k
  <2>1. E \subseteq Nat
    BY Taille
  <2>2. Min(E) \in E /\ \A k \in E : Min(E) <= k
    BY <2>1, PlusPetit
  <2> QED BY <2>2
<1>3. a \in Nat /\ a <= DEFAULT_SIZE
  BY Taille
<1>4. n # 0
  BY <1>1, <1>2 DEF Liste
<1>5. n \in 1..a /\ n \in 1..DEFAULT_SIZE /\ n - 1 \in 0..a - 1 /\ n - 1 \in 0..a /\ ~(n <= n - 1) /\ n - 1 + 1 = n
  BY <1>2, <1>3, <1>4, Taille
<1>6. M[n - 1] = m[n - 1]
  BY <1>2, <1>5
<1>7. m[n - 1] \in Pages /\ b[m[n - 1]] = m[n]
  BY <1>5 DEF Liste
<1> QED BY <1>1, <1>2, <1>5, <1>6, <1>7 DEF SuivantDe

(* What the free list is in every state. *)
ListeLibre ==
  /\ maillon[available_blocks] = Fin
  /\ \A i \in 0..available_blocks - 1 : maillon[i] \in Pages
  /\ \A i, j \in 0..available_blocks - 1 : maillon[i] = maillon[j] => i = j

LEMMA Maillons ==
  ASSUME MaTypeOK, ListeLibre
  PROVE  /\ Liste(blocks, first_block, available_blocks, [i \in 0..available_blocks |-> maillon[i]])
         /\ maillon[0] = first_block
         /\ \A i \in 0..available_blocks : maillon[i] \in Contenus
         /\ \A i \in 0..available_blocks - 1 : maillon[i] \in Pages /\ blocks[maillon[i]] = maillon[i + 1]
<1>1. blocks \in [Pages -> Contenus] /\ first_block \in Contenus /\ available_blocks \in 0..DEFAULT_SIZE
  BY DEF MaTypeOK, Contenus
<1>2. available_blocks \in Nat /\ available_blocks <= DEFAULT_SIZE /\ DEFAULT_SIZE \in Nat
  BY <1>1, Taille
<1>3. /\ maillon \in [0..DEFAULT_SIZE -> Contenus] /\ maillon[0] = first_block
      /\ \A i \in 1..DEFAULT_SIZE : maillon[i] = SuivantDe(blocks, maillon[i - 1])
  BY <1>1, MarcheExiste, MaillonMarche
<1>4. \A i \in 0..available_blocks : i \in 0..DEFAULT_SIZE
  BY <1>2
<1>5. ASSUME NEW i \in 0..available_blocks - 1 PROVE blocks[maillon[i]] = maillon[i + 1]
  <2>1. i + 1 \in 1..DEFAULT_SIZE /\ i + 1 - 1 = i
    BY <1>2
  <2>2. maillon[i + 1] = SuivantDe(blocks, maillon[i])
    BY <1>3, <2>1
  <2> QED BY <2>2 DEF ListeLibre, SuivantDe
<1> DEFINE m == [i \in 0..available_blocks |-> maillon[i]]
<1>6. m \in [0..available_blocks -> Contenus]
  BY <1>3, <1>4
<1>7. \A i \in 0..available_blocks : m[i] = maillon[i]
  OBVIOUS
<1>8. \A i \in 0..available_blocks - 1 : i \in 0..available_blocks /\ i + 1 \in 0..available_blocks
  BY <1>2
<1>9. 0 \in 0..available_blocks /\ available_blocks \in 0..available_blocks
  BY <1>2
<1> HIDE DEF m
<1>10. Liste(blocks, first_block, available_blocks, m)
  BY <1>3, <1>5, <1>6, <1>7, <1>8, <1>9 DEF Liste, ListeLibre
<1> QED BY <1>3, <1>4, <1>5, <1>10 DEF m, ListeLibre

(* A step that leaves a list leaves the free list. *)
LEMMA NouvelleListe ==
  ASSUME blocks' \in [Pages -> Contenus], first_block' \in Contenus, available_blocks' \in 0..DEFAULT_SIZE,
         NEW m, Liste(blocks', first_block', available_blocks', m)
  PROVE  /\ ListeLibre'
         /\ Chaine' = {m[i] : i \in 0..available_blocks' - 1}
         /\ Chaine' \subseteq Pages
<1>1. maillon' = Marche(blocks', first_block')
  BY DEF maillon, Marche, SuivantDe, Pages, Fin
<1>2. \A i \in 0..available_blocks' : maillon'[i] = m[i]
  BY <1>1, Reconnue
<1>3. available_blocks' \in Nat
  BY Taille
<1>4. available_blocks' \in 0..available_blocks' /\ \A i \in 0..available_blocks' - 1 : i \in 0..available_blocks'
  <2>1. \A a \in Nat : a \in 0..a /\ \A i \in 0..a - 1 : i \in 0..a
    OBVIOUS
  <2> QED BY <1>3, <2>1
<1>5. ListeLibre'
  BY <1>2, <1>4 DEF Liste, ListeLibre
<1> QED BY <1>2, <1>4, <1>5 DEF Chaine, Liste

(* The list has no page twice, so available_blocks counts its pages. *)
LEMMA NbChaine ==
  ASSUME ListeLibre, available_blocks \in 0..DEFAULT_SIZE
  PROVE  /\ Chaine \subseteq Pages /\ IsFiniteSet(Chaine) /\ Cardinality(Chaine) = available_blocks
         /\ \A i \in 0..available_blocks - 1 : maillon[i] \in Chaine
<1>1. available_blocks \in Nat
  BY Taille
<1>2. IsFiniteSet(Chaine) /\ Cardinality(Chaine) = available_blocks
  BY <1>1, SansRepetition DEF ListeLibre, Chaine
<1> QED BY <1>2 DEF Chaine, ListeLibre

-----------------------------------------------------------------------------
(* Sizes, in pages. *)
LEMMA PagesPour ==
  ASSUME NEW size \in Nat \ {0}
  PROVE  /\ NbPages(size) \in Nat \ {0}
         /\ \A n \in Nat : Page * n >= size => NbPages(size) <= n
         /\ \A n \in Nat : NbPages(size) <= n => Page * n >= size
<1> DEFINE x == size + Page - 1
           q == x \div Page
           r == x % Page
<1>0. Page \in Nat \ {0} /\ Page > 1
  BY MemoryAllocAssumption
<1>1. x \in Nat /\ x >= Page /\ x = size + Page - 1
  BY <1>0
<1> HIDE DEF x
<1>2. q \in Nat /\ r \in 0..Page-1 /\ x = Page * q + r
  BY <1>0, <1>1, DivModulo
<1>3. NbPages(size) = q
  BY DEF NbPages, x
<1> HIDE DEF q, r
<1>4. q # 0
  <2> SUFFICES ASSUME q = 0 PROVE FALSE
    OBVIOUS
  <2>1. Page * q = 0
    BY <1>0
  <2> QED BY <1>0, <1>1, <1>2, <2>1
<1>5. ASSUME NEW n \in Nat, Page * n >= size PROVE q <= n
  <2> SUFFICES ASSUME q > n PROVE FALSE
    BY <1>2
  <2> DEFINE d == q - (n + 1)
  <2>1. d \in Nat /\ q = n + 1 + d
    BY <1>2
  <2> HIDE DEF d
  <2>2. Page * q = Page * n + Page + Page * d
    BY <1>0, <2>1
  <2>3. Page * d \in Nat /\ Page * n \in Nat
    BY <1>0, <2>1
  <2> QED BY <1>0, <1>1, <1>2, <1>5, <2>2, <2>3
<1>6. ASSUME NEW n \in Nat, q <= n PROVE Page * n >= size
  <2> DEFINE d == n - q
  <2>1. d \in Nat /\ n = q + d
    BY <1>2, <1>6
  <2> HIDE DEF d
  <2>2. Page * n = Page * q + Page * d
    BY <1>0, <1>2, <2>1
  <2>3. Page * d \in Nat
    BY <1>0, <2>1
  <2> QED BY <1>0, <1>1, <1>2, <2>2, <2>3
<1> QED BY <1>2, <1>3, <1>4, <1>5, <1>6

(* memory_free gives back all the pages of a size that is one page, or one *)
(* byte more than whole pages.                                             *)
LEMMA RenduEnEntier ==
  ASSUME NEW size \in Nat \ {0}, size = Page \/ size % Page = 1
  PROVE  NbTours(size) + 1 = NbPages(size)
<1>0. Page \in Nat \ {0} /\ Page > 1
  BY MemoryAllocAssumption
<1>1. CASE size = Page
  <2>1. size + Page - 1 = Page * 1 + (Page - 1) /\ Page - 1 \in 0..Page-1
    BY <1>0, <1>1
  <2>2. NbPages(size) = 1
    BY <1>0, <2>1, Quotient DEF NbPages
  <2> QED BY <1>1, <2>2 DEF NbTours
<1>2. CASE size # Page /\ size % Page = 1
  <2> DEFINE q == size \div Page
  <2>1. q \in Nat /\ size = Page * q + 1
    BY <1>0, <1>2, DivModulo
  <2> HIDE DEF q
  <2>2. size - 1 + Page - 1 = Page * q + (Page - 1) /\ Page - 1 \in 0..Page-1
    BY <1>0, <2>1
  <2>3. NbTours(size) = q
    BY <1>0, <1>2, <2>1, <2>2, Quotient DEF NbTours
  <2>4. Page * (q + 1) = Page * q + Page
    BY <1>0, <2>1
  <2>5. size + Page - 1 = Page * (q + 1) + 0 /\ 0 \in 0..Page-1
    BY <1>0, <2>1, <2>4
  <2>6. NbPages(size) = q + 1
    BY <1>0, <2>1, <2>5, Quotient DEF NbPages
  <2> QED BY <2>3, <2>6
<1> QED BY <1>1, <1>2

(* The run of consecutive pages that allocate_memory counts is in the list. *)
LEMMA Consecutives ==
  ASSUME MaTypeOK, ListeLibre, first_block # Fin
  PROVE  /\ nb_consecutive_blocks \in Nat /\ nb_consecutive_blocks <= available_blocks
         /\ \A i \in 0..nb_consecutive_blocks - 1 : maillon[i] = first_block + i
<1> DEFINE Suivi(n) == \A i \in 0..n-2 : first_block + i \in Pages /\ blocks[first_block + i] = first_block + i + 1
           S == {n \in 1..DEFAULT_SIZE : Suivi(n)}
           n == nb_consecutive_blocks
<1>0. /\ DEFAULT_SIZE \in Nat /\ DEFAULT_SIZE > 0 /\ Pages \subseteq Nat /\ first_block \in Pages /\ first_block \in Nat
      /\ available_blocks \in Nat /\ available_blocks <= DEFAULT_SIZE /\ Fin = -1 /\ Donnee = -10 /\ Fin \notin Pages
  BY Taille DEF MaTypeOK
<1>1. 1 \in S
  <2>1. 1 \in 1..DEFAULT_SIZE /\ 0..1-2 = {}
    BY <1>0
  <2> QED BY <2>1
<1>2. n = Max(S)
  BY DEF nb_consecutive_blocks
<1>3. S \subseteq Nat /\ S # {} /\ \A x \in S : x <= DEFAULT_SIZE
  <2>1. S \subseteq 1..DEFAULT_SIZE
    OBVIOUS
  <2> HIDE DEF S
  <2> QED BY <1>0, <1>1, <2>1
<1> HIDE DEF S
<1>4. n \in S
  BY <1>0, <1>2, <1>3, PlusGrand
<1> HIDE DEF n
<1>5. n \in Nat /\ n >= 1 /\ n <= DEFAULT_SIZE /\ Suivi(n)
  BY <1>0, <1>4 DEF S
<1>6. /\ maillon[0] = first_block
      /\ \A i \in 0..available_blocks : maillon[i] \in Contenus
      /\ \A i \in 0..available_blocks - 1 : maillon[i] \in Pages /\ blocks[maillon[i]] = maillon[i + 1]
      /\ maillon[available_blocks] = Fin
  BY Maillons DEF ListeLibre
<1> DEFINE E == {i \in 0..n - 1 : ~(i < available_blocks /\ maillon[i] = first_block + i)}
<1>7. E = {}
  <2> SUFFICES ASSUME E # {} PROVE FALSE
    OBVIOUS
  <2>1. PICK k \in E : \A j \in E : k <= j
    <3>1. E \subseteq Nat
      BY <1>5
    <3>2. Min(E) \in E /\ \A k \in E : Min(E) <= k
      BY <3>1, PlusPetit
    <3> QED BY <3>2
  <2>2. k \in Nat /\ k \in 0..n - 1
    BY <1>5, <2>1
  <2>3. available_blocks # 0
    BY <1>0, <1>6
  <2>4. k # 0
    BY <1>0, <1>6, <2>1, <2>3
  <2>5. k - 1 \in 0..n - 1 /\ k - 1 \in 0..n - 2 /\ ~(k <= k - 1) /\ k - 1 + 1 = k
    BY <1>5, <2>2, <2>4
  <2>6. k - 1 < available_blocks /\ maillon[k - 1] = first_block + (k - 1)
    BY <2>1, <2>5
  <2>7. k - 1 \in 0..available_blocks - 1 /\ k \in 0..available_blocks
    BY <1>0, <2>2, <2>4, <2>6
  <2>8. blocks[first_block + (k - 1)] = maillon[k]
    BY <1>6, <2>5, <2>6, <2>7
  <2>9. maillon[k] = first_block + k
    <3>1. blocks[first_block + (k - 1)] = first_block + (k - 1) + 1
      BY <1>5, <2>5
    <3> QED BY <1>0, <2>2, <2>8, <3>1
  <2>10. k # available_blocks
    BY <1>0, <1>6, <2>2, <2>9
  <2>11. k < available_blocks
    BY <1>0, <2>7, <2>10
  <2> QED BY <2>1, <2>9, <2>11
<1>8. \A i \in 0..n - 1 : i < available_blocks /\ maillon[i] = first_block + i
  BY <1>7
<1>9. n <= available_blocks
  <2>1. n - 1 \in 0..n - 1
    BY <1>5
  <2> QED BY <1>0, <1>5, <1>8, <2>1
<1> QED BY <1>5, <1>8, <1>9 DEF n

-----------------------------------------------------------------------------
(* A page is in the list or in one allocation, never in two places.        *)
TaillesRendues == \A s \in Tailles : s = Page \/ s % Page = 1

MaIInv ==
  /\ MaTypeOK /\ ListeLibre
  /\ Chaine = Pages \ Occupees
  /\ Disjoints

LEMMA Etendues ==
  ASSUME MaTypeOK, NEW a \in alloues
  PROVE  /\ a \in [adr : Pages, taille : Tailles] /\ a.adr \in Pages /\ a.adr \in Nat /\ a.taille \in Nat \ {0} /\ a.taille \in Tailles
         /\ NbPages(a.taille) \in Nat \ {0} /\ a.adr \in Etendue(a.adr, NbPages(a.taille))
         /\ Etendue(a.adr, NbPages(a.taille)) \subseteq Occupees
<1>1. /\ a \in [adr : Pages, taille : Tailles] /\ a.adr \in Pages /\ a.adr \in Nat
      /\ a.taille \in Nat \ {0} /\ a.taille \in Tailles
  BY Taille, MemoryAllocAssumption DEF MaTypeOK
<1>2. NbPages(a.taille) \in Nat \ {0}
  BY <1>1, PagesPour
<1> QED BY <1>1, <1>2 DEF Etendue, Occupees

LEMMA TailleEtendue ==
  ASSUME NEW d \in Nat, NEW n \in Nat
  PROVE  IsFiniteSet(Etendue(d, n)) /\ Cardinality(Etendue(d, n)) = n
<1> DEFINE f == d + n - 1
<1>1. f \in Int /\ f - d + 1 = n /\ (d > f => n = 0)
  OBVIOUS
<1> HIDE DEF f
<1>2. IsFiniteSet(d..f) /\ Cardinality(d..f) = IF d > f THEN 0 ELSE f - d + 1
  BY <1>1, FS_Interval
<1> QED BY <1>1, <1>2 DEF Etendue, f

LEMMA MaInitialisation == MaInit => MaIInv
<1> SUFFICES ASSUME MaInit PROVE MaIInv
  OBVIOUS
<1> DEFINE m == [i \in 0..DEFAULT_SIZE |-> IF i = DEFAULT_SIZE THEN Fin ELSE i]
<1>0. DEFAULT_SIZE \in Nat /\ DEFAULT_SIZE > 0
  BY Taille
<1>1. MaTypeOK
  BY Taille DEF MaInit, MaTypeOK, Contenus
<1>2. Liste(blocks, first_block, available_blocks, m)
  <2>1. m \in [0..DEFAULT_SIZE -> Contenus] /\ m[0] = 0 /\ m[DEFAULT_SIZE] = Fin
    BY Taille DEF Contenus
  <2>2. ASSUME NEW i \in 0..DEFAULT_SIZE - 1 PROVE m[i] = i /\ m[i] \in Pages /\ blocks[m[i]] = m[i + 1]
    BY Taille DEF MaInit
  <2> QED BY <2>1, <2>2 DEF Liste, MaInit
<1>3. Marche(blocks, first_block) = maillon
  BY MaillonMarche
<1>4. \A i \in 0..DEFAULT_SIZE : maillon[i] = m[i]
  <2>1. blocks \in [Pages -> Contenus] /\ first_block \in Contenus /\ available_blocks = DEFAULT_SIZE
    BY <1>1 DEF MaTypeOK, Contenus, MaInit
  <2> QED BY <1>0, <1>2, <1>3, <2>1, Reconnue
<1>5. ListeLibre
  <2>1. available_blocks = DEFAULT_SIZE
    BY DEF MaInit
  <2>2. DEFAULT_SIZE \in 0..DEFAULT_SIZE /\ \A i \in 0..DEFAULT_SIZE - 1 : i \in 0..DEFAULT_SIZE
    BY <1>0
  <2> HIDE DEF m
  <2> QED BY <1>2, <1>4, <2>1, <2>2 DEF ListeLibre, Liste
<1>6. Chaine = Pages
  <2>1. \A i \in 0..DEFAULT_SIZE - 1 : maillon[i] = i
    BY <1>0, <1>4
  <2> QED BY <1>0, <2>1, Taille DEF Chaine, MaInit
<1>7. Occupees = {} /\ Disjoints
  BY DEF MaInit, Occupees, Disjoints
<1> QED BY <1>1, <1>5, <1>6, <1>7 DEF MaIInv

(* The pages that are given out are the first of the list. *)
LEMMA PasAllouer == ASSUME MaIInv, NEW size \in Tailles, Allouer(size) PROVE MaIInv'
<1> USE DEF MaIInv
<1> DEFINE n == NbPages(size)
           a == available_blocks
           m == [i \in 0..a - n |-> maillon[n + i]]
           r == [adr |-> first_block, taille |-> size]
<1>1. /\ first_block # Fin /\ Page * nb_consecutive_blocks >= size
      /\ blocks' = [i \in Pages |-> IF i \in {maillon[k] : k \in 0..n-1} THEN Donnee ELSE blocks[i]]
      /\ available_blocks' = a - n /\ first_block' = maillon[n]
      /\ alloues' = alloues \union {r} /\ UNCHANGED error_no
  BY DEF Allouer
<1>2. size \in Nat \ {0} /\ first_block \in Pages /\ a \in Nat /\ a <= DEFAULT_SIZE /\ DEFAULT_SIZE \in Nat
  BY <1>1, MemoryAllocAssumption, Taille DEF MaTypeOK
<1>3. n \in Nat /\ n > 0 /\ n <= a /\ \A i \in 0..n - 1 : maillon[i] = first_block + i
  <2>1. /\ nb_consecutive_blocks \in Nat /\ nb_consecutive_blocks <= a
        /\ \A i \in 0..nb_consecutive_blocks - 1 : maillon[i] = first_block + i
    BY <1>1, Consecutives
  <2>2. n \in Nat \ {0} /\ n <= nb_consecutive_blocks
    BY <1>1, <1>2, <2>1, PagesPour
  <2> HIDE DEF n
  <2> QED BY <1>2, <2>1, <2>2
<1>4. /\ \A i \in 0..a : maillon[i] \in Contenus
      /\ \A i \in 0..a - 1 : maillon[i] \in Pages /\ blocks[maillon[i]] = maillon[i + 1]
      /\ maillon[a] = Fin /\ maillon[0] = first_block
      /\ \A i, j \in 0..a - 1 : maillon[i] = maillon[j] => i = j
  BY Maillons DEF ListeLibre
<1>5. blocks \in [Pages -> Contenus]
  BY DEF MaTypeOK, Contenus
<1> DEFINE PagesPrises == {maillon[k] : k \in 0..n-1}
<1>6. PagesPrises = Etendue(first_block, n)
  <2>1. \A i \in 0..n-1 : first_block + i \in PagesPrises /\ maillon[i] \in Etendue(first_block, n)
    <3>1. \A i \in 0..n-1 : first_block + i \in first_block..first_block+n-1
      BY <1>2, <1>3, Taille
    <3> QED BY <1>3, <3>1 DEF Etendue
  <2>2. ASSUME NEW x \in Etendue(first_block, n) PROVE x \in PagesPrises
    <3>1. x - first_block \in 0..n-1 /\ first_block + (x - first_block) = x
      BY <1>2, <1>3, Taille DEF Etendue
    <3> HIDE DEF PagesPrises
    <3> QED BY <2>1, <3>1
  <2> QED BY <2>1, <2>2
<1>7. PagesPrises \subseteq Chaine
  BY <1>2, <1>3 DEF Chaine
<1> HIDE DEF n
<1>8. /\ blocks' \in [Pages -> Contenus] /\ first_block' \in Contenus /\ available_blocks' \in 0..DEFAULT_SIZE
      /\ n \in 0..a
  <2>1. n \in 0..a /\ a - n \in 0..DEFAULT_SIZE
    BY <1>2, <1>3
  <2> QED BY <1>1, <1>4, <1>5, <2>1, Taille DEF Contenus
<1>9. Liste(blocks', first_block', available_blocks', m)
  <2>0. /\ \A i \in 0..a - n : n + i \in 0..a
        /\ \A i \in 0..a - n - 1 : /\ n + i \in 0..a - 1 /\ n + (i + 1) = n + i + 1 /\ i + 1 \in 0..a - n /\ i \in 0..a - n
        /\ 0 \in 0..a - n /\ a - n \in 0..a - n /\ n + 0 = n /\ n + (a - n) = a
    BY <1>2, <1>3
  <2>1. m \in [0..a - n -> Contenus] /\ m[0] = first_block' /\ m[a - n] = Fin
    BY <1>1, <1>4, <2>0
  <2>2. ASSUME NEW i \in 0..a - n - 1 PROVE m[i] \in Pages /\ blocks'[m[i]] = m[i + 1]
    <3>1. m[i] = maillon[n + i] /\ m[i + 1] = maillon[n + i + 1] /\ n + i \in 0..a - 1
      BY <2>0
    <3>2. maillon[n + i] \in Pages /\ blocks[maillon[n + i]] = maillon[n + i + 1]
      BY <1>4, <3>1
    <3>3. maillon[n + i] \notin PagesPrises
      <4> SUFFICES ASSUME NEW k \in 0..n-1, maillon[n + i] = maillon[k] PROVE FALSE
        OBVIOUS
      <4>1. k \in 0..a - 1 /\ k # n + i
        BY <1>2, <1>3
      <4> QED BY <1>4, <3>1, <4>1
    <3> QED BY <1>1, <3>1, <3>2, <3>3
  <2>3. ASSUME NEW i \in 0..a - n - 1, NEW j \in 0..a - n - 1, m[i] = m[j] PROVE i = j
    <3>1. maillon[n + i] = maillon[n + j] /\ n + i \in 0..a - 1 /\ n + j \in 0..a - 1
      BY <2>0, <2>3
    <3>2. n + i = n + j
      BY <1>4, <3>1
    <3> QED BY <1>3, <3>2
  <2> HIDE DEF m
  <2> QED BY <1>1, <2>1, <2>2, <2>3 DEF Liste
<1>10. /\ ListeLibre' /\ Chaine' = {m[i] : i \in 0..a - n - 1}
  BY <1>1, <1>8, <1>9, NouvelleListe
<1>11. Chaine' = Chaine \ PagesPrises
  <2>0. /\ \A i \in 0..a - n - 1 : n + i \in 0..a - 1 /\ i \in 0..a - n
        /\ \A j \in 0..a - 1 : j \notin 0..n-1 => j - n \in 0..a - n - 1 /\ n + (j - n) = j
        /\ \A j \in 0..n - 1 : \A i \in 0..a - n - 1 : j \in 0..a - 1 /\ j # n + i
    BY <1>2, <1>3
  <2>1. Chaine' = {maillon[n + i] : i \in 0..a - n - 1}
    <3>1. \A i \in 0..a - n - 1 : m[i] = maillon[n + i]
      BY <2>0
    <3> HIDE DEF m
    <3> QED BY <1>10, <3>1
  <2>2. ASSUME NEW x \in Chaine' PROVE x \in Chaine \ PagesPrises
    <3>1. PICK i \in 0..a - n - 1 : x = maillon[n + i]
      BY <2>1, <2>2
    <3> QED BY <1>4, <2>0, <3>1 DEF Chaine
  <2>3. ASSUME NEW x \in Chaine \ PagesPrises PROVE x \in Chaine'
    <3>1. PICK j \in 0..a - 1 : x = maillon[j]
      BY <2>3 DEF Chaine
    <3>2. j \notin 0..n - 1
      BY <2>3, <3>1
    <3> QED BY <2>0, <2>1, <3>1, <3>2
  <2> QED BY <2>2, <2>3
<1> HIDE DEF PagesPrises
<1>12. Occupees' = Occupees \union PagesPrises
  <2>1. Etendue(r.adr, NbPages(r.taille)) = PagesPrises
    BY <1>6 DEF n
  <2> QED BY <1>1, <2>1 DEF Occupees
<1>13. Chaine' = Pages \ Occupees'
  BY <1>11, <1>12
<1>14. MaTypeOK'
  <2>1. r \in [adr : Pages, taille : Tailles]
    BY <1>2
  <2>2. alloues' \subseteq [adr : Pages, taille : Tailles]
    BY <1>1, <2>1 DEF MaTypeOK
  <2>3. error_no' \in {"E_SUCCESS", "E_NOMEM", "E_MEM_FULL"}
    BY <1>1 DEF MaTypeOK
  <2>4. first_block' \in Pages \union {Fin}
    <3>1. n \in 0..a - 1 \/ n = a
      BY <1>2, <1>3
    <3> QED BY <1>1, <1>4, <3>1
  <2> HIDE DEF r
  <2> QED BY <1>8, <2>2, <2>3, <2>4 DEF MaTypeOK, Contenus
<1>15. Disjoints'
  <2>1. Etendue(r.adr, NbPages(r.taille)) = PagesPrises
    BY <1>6 DEF n
  <2>2. \A x \in alloues : Etendue(x.adr, NbPages(x.taille)) \intersect PagesPrises = {}
    BY <1>7 DEF Occupees
  <2>3. Occupees' \subseteq Pages
    BY <1>7, <1>12 DEF Disjoints
  <2> HIDE DEF r
  <2> QED BY <1>1, <2>1, <2>2, <2>3 DEF Disjoints
<1> QED BY <1>10, <1>13, <1>14, <1>15

(* The pages that come back go first. *)
LEMMA PasLiberer ==
  ASSUME MaIInv, TaillesRendues, NEW al \in alloues, Liberer(al)
  PROVE  MaIInv'
<1> USE DEF MaIInv
<1> DEFINE k == NbTours(al.taille)
           n == NbPages(al.taille)
           d == al.adr
           a == available_blocks
           Rendus == Etendue(d, n)
           m == [i \in 0..a + n |-> IF i < n THEN d + i ELSE maillon[i - n]]
<1>1. /\ d \in Pages /\ d \in Nat /\ n \in Nat /\ n > 0 /\ Rendus \subseteq Occupees /\ Occupees \subseteq Pages
      /\ al.taille \in Nat \ {0} /\ al.taille \in Tailles
  BY Etendues DEF Disjoints
<1>2. k + 1 = n /\ k = n - 1
  <2>1. k + 1 = n
    BY <1>1, RenduEnEntier DEF TaillesRendues
  <2>2. k \in Int
    BY <1>1, MemoryAllocAssumption DEF NbTours
  <2> HIDE DEF k, n
  <2> QED BY <1>1, <2>1, <2>2
<1> HIDE DEF n
<1>3. \A i : i \in Rendus <=> i \in Nat /\ i >= d /\ i < d + n
  BY <1>1 DEF Etendue
<1>4. d + k \in Pages /\ d + k = d + n - 1
  <2>1. d + n - 1 \in Nat /\ d + n - 1 >= d /\ d + n - 1 < d + n /\ d + k = d + n - 1
    BY <1>1, <1>2
  <2> HIDE DEF Rendus, k, d
  <2> QED BY <1>1, <1>3, <2>1
<1>5. /\ blocks' = [i \in Pages |-> IF i \in Etendue(d, k) THEN i + 1
                                    ELSE IF i = d + k THEN first_block ELSE blocks[i]]
      /\ available_blocks' = a + n /\ first_block' = d /\ alloues' = alloues \ {al} /\ UNCHANGED error_no
  <2>1. a + k + 1 = a + n
    BY <1>1, <1>2, Taille DEF MaTypeOK
  <2>2. available_blocks' \in {a + k + 1}
    BY <1>4 DEF Liberer
  <2> HIDE DEF k
  <2> QED BY <2>1, <2>2 DEF Liberer, k
<1>6. a \in Nat /\ DEFAULT_SIZE \in Nat /\ Pages \subseteq Nat /\ Pages = 0..DEFAULT_SIZE - 1
  BY Taille DEF MaTypeOK
<1>7. /\ \A i \in 0..a : maillon[i] \in Contenus
      /\ \A i \in 0..a - 1 : maillon[i] \in Pages /\ blocks[maillon[i]] = maillon[i + 1]
      /\ maillon[a] = Fin /\ maillon[0] = first_block
      /\ \A i, j \in 0..a - 1 : maillon[i] = maillon[j] => i = j
  BY Maillons DEF ListeLibre
<1>8. \A i \in 0..a - 1 : maillon[i] \notin Rendus
  BY <1>1 DEF Chaine
<1>9. a + n <= DEFAULT_SIZE
  <2>1. Chaine \subseteq Pages /\ IsFiniteSet(Chaine) /\ Cardinality(Chaine) = a
    BY NbChaine DEF MaTypeOK
  <2>2. IsFiniteSet(Rendus) /\ Cardinality(Rendus) = n
    BY <1>1, TailleEtendue
  <2>3. IsFiniteSet(Pages) /\ Cardinality(Pages) = DEFAULT_SIZE
    BY <1>6, FS_Interval
  <2>4. Chaine \intersect Rendus = {} /\ Chaine \union Rendus \subseteq Pages
    BY <1>1, <2>1
  <2>5. Cardinality(Chaine \union Rendus) = a + n
    <3>1. Cardinality(Chaine \union Rendus) = Cardinality(Chaine) + Cardinality(Rendus) - Cardinality(Chaine \intersect Rendus)
      BY <2>1, <2>2, FS_Union
    <3>2. Cardinality(Chaine \intersect Rendus) = 0
      BY <2>4, FS_EmptySet
    <3> HIDE DEF Rendus
    <3> QED BY <1>1, <1>6, <2>1, <2>2, <3>1, <3>2
  <2> QED BY <2>3, <2>4, <2>5, FS_Subset
<1> HIDE DEF k, d
<1>10. /\ blocks' \in [Pages -> Contenus] /\ first_block' \in Contenus /\ available_blocks' \in 0..DEFAULT_SIZE
  <2>1. \A i \in Pages : i \in Etendue(d, k) => i + 1 \in Pages
    <3>1. ASSUME NEW i \in Etendue(d, k) PROVE i + 1 \in Rendus
      <4>1. i \in Nat /\ i + 1 >= d /\ i + 1 < d + n
        BY <1>1, <1>2 DEF Etendue
      <4> HIDE DEF Rendus
      <4> QED BY <1>3, <4>1
    <3> QED BY <1>1, <3>1
  <2>2. blocks \in [Pages -> Contenus] /\ first_block \in Contenus /\ Pages \subseteq Contenus
    BY Taille DEF MaTypeOK, Contenus
  <2>3. blocks' \in [Pages -> Contenus]
    BY <1>5, <2>1, <2>2
  <2> QED BY <1>1, <1>5, <1>6, <1>9, <2>2, <2>3
<1>11. /\ \A i \in 0..n - 1 : m[i] = d + i /\ d + i \in Rendus
       /\ \A i \in n..a + n : m[i] = maillon[i - n] /\ i - n \in 0..a
       /\ \A i \in n..a + n - 1 : m[i] = maillon[i - n] /\ i - n \in 0..a - 1 /\ m[i + 1] = maillon[i - n + 1]
       /\ m[0] = d /\ m[a + n] = Fin /\ m[n] = first_block
  <2>1. /\ \A i \in 0..n - 1 : m[i] = d + i /\ d + i \in Nat /\ d + i >= d /\ d + i < d + n
        /\ \A i \in n..a + n : m[i] = maillon[i - n] /\ i - n \in 0..a
        /\ \A i \in n..a + n - 1 : i \in n..a + n /\ i + 1 \in n..a + n /\ i - n \in 0..a - 1 /\ i + 1 - n = i - n + 1
        /\ 0 \in 0..n - 1 /\ a + n \in n..a + n /\ n \in n..a + n /\ a + n - n = a /\ n - n = 0 /\ d + 0 = d
    BY <1>1, <1>6
  <2> HIDE DEF m, Rendus
  <2>2. m[0] = d /\ m[a + n] = Fin /\ m[n] = first_block
    <3>1. m[0] = d + 0
      BY <2>1
    <3>2. m[a + n] = maillon[a]
      BY <1>1, <1>6, <2>1
    <3>3. m[n] = maillon[0]
      <4>1. \A i \in n..a + n : m[i] = maillon[i - n]
        BY <2>1
      <4> QED BY <1>1, <2>1, <4>1
    <3> QED BY <1>7, <2>1, <3>1, <3>2, <3>3
  <2>3. \A i \in n..a + n - 1 : m[i] = maillon[i - n] /\ m[i + 1] = maillon[i - n + 1]
    BY <2>1
  <2> QED BY <1>3, <2>1, <2>2, <2>3
<1>12. m \in [0..a + n -> Contenus]
  <2>1. \A i \in 0..a + n : i \in 0..n - 1 \/ i \in n..a + n
    BY <1>1, <1>6
  <2>2. \A i \in 0..a + n : m[i] \in Contenus
    <3> HIDE DEF m, Rendus
    <3> QED BY <1>1, <1>7, <1>11, <2>1, Taille
  <2> QED BY <2>2
<1> HIDE DEF m
<1>13. \A i \in 0..a + n - 1 : i \in 0..n - 1 \/ i \in n..a + n - 1
  BY <1>1, <1>6
<1>14. ASSUME NEW i \in 0..a + n - 1 PROVE m[i] \in Pages /\ blocks'[m[i]] = m[i + 1]
  <2>1. CASE i \in 0..n - 1
    <3>1. m[i] = d + i /\ d + i \in Rendus /\ d + i \in Pages
      BY <1>1, <1>11, <2>1
    <3>2. CASE i = n - 1
      <4>1. d + i = d + k /\ i + 1 = n /\ d + i \notin Etendue(d, k)
        BY <1>1, <1>2, <3>2 DEF Etendue
      <4> QED BY <1>5, <1>11, <3>1, <4>1
    <3>3. CASE i # n - 1
      <4>1. d + i \in Etendue(d, k) /\ i + 1 \in 0..n - 1 /\ d + i + 1 = d + (i + 1)
        BY <1>1, <1>2, <2>1, <3>3 DEF Etendue
      <4>2. blocks'[d + i] = d + i + 1
        BY <1>5, <3>1, <4>1
      <4> QED BY <1>11, <3>1, <4>1, <4>2
    <3> QED BY <3>2, <3>3
  <2>2. CASE i \in n..a + n - 1
    <3>1. m[i] = maillon[i - n] /\ i - n \in 0..a - 1 /\ m[i + 1] = maillon[i - n + 1]
      BY <1>11, <2>2
    <3>2. maillon[i - n] \in Pages /\ blocks[maillon[i - n]] = maillon[i - n + 1] /\ maillon[i - n] \notin Rendus
      BY <1>7, <1>8, <3>1
    <3>3. \A p : p \in Etendue(d, k) \/ p = d + k => p \in Rendus
      BY <1>1, <1>2 DEF Etendue
    <3> QED BY <1>5, <3>1, <3>2, <3>3
  <2> QED BY <1>13, <2>1, <2>2
<1>15. ASSUME NEW i \in 0..a + n - 1, NEW j \in 0..a + n - 1, m[i] = m[j] PROVE i = j
  <2>1. CASE i \in 0..n - 1 /\ j \in 0..n - 1
    <3>1. d + i = d + j
      BY <1>11, <1>15, <2>1
    <3> QED BY <1>1, <2>1, <3>1
  <2>2. CASE i \in n..a + n - 1 /\ j \in n..a + n - 1
    <3>1. maillon[i - n] = maillon[j - n] /\ i - n \in 0..a - 1 /\ j - n \in 0..a - 1
      BY <1>11, <1>15, <2>2
    <3>2. i - n = j - n
      BY <1>7, <3>1
    <3> QED BY <1>1, <1>6, <3>2
  <2>3. CASE i \in 0..n - 1 /\ j \in n..a + n - 1
    BY <1>8, <1>11, <1>15, <2>3
  <2>4. CASE i \in n..a + n - 1 /\ j \in 0..n - 1
    BY <1>8, <1>11, <1>15, <2>4
  <2> QED BY <1>13, <2>1, <2>2, <2>3, <2>4
<1>16. Liste(blocks', first_block', available_blocks', m)
  <2>1. available_blocks' = a + n /\ first_block' = d
    BY <1>5
  <2> DEFINE b == available_blocks'
  <2>2. m \in [0..b -> Contenus] /\ m[0] = first_block' /\ m[b] = Fin
    BY <1>11, <1>12, <2>1
  <2>3. \A i \in 0..b - 1 : m[i] \in Pages /\ blocks'[m[i]] = m[i + 1]
    BY <1>1, <1>6, <1>14, <2>1
  <2>4. \A i, j \in 0..b - 1 : m[i] = m[j] => i = j
    BY <1>1, <1>6, <1>15, <2>1
  <2> QED BY <2>2, <2>3, <2>4 DEF Liste
<1>17. ListeLibre' /\ Chaine' = {m[i] : i \in 0..a + n - 1}
  <2>1. ListeLibre' /\ Chaine' = {m[i] : i \in 0..available_blocks' - 1}
    BY <1>10, <1>16, NouvelleListe
  <2>2. available_blocks' - 1 = a + n - 1
    BY <1>1, <1>5, <1>6
  <2> QED BY <2>1, <2>2
<1>18. Chaine' = Chaine \union Rendus
  <2>1. ASSUME NEW x \in Chaine' PROVE x \in Chaine \union Rendus
    <3>1. PICK i \in 0..a + n - 1 : x = m[i]
      BY <1>17
    <3>2. CASE i \in 0..n - 1
      BY <1>11, <3>1, <3>2
    <3>3. CASE i \in n..a + n - 1
      BY <1>11, <3>1, <3>3 DEF Chaine
    <3> QED BY <1>13, <3>2, <3>3
  <2>2. ASSUME NEW x \in Rendus PROVE x \in Chaine'
    <3>1. x - d \in 0..n - 1 /\ x - d \in 0..a + n - 1 /\ d + (x - d) = x
      BY <1>1, <1>6 DEF Etendue
    <3> QED BY <1>11, <1>17, <3>1
  <2>3. ASSUME NEW x \in Chaine PROVE x \in Chaine'
    <3>1. PICK j \in 0..a - 1 : x = maillon[j]
      BY DEF Chaine
    <3>2. j + n \in n..a + n - 1 /\ j + n \in 0..a + n - 1 /\ j + n - n = j
      BY <1>1, <1>6
    <3>3. m[j + n] = maillon[j]
      <4>1. \A i \in n..a + n - 1 : m[i] = maillon[i - n]
        BY <1>11
      <4> QED BY <1>1, <1>6, <3>2, <4>1
    <3> QED BY <1>17, <3>1, <3>2, <3>3
  <2> QED BY <2>1, <2>2, <2>3
<1>19. Occupees' = Occupees \ Rendus
  <2>1. Rendus = Etendue(al.adr, NbPages(al.taille))
    BY DEF d, n
  <2>2. \A x \in alloues : x # al => Etendue(x.adr, NbPages(x.taille)) \intersect Rendus = {}
    BY <2>1 DEF Disjoints
  <2> HIDE DEF Rendus
  <2> QED BY <1>5, <2>1, <2>2 DEF Occupees
<1>20. Chaine' = Pages \ Occupees'
  BY <1>1, <1>18, <1>19
<1>21. MaTypeOK'
  <2>1. alloues' \subseteq [adr : Pages, taille : Tailles]
    BY <1>5 DEF MaTypeOK
  <2>2. error_no' \in {"E_SUCCESS", "E_NOMEM", "E_MEM_FULL"}
    BY <1>5 DEF MaTypeOK
  <2> QED BY <1>1, <1>5, <1>10, <2>1, <2>2 DEF MaTypeOK, Contenus
<1>22. Disjoints'
  <2>1. Occupees' \subseteq Pages
    BY <1>1, <1>19
  <2> QED BY <1>5, <2>1 DEF Disjoints
<1> QED BY <1>17, <1>20, <1>21, <1>22

-----------------------------------------------------------------------------
(* The sorted list: each page of it holds the next one, in increasing      *)
(* order, and the last one the end of the list.                            *)
LEMMA Suivante ==
  ASSUME MaIInv, first_block # Fin, Trier
  PROVE  /\ blocks' \in [Pages -> Contenus] /\ first_block' \in Chaine
         /\ \A x \in Chaine : first_block' <= x
         /\ \A x \in Chaine : \/ blocks'[x] = Fin /\ \A j \in Chaine : ~(j > x)
                              \/ /\ blocks'[x] \in Chaine /\ blocks'[x] > x
                                 /\ \A j \in Chaine : j > x => blocks'[x] <= j
<1>1. /\ blocks \in [Pages -> Contenus] /\ available_blocks \in Nat /\ available_blocks # 0
      /\ Chaine \subseteq Pages /\ Pages \subseteq Nat /\ Pages \subseteq Contenus /\ Fin \in Contenus
      /\ maillon[available_blocks] = Fin
  <2>1. maillon[0] = first_block
    BY Maillons DEF MaIInv
  <2> QED BY <2>1, NbChaine, Taille DEF MaIInv, MaTypeOK, ListeLibre, Contenus
<1>2. Chaine # {}
  <2>1. 0 \in 0..available_blocks - 1
    BY <1>1
  <2> QED BY <2>1 DEF Chaine
<1>3. first_block' \in Chaine /\ \A x \in Chaine : first_block' <= x
  BY <1>1, <1>2, PlusPetit DEF Trier
<1>4. ASSUME NEW x \in Chaine
      PROVE  \/ blocks'[x] = Fin /\ \A j \in Chaine : ~(j > x)
             \/ /\ blocks'[x] \in Chaine /\ blocks'[x] > x
                /\ \A j \in Chaine : j > x => blocks'[x] <= j
  <2> DEFINE suivants == {j \in Chaine : j > x}
  <2>1. blocks'[x] = IF suivants = {} THEN Fin ELSE Min(suivants)
    BY <1>1 DEF Trier, Ordonne
  <2>2. CASE suivants = {}
    BY <2>1, <2>2
  <2>3. CASE suivants # {}
    <3>1. suivants \subseteq Nat
      BY <1>1
    <3>2. Min(suivants) \in suivants /\ \A y \in suivants : Min(suivants) <= y
      BY <2>3, <3>1, PlusPetit
    <3> QED BY <2>1, <2>3, <3>2
  <2> QED BY <2>2, <2>3
<1>5. blocks' \in [Pages -> Contenus]
  <2>1. \A x \in Pages : x \notin Chaine => blocks'[x] = blocks[x]
    BY DEF Trier, Ordonne
  <2>2. \A x \in Pages : blocks'[x] \in Contenus
    BY <1>1, <1>4, <2>1
  <2>3. blocks' = [x \in Pages |-> blocks'[x]]
    BY DEF Trier, Ordonne
  <2> QED BY <2>2, <2>3
<1> QED BY <1>3, <1>4, <1>5

(* Walking it, i pages are behind after i steps. *)
LEMMA PasTrier ==
  ASSUME MaIInv, first_block # Fin, Trier, UNCHANGED <<available_blocks, alloues>>,
         error_no' \in {"E_SUCCESS", "E_NOMEM", "E_MEM_FULL"}
  PROVE  MaIInv' /\ Chaine' = Chaine
<1> USE DEF MaIInv
<1> DEFINE a == available_blocks
           Avant(x) == {j \in Chaine : j < x}
           m == maillon'
<1>1. /\ a \in Nat /\ a # 0 /\ a <= DEFAULT_SIZE /\ DEFAULT_SIZE \in Nat /\ a \in 0..DEFAULT_SIZE
      /\ Chaine \subseteq Pages /\ IsFiniteSet(Chaine) /\ Cardinality(Chaine) = a
      /\ Pages \subseteq Nat /\ Pages \subseteq Contenus /\ Fin \notin Pages /\ Fin \in Contenus
  <2>1. maillon[0] = first_block
    BY Maillons
  <2> QED BY <2>1, NbChaine, Taille DEF MaTypeOK, ListeLibre
<1>2. /\ blocks' \in [Pages -> Contenus] /\ first_block' \in Chaine
      /\ \A x \in Chaine : first_block' <= x
      /\ \A x \in Chaine : \/ blocks'[x] = Fin /\ \A j \in Chaine : ~(j > x)
                           \/ /\ blocks'[x] \in Chaine /\ blocks'[x] > x
                              /\ \A j \in Chaine : j > x => blocks'[x] <= j
  BY Suivante
<1>3. /\ m[0] = first_block'
      /\ \A i \in 1..DEFAULT_SIZE : m[i] = IF m[i - 1] \in Pages THEN blocks'[m[i - 1]] ELSE Fin
  <2>1. first_block' \in Contenus
    BY <1>1, <1>2
  <2>2. m = Marche(blocks', first_block')
    BY DEF maillon, Marche, SuivantDe, Pages, Fin
  <2> HIDE DEF m
  <2> QED BY <1>2, <2>1, <2>2, MarcheExiste DEF SuivantDe
<1> HIDE DEF m
<1>4. ASSUME NEW x \in Chaine
      PROVE  /\ IsFiniteSet(Avant(x)) /\ Cardinality(Avant(x)) \in Nat /\ Cardinality(Avant(x)) < a
             /\ blocks'[x] = Fin => Cardinality(Avant(x)) = a - 1
             /\ blocks'[x] # Fin => /\ blocks'[x] \in Chaine
                                    /\ Cardinality(Avant(blocks'[x])) = Cardinality(Avant(x)) + 1
  <2> DEFINE P == Avant(x) \union {x}
  <2>1. IsFiniteSet(Avant(x)) /\ Cardinality(Avant(x)) \in Nat /\ Avant(x) \subseteq Chaine
    <3>1. Avant(x) \in SUBSET Chaine
      OBVIOUS
    <3> QED BY <1>1, <3>1, FS_Subset, FS_CardinalityType
  <2>2. x \notin Avant(x)
    BY <1>1
  <2>3. IsFiniteSet(P) /\ Cardinality(P) = Cardinality(Avant(x)) + 1 /\ P \in SUBSET Chaine
    <3>1. P \in SUBSET Chaine
      OBVIOUS
    <3> HIDE DEF Avant
    <3> QED BY <2>1, <2>2, <3>1, FS_AddElement
  <2>4. Cardinality(P) <= a /\ (Cardinality(P) = a => Chaine = P)
    BY <1>1, <2>3, FS_Subset
  <2>5. Cardinality(Avant(x)) < a
    BY <1>1, <2>1, <2>3, <2>4
  <2>6. ASSUME blocks'[x] = Fin PROVE Cardinality(Avant(x)) = a - 1
    <3>1. \A j \in Chaine : ~(j > x)
      BY <1>1, <1>2, <2>6
    <3>2. P = Chaine
      <4>1. \A j \in Chaine : j \in Nat /\ (j < x \/ j = x)
        BY <1>1, <3>1
      <4> QED BY <4>1
    <3> QED BY <1>1, <2>1, <2>3, <3>2
  <2>7. ASSUME blocks'[x] # Fin
        PROVE  blocks'[x] \in Chaine /\ Cardinality(Avant(blocks'[x])) = Cardinality(Avant(x)) + 1
    <3>1. blocks'[x] \in Chaine /\ blocks'[x] > x /\ \A j \in Chaine : j > x => blocks'[x] <= j
      BY <1>2, <2>7
    <3> DEFINE y == blocks'[x]
    <3> HIDE DEF y
    <3>2. y \in Chaine /\ y > x /\ \A j \in Chaine : j > x => y <= j
      BY <3>1 DEF y
    <3>3. Avant(y) = P
      <4>1. \A j \in Chaine : j < y <=> (j < x \/ j = x)
        BY <1>1, <3>2
      <4> QED BY <4>1
    <3> QED BY <2>3, <3>2, <3>3 DEF y
  <2> QED BY <2>1, <2>5, <2>6, <2>7
<1>5. Cardinality(Avant(first_block')) = 0
  <2>1. \A j \in Chaine : ~(j < first_block')
    BY <1>1, <1>2
  <2>2. Avant(first_block') = {}
    BY <2>1
  <2> QED BY <2>2, FS_EmptySet
<1> HIDE DEF Avant
<1>6. \A i \in 0..a - 1 : m[i] \in Chaine /\ Cardinality(Avant(m[i])) = i
  <2> DEFINE E == {i \in 0..a - 1 : ~(m[i] \in Chaine /\ Cardinality(Avant(m[i])) = i)}
  <2> SUFFICES ASSUME E # {} PROVE FALSE
    OBVIOUS
  <2>1. PICK k \in E : \A j \in E : k <= j
    <3>1. E \subseteq Nat
      BY <1>1
    <3>2. Min(E) \in E /\ \A k \in E : Min(E) <= k
      BY <3>1, PlusPetit
    <3> QED BY <3>2
  <2>2. k \in 0..a - 1 /\ k # 0
    BY <1>2, <1>3, <1>5, <2>1
  <2>3. k - 1 \in 0..a - 1 /\ ~(k <= k - 1) /\ k \in 1..DEFAULT_SIZE /\ k \in Nat /\ k < a
    BY <1>1, <2>2
  <2>4. m[k - 1] \in Chaine /\ Cardinality(Avant(m[k - 1])) = k - 1
    BY <2>1, <2>3
  <2>5. m[k] = blocks'[m[k - 1]]
    BY <1>1, <1>3, <2>3, <2>4
  <2>6. blocks'[m[k - 1]] # Fin
    <3>1. k - 1 # a - 1
      BY <1>1, <2>3
    <3> QED BY <1>4, <2>4, <3>1
  <2>7. m[k] \in Chaine /\ Cardinality(Avant(m[k])) = k - 1 + 1
    BY <1>4, <2>4, <2>5, <2>6
  <2> QED BY <2>1, <2>3, <2>7
<1>7. m[a] = Fin
  <2>1. a - 1 \in 0..a - 1 /\ a \in 1..DEFAULT_SIZE /\ a - 1 \in Nat
    BY <1>1
  <2>2. m[a - 1] \in Chaine /\ Cardinality(Avant(m[a - 1])) = a - 1
    BY <1>6, <2>1
  <2>3. m[a] = blocks'[m[a - 1]]
    BY <1>1, <1>3, <2>1, <2>2
  <2> SUFFICES ASSUME blocks'[m[a - 1]] # Fin PROVE FALSE
    BY <2>3
  <2>4. blocks'[m[a - 1]] \in Chaine /\ Cardinality(Avant(blocks'[m[a - 1]])) = a - 1 + 1
    BY <1>4, <2>2
  <2>5. Cardinality(Avant(blocks'[m[a - 1]])) < a
    BY <1>4, <2>4
  <2> QED BY <1>1, <2>4, <2>5
<1>8. available_blocks' = a /\ alloues' = alloues
  OBVIOUS
<1>9. ListeLibre'
  <2>1. \A i, j \in 0..a - 1 : m[i] = m[j] => i = j
    BY <1>6
  <2>2. \A i \in 0..a - 1 : m[i] \in Pages
    BY <1>1, <1>6
  <2> QED BY <1>7, <1>8, <2>1, <2>2 DEF ListeLibre, m, Pages, Fin
<1>10. Chaine' = Chaine
  <2>1. Chaine' = {m[i] : i \in 0..a - 1}
    BY <1>8 DEF Chaine, m
  <2>2. Cardinality(Chaine') = a
    <3>1. \A i, j \in 0..a - 1 : m[i] = m[j] => i = j
      BY <1>6
    <3> QED BY <1>1, <2>1, <3>1, SansRepetition
  <2>3. Chaine' \in SUBSET Chaine
    BY <1>6, <2>1
  <2> QED BY <1>1, <2>2, <2>3, FS_Subset
<1>11. Occupees' = Occupees
  BY <1>8 DEF Occupees
<1>12. Chaine' = Pages \ Occupees'
  BY <1>10, <1>11
<1>13. Disjoints'
  BY <1>8, <1>11 DEF Disjoints
<1>14. MaTypeOK'
  BY <1>1, <1>2, <1>8 DEF MaTypeOK, Contenus
<1> QED BY <1>9, <1>10, <1>12, <1>13, <1>14

LEMMA MaImmobile == ASSUME MaIInv, UNCHANGED <<blocks, available_blocks, first_block, alloues>>,
                         error_no' \in {"E_SUCCESS", "E_NOMEM", "E_MEM_FULL"}
                  PROVE  MaIInv'
<1>1. maillon' = maillon
  <2>1. maillon' = Marche(blocks', first_block')
    BY DEF maillon, Marche, SuivantDe, Pages, Fin
  <2> QED BY <2>1, MaillonMarche
<1>2. Chaine' = Chaine /\ ListeLibre'
  BY <1>1 DEF MaIInv, ListeLibre, Chaine
<1>3. Occupees' = Occupees /\ Disjoints'
  BY DEF MaIInv, Occupees, Disjoints
<1>4. MaTypeOK'
  BY DEF MaIInv, MaTypeOK
<1> QED BY <1>2, <1>3, <1>4 DEF MaIInv

(* Every operation of the allocator keeps the list and the allocations     *)
(* apart.                                                                  *)
LEMMA MaPas == ASSUME MaIInv, TaillesRendues, [MaNext]_maVars PROVE MaIInv'
<1>0. error_no \in {"E_SUCCESS", "E_NOMEM", "E_MEM_FULL"}
  BY DEF MaIInv, MaTypeOK
<1>1. ASSUME NEW size \in Tailles, AllouerPlein(size) PROVE MaIInv'
  BY <1>1, MaImmobile DEF AllouerPlein
<1>2. ASSUME NEW size \in Tailles, AllouerRefuse(size) PROVE MaIInv'
  BY <1>2, PasTrier DEF AllouerRefuse
<1>3. ASSUME NEW size \in Tailles, Allouer(size) PROVE MaIInv'
  BY <1>3, PasAllouer
<1>4. ASSUME NEW al \in alloues, Liberer(al) PROVE MaIInv'
  BY <1>4, PasLiberer
<1>5. CASE Reordonner
  BY <1>0, <1>5, PasTrier DEF Reordonner
<1>6. CASE UNCHANGED maVars
  BY <1>0, <1>6, MaImmobile DEF maVars
<1> QED BY <1>1, <1>2, <1>3, <1>4, <1>5, <1>6 DEF MaNext

(* The free list visits each page that is not in use exactly once, and     *)
(* available_blocks is its length (memory_alloc.c), as long as every size  *)
(* a client asks for is one page or one byte more than whole pages.        *)
THEOREM ListeTenue == ASSUME TaillesRendues PROVE MaSpec => []ListeLibreExacte
<1>1. MaIInv => ListeLibreExacte
  <2> SUFFICES ASSUME MaIInv PROVE ListeLibreExacte
    OBVIOUS
  <2>1. DEFAULT_SIZE \in Nat /\ Pages = 0..DEFAULT_SIZE - 1 /\ available_blocks \in Nat
    BY Taille DEF MaIInv, MaTypeOK
  <2>2. IsFiniteSet(Pages) /\ Cardinality(Pages) = DEFAULT_SIZE
    BY <2>1, FS_Interval
  <2>3. Cardinality(Chaine) = available_blocks /\ Chaine = Pages \ Occupees /\ Pages \intersect Occupees = Occupees
    BY NbChaine DEF MaIInv, MaTypeOK, Disjoints
  <2>4. Cardinality(Chaine) = Cardinality(Pages) - Cardinality(Occupees)
    BY <2>2, <2>3, FS_Difference
  <2>5. Cardinality(Occupees) \in Nat
    BY <2>2, FS_Subset, FS_CardinalityType DEF MaIInv, Disjoints
  <2> QED BY <2>1, <2>2, <2>3, <2>4, <2>5 DEF MaIInv, ListeLibre, ListeLibreExacte
<1> QED BY <1>1, MaInitialisation, MaPas, PTL DEF MaSpec

(* No page is given out twice, and none outside the memory. *)
THEOREM JamaisDeuxFois == ASSUME TaillesRendues PROVE MaSpec => []Disjoints
<1>1. MaIInv => Disjoints
  BY DEF MaIInv
<1> QED BY <1>1, MaInitialisation, MaPas, PTL DEF MaSpec

(* After the sort, the pages from the first free one to the next one in    *)
(* use are linked to each other: what fits there is granted.               *)
LEMMA BasPret ==
  ASSUME MaIInv, Trier, first_block # Fin, UNCHANGED <<available_blocks, alloues>>,
         NEW size \in Tailles, (Etendue(Min(Pages \ Occupees), NbPages(size)) \subseteq Pages \ Occupees)'
  PROVE  (Page * nb_consecutive_blocks >= size)'
<1> DEFINE f == first_block'
           PagesLibres == Pages \ Occupees
           trou == {i \in Pages : i > f /\ i \in Occupees}
           T == IF trou = {} THEN DEFAULT_SIZE ELSE Min(trou)
           b == blocks'
           Suivi(n) == \A i \in 0..n-2 : f + i \in Pages /\ b[f + i] = f + i + 1
           S == {n \in 1..DEFAULT_SIZE : Suivi(n)}
<1>2. Chaine = PagesLibres /\ PagesLibres \subseteq Pages /\ Pages = 0..DEFAULT_SIZE - 1 /\ DEFAULT_SIZE \in Nat
  BY Taille DEF MaIInv
<1>3. /\ f \in PagesLibres /\ \A x \in PagesLibres : f <= x
      /\ \A x \in PagesLibres : \/ b[x] = Fin /\ \A j \in PagesLibres : ~(j > x)
                           \/ /\ b[x] \in PagesLibres /\ b[x] > x
                              /\ \A j \in PagesLibres : j > x => b[x] <= j
  BY <1>2, Suivante
<1>4. Occupees' = Occupees
  BY DEF Occupees
<1>5. /\ T \in Nat /\ f \in Nat /\ f < T /\ T <= DEFAULT_SIZE /\ T \notin PagesLibres
      /\ \A i \in f..T - 1 : i \in PagesLibres
  <2>1. CASE trou = {}
    BY <1>2, <1>3, <2>1
  <2>2. CASE trou # {}
    <3>1. trou \subseteq Nat
      BY <1>2
    <3>2. Min(trou) \in trou /\ \A x \in trou : Min(trou) <= x
      BY <2>2, <3>1, PlusPetit
    <3>3. T \in trou /\ \A x \in trou : T <= x
      BY <2>2, <3>2
    <3> HIDE DEF T
    <3>4. T \in Pages /\ T > f /\ T \in Occupees /\ \A x \in Pages : x > f /\ x \in Occupees => T <= x
      BY <3>3
    <3>5. ASSUME NEW i \in f..T - 1 PROVE i \in PagesLibres
      <4>1. i \in Pages /\ (i = f \/ i > f) /\ ~(T <= i)
        BY <1>2, <1>3, <3>4
      <4> QED BY <1>3, <3>4, <4>1
    <3> QED BY <1>2, <1>3, <3>4, <3>5
  <2> QED BY <2>1, <2>2
<1> HIDE DEF T, f, b
<1>6. ASSUME NEW x \in f..T - 2 PROVE x \in Pages /\ b[x] = x + 1
  <2>1. x \in PagesLibres /\ x + 1 \in PagesLibres /\ x + 1 > x
    BY <1>5
  <2>2. b[x] \in PagesLibres /\ b[x] > x /\ b[x] <= x + 1
    BY <1>2, <1>3, <2>1
  <2>3. b[x] \in Nat /\ x \in Nat
    BY <1>2, <1>5, <2>2
  <2> QED BY <2>1, <2>2, <2>3
<1>7. T - f \in S
  <2>1. T - f \in 1..DEFAULT_SIZE
    BY <1>2, <1>5
  <2>2. ASSUME NEW i \in 0..T - f - 2 PROVE f + i \in Pages /\ b[f + i] = f + i + 1
    <3>1. f + i \in f..T - 2
      BY <1>5
    <3> QED BY <1>6, <3>1
  <2> QED BY <2>1, <2>2
<1>8. ASSUME NEW n \in S PROVE n <= T - f
  <2> SUFFICES ASSUME ~(n <= T - f) PROVE FALSE
    OBVIOUS
  <2>1. n \in Nat /\ T - 1 - f \in 0..n - 2 /\ f + (T - 1 - f) = T - 1
    BY <1>2, <1>5
  <2>2. b[T - 1] = T - 1 + 1
    BY <2>1
  <2>3. b[T - 1] = T /\ T - 1 \in PagesLibres
    BY <1>5, <2>2
  <2>4. T \in PagesLibres \/ T = Fin
    BY <1>3, <2>3
  <2> QED BY <1>5, <2>4, Taille
<1>9. Max(S) = T - f
  <2>1. S \subseteq Nat /\ \A n \in S : n <= DEFAULT_SIZE
    BY <1>2
  <2> HIDE DEF S
  <2>2. Max(S) \in S /\ \A x \in S : x <= Max(S)
    BY <1>2, <1>7, <2>1, PlusGrand
  <2>3. Max(S) \in Nat /\ T - f \in Int /\ T - f <= Max(S)
    <3>1. Max(S) \in Nat
      BY <2>1, <2>2
    <3>2. T - f \in Int
      BY <1>5
    <3>3. T - f <= Max(S)
      <4> DEFINE l == T - f
      <4>1. l \in S
        BY <1>7
      <4> HIDE DEF l
      <4>2. l <= Max(S)
        BY <2>2, <4>1
      <4> QED BY <4>2 DEF l
    <3> QED BY <3>1, <3>2, <3>3
  <2>4. Max(S) <= T - f
    BY <1>8, <2>2
  <2> QED BY <2>3, <2>4
<1>10. nb_consecutive_blocks' = Max(S)
  BY DEF nb_consecutive_blocks, f, b, Pages
<1>11. f = Min(PagesLibres)
  <2>1. PagesLibres \subseteq Nat
    BY <1>2
  <2>2. Min(PagesLibres) \in PagesLibres /\ \A x \in PagesLibres : Min(PagesLibres) <= x
    BY <1>3, <2>1, PlusPetit
  <2> QED BY <1>3, <2>1, <2>2
<1> DEFINE n == NbPages(size)
<1>12. Etendue(f, n) \subseteq PagesLibres
  BY <1>4, <1>11 DEF Etendue, NbPages, Pages
<1>13. size \in Nat \ {0} /\ n \in Nat
  BY MemoryAllocAssumption, PagesPour
<1> HIDE DEF n
<1>14. n <= T - f
  <2> SUFFICES ASSUME ~(n <= T - f) PROVE FALSE
    OBVIOUS
  <2>1. T \in Etendue(f, n)
    BY <1>5, <1>13 DEF Etendue
  <2> QED BY <1>5, <1>12, <2>1
<1>15. T - f \in Nat
  BY <1>5
<1>16. Page * (T - f) >= size
  BY <1>13, <1>14, <1>15, PagesPour DEF n
<1> QED BY <1>9, <1>10, <1>16

(* After memory_reorder, called by a client or by a call that is then      *)
(* refused, whatever fits at the bottom of the memory is granted.          *)
THEOREM RefusRepare == ASSUME TaillesRendues PROVE MaSpec => []TriUtile
<1>1. MaInit => TriUtile
  BY DEF MaInit, TriUtile, Refusee
<1>2. ASSUME MaIInv, TriUtile, [MaNext]_maVars PROVE TriUtile'
  <2>1. ASSUME NEW size \in Tailles, AllouerPlein(size) PROVE TriUtile'
    BY <2>1 DEF AllouerPlein, TriUtile, Refusee
  <2>2. ASSUME NEW size \in Tailles, AllouerRefuse(size) PROVE TriUtile'
    BY <1>2, <2>2, BasPret DEF AllouerRefuse, TriUtile
  <2>3. ASSUME NEW size \in Tailles, Allouer(size) PROVE TriUtile'
    <3>1. dernier'.res = first_block /\ first_block # -1 /\ dernier'.op = "memory_allocate"
      BY <2>3 DEF Allouer, Fin
    <3> QED BY <3>1 DEF TriUtile, Refusee
  <2>4. ASSUME NEW al \in alloues, Liberer(al) PROVE TriUtile'
    <3>1. dernier'.op = "memory_free"
      BY <2>4 DEF Liberer
    <3> QED BY <3>1 DEF TriUtile, Refusee
  <2>5. CASE Reordonner
    BY <1>2, <2>5, BasPret DEF Reordonner, TriUtile
  <2>6. CASE UNCHANGED maVars
    BY <1>2, <2>6 DEF maVars, TriUtile, Refusee, Occupees, nb_consecutive_blocks
  <2> QED BY <1>2, <2>1, <2>2, <2>3, <2>4, <2>5, <2>6 DEF MaNext
<1> QED BY <1>1, <1>2, MaInitialisation, MaPas, PTL DEF MaSpec

-----------------------------------------------------------------------------
(* The AVL tree. *)

(* The nodes of the subtree n, S giving those below each node. *)
Sous(S, n) == IF n = NULL THEN {} ELSE S[n]

Fils(m, p, c) == c = m[p].left \/ c = m[p].right

(* m is a search tree of root r, and S[n] are the nodes below n.           *)
EstArbre(m, r, S) ==
  /\ IsFiniteSet(DOMAIN m) /\ NULL \notin DOMAIN m
  /\ r \in DOMAIN m \union {NULL}
  /\ \A n \in DOMAIN m :
       /\ m[n].key \in Int
       /\ m[n].left \in DOMAIN m \union {NULL}
       /\ m[n].right \in DOMAIN m \union {NULL}
  /\ S \in [DOMAIN m -> SUBSET DOMAIN m]
  /\ Sous(S, r) = DOMAIN m
  /\ \A n \in DOMAIN m : S[n] = {n} \union Sous(S, m[n].left) \union Sous(S, m[n].right)
  /\ \A n \in DOMAIN m : \A x \in Sous(S, m[n].left) : m[x].key < m[n].key
  /\ \A n \in DOMAIN m : \A x \in Sous(S, m[n].right) : m[n].key < m[x].key
  /\ \A n \in DOMAIN m : \A x \in S[n] : S[x] \subseteq S[n]
  /\ \A p, x, c \in DOMAIN m : Fils(m, p, c) /\ c \in S[x] => c = x \/ p \in S[x]
  /\ \A x, y \in DOMAIN m : m[x].key = m[y].key => x = y

(* The subtrees of a node are disjoint, and it is in neither. *)
LEMMA Apart ==
  ASSUME NEW m, NEW r, NEW S, EstArbre(m, r, S), NEW p \in DOMAIN m, NEW c \in DOMAIN m, Fils(m, p, c)
  PROVE  /\ c \in S[p] /\ c # p /\ p \notin S[c] /\ S[c] \subseteq S[p]
         /\ c = m[p].left => c # m[p].right /\ \A x \in S[c] : x \notin Sous(S, m[p].right)
         /\ c = m[p].right => c # m[p].left /\ \A x \in S[c] : x \notin Sous(S, m[p].left)
<1>1. c \in S[c]
  BY DEF EstArbre
<1>2. c \in S[p]
  BY <1>1 DEF EstArbre, Fils, Sous
<1>3. \A x \in S[c] : x # p
  BY DEF EstArbre, Fils, Sous
<1>4. c = m[p].left => \A x \in S[c] : m[x].key < m[p].key
  BY DEF EstArbre, Sous
<1>5. c = m[p].right => \A x \in S[c] : m[p].key < m[x].key
  BY DEF EstArbre, Sous
<1>6. \A x \in S[c] \union Sous(S, m[p].left) \union Sous(S, m[p].right) : m[x].key \in Int
  BY DEF EstArbre, Sous
<1>7. c = m[p].left => \A x \in S[c] : x \notin Sous(S, m[p].right)
  BY <1>4, <1>6 DEF EstArbre
<1>8. c = m[p].right => \A x \in S[c] : x \notin Sous(S, m[p].left)
  BY <1>5, <1>6 DEF EstArbre
<1> QED BY <1>1, <1>2, <1>3, <1>7, <1>8 DEF EstArbre, Sous

(* A node has one parent, and the root none. *)
LEMMA UnParent ==
  ASSUME NEW m, NEW r, NEW S, EstArbre(m, r, S), NEW c \in DOMAIN m, NEW p \in DOMAIN m, Fils(m, p, c)
  PROVE  c # r /\ \A q \in DOMAIN m : Fils(m, q, c) => q = p
<1>1. c # r
  BY Apart DEF EstArbre, Sous
<1>2. ASSUME NEW q \in DOMAIN m, Fils(m, q, c), q # p PROVE FALSE
  <2>1. c \in S[p] /\ c \in S[q] /\ c # p /\ c # q
    BY <1>2, Apart
  <2>2. p \in S[q] /\ q \in S[p]
    BY <1>2, <2>1 DEF EstArbre
  <2>3. PICK d \in DOMAIN m : Fils(m, p, d) /\ q \in S[d]
    BY <1>2, <2>2 DEF EstArbre, Sous, Fils
  <2>4. p \in S[d]
    BY <2>2, <2>3 DEF EstArbre
  <2> QED BY <2>3, <2>4, Apart
<1> QED BY <1>1, <1>2

(* What a right rotation at z does to the pointers: y, its left child,     *)
(* takes its place.                                                        *)
TourneADroite(m, r, m2, r2, z, y) ==
  /\ z \in DOMAIN m /\ y \in DOMAIN m /\ y = m[z].left
  /\ DOMAIN m2 = DOMAIN m /\ \A n \in DOMAIN m : m2[n].key = m[n].key
  /\ m2[z].left = m[y].right /\ m2[z].right = m[z].right
  /\ m2[y].left = m[y].left /\ m2[y].right = z
  /\ \A n \in DOMAIN m \ {z, y} :
       /\ m2[n].left = IF m[n].left = z THEN y ELSE m[n].left
       /\ m2[n].right = IF m[n].right = z THEN y ELSE m[n].right
  /\ r2 = IF r = z THEN y ELSE r

(* The tree is still a search tree, of the same nodes. *)
LEMMA RotationADroite ==
  ASSUME NEW m, NEW r, NEW S, EstArbre(m, r, S), NEW m2, NEW r2, NEW z, NEW y,
         TourneADroite(m, r, m2, r2, z, y)
  PROVE  EstArbre(m2, r2, [n \in DOMAIN m |->
                             IF n = z THEN {z} \union Sous(S, m[y].right) \union Sous(S, m[z].right)
                             ELSE IF n = y THEN S[z] ELSE S[n]])
<1> DEFINE A  == DOMAIN m
           t  == m[y].right
           w  == m[z].right
           u  == m[y].left
           T  == {z} \union Sous(S, t) \union Sous(S, w)
           S2 == [n \in A |-> IF n = z THEN T ELSE IF n = y THEN S[z] ELSE S[n]]
<1>1. /\ z \in A /\ y \in A /\ y = m[z].left /\ DOMAIN m2 = A /\ NULL \notin A
      /\ {t, w, u} \subseteq A \union {NULL} /\ S \in [A -> SUBSET A]
  BY DEF TourneADroite, EstArbre
<1>2. y # z /\ y \in S[z] /\ z \notin S[y] /\ S[y] \subseteq S[z]
  BY <1>1, Apart DEF Fils
<1>3. /\ S[z] = {z} \union S[y] \union Sous(S, w)
      /\ S[y] = {y} \union Sous(S, u) \union Sous(S, t)
      /\ z \in S[z] /\ y \in S[y]
  BY <1>1 DEF EstArbre, Sous
<1>4. T \subseteq S[z] /\ S[z] = {y} \union Sous(S, u) \union T
  BY <1>3
<1>5. /\ S2 \in [A -> SUBSET A]
      /\ S2[z] = T /\ S2[y] = S[z] /\ \A n \in A \ {z, y} : S2[n] = S[n]
  <2> HIDE DEF T
  <2> QED BY <1>1, <1>2, <1>4
<1> HIDE DEF S2, T
(* Who is where: the subtrees t, u and w lie apart from z and y. *)
<1>6. /\ t # z /\ t # y /\ u # z /\ u # y /\ w # z /\ w # y
      /\ z \notin Sous(S, t) /\ y \notin Sous(S, t)
      /\ z \notin Sous(S, u) /\ y \notin Sous(S, u)
      /\ z \notin Sous(S, w) /\ y \notin Sous(S, w)
  <2>1. \A c \in A : Fils(m, y, c) => c # y /\ y \notin S[c] /\ S[c] \subseteq S[y]
    BY <1>1, Apart
  <2>2. \A c \in A : Fils(m, z, c) => c # z /\ z \notin S[c]
    BY <1>1, Apart
  <2>3. w # y /\ \A x \in S[y] : x \notin Sous(S, w)
    BY <1>1, Apart DEF Fils
  <2> QED BY <1>1, <1>2, <1>3, <2>1, <2>2, <2>3 DEF Fils, Sous
<1>7. /\ Sous(S2, t) = Sous(S, t) /\ Sous(S2, u) = Sous(S, u) /\ Sous(S2, w) = Sous(S, w)
  BY <1>1, <1>5, <1>6 DEF Sous
(* Only the parent of z, if any, changes otherwise: it gets y. *)
<1>8. ASSUME NEW n \in A \ {z, y}
      PROVE  /\ m2[n].left \in A \union {NULL} /\ m2[n].right \in A \union {NULL}
             /\ Sous(S2, m2[n].left) = Sous(S, m[n].left)
             /\ Sous(S2, m2[n].right) = Sous(S, m[n].right)
             /\ m2[n].left # z /\ m2[n].right # z
             /\ \A c \in A : Fils(m2, n, c) /\ c # y => Fils(m, n, c)
             /\ Fils(m2, n, y) => Fils(m, n, z)
  <2>1. ~Fils(m, n, y)
    BY <1>1, UnParent DEF Fils
  <2>2. m[n].left \in A \union {NULL} /\ m[n].right \in A \union {NULL}
    BY DEF EstArbre
  <2>3. /\ m2[n].left = IF m[n].left = z THEN y ELSE m[n].left
        /\ m2[n].right = IF m[n].right = z THEN y ELSE m[n].right
    BY DEF TourneADroite
  <2> QED BY <1>1, <1>2, <1>5, <2>1, <2>2, <2>3 DEF Fils, Sous
<1>9. m2[z].left = t /\ m2[z].right = w /\ m2[y].left = u /\ m2[y].right = z
  BY DEF TourneADroite
<1>10. \A n \in A : m2[n].key = m[n].key /\ m[n].key \in Int
  BY DEF TourneADroite, EstArbre
<1>11. r2 \in A \union {NULL} /\ Sous(S2, r2) = A
  <2>1. r2 = (IF r = z THEN y ELSE r) /\ r \in A \union {NULL} /\ Sous(S, r) = A
    BY DEF TourneADroite, EstArbre
  <2>2. r # y
    BY <1>1, UnParent DEF Fils
  <2> QED BY <1>1, <1>2, <1>5, <2>1, <2>2 DEF Sous
<1>12. ASSUME NEW n \in A
       PROVE  S2[n] = {n} \union Sous(S2, m2[n].left) \union Sous(S2, m2[n].right)
  <2>1. CASE n = z
    BY <2>1, <1>5, <1>7, <1>9 DEF T
  <2>2. CASE n = y
    BY <2>2, <1>1, <1>4, <1>5, <1>7, <1>9 DEF Sous
  <2>3. CASE n \notin {z, y}
    BY <2>3, <1>5, <1>8 DEF EstArbre
  <2> QED BY <2>1, <2>2, <2>3
<1>13. ASSUME NEW n \in A
       PROVE  /\ \A x \in Sous(S2, m2[n].left) : m2[x].key < m2[n].key
              /\ \A x \in Sous(S2, m2[n].right) : m2[n].key < m2[x].key
  <2>0. Sous(S2, m2[n].left) \subseteq A /\ Sous(S2, m2[n].right) \subseteq A
    BY <1>12, <1>5
  <2>1. CASE n = z
    <3>1. \A x \in Sous(S, t) : m[x].key < m[z].key
      BY <1>1, <1>3 DEF EstArbre, Sous
    <3>2. \A x \in Sous(S, w) : m[z].key < m[x].key
      BY <1>1 DEF EstArbre
    <3> QED BY <2>0, <2>1, <3>1, <3>2, <1>7, <1>9, <1>10
  <2>2. CASE n = y
    <3>1. \A x \in Sous(S, u) : m[x].key < m[y].key
      BY <1>1 DEF EstArbre
    <3>2. m[y].key < m[z].key
      BY <1>1, <1>3 DEF EstArbre, Sous
    <3>3. \A x \in Sous(S, t) : m[y].key < m[x].key
      BY <1>1 DEF EstArbre
    <3>4. \A x \in Sous(S, w) : m[z].key < m[x].key
      BY <1>1 DEF EstArbre
    <3>5. Sous(S2, z) = T /\ T \subseteq A
      BY <1>1, <1>5 DEF Sous
    <3>6. \A x \in T : m[y].key < m[x].key
      BY <1>1, <1>10, <3>2, <3>3, <3>4, <3>5 DEF T
    <3> QED BY <2>0, <2>2, <3>1, <3>5, <3>6, <1>7, <1>9, <1>10, <1>1
  <2>3. CASE n \notin {z, y}
    <3>1. /\ \A x \in Sous(S, m[n].left) : m[x].key < m[n].key
          /\ \A x \in Sous(S, m[n].right) : m[n].key < m[x].key
      BY DEF EstArbre
    <3> QED BY <2>0, <2>3, <3>1, <1>8, <1>10
  <2> QED BY <2>1, <2>2, <2>3
<1>14. ASSUME NEW n \in A, NEW x \in S2[n] PROVE S2[x] \subseteq S2[n]
  <2>0. \A i \in A : \A j \in S[i] : S[j] \subseteq S[i] /\ j \in A
    BY <1>1 DEF EstArbre
  <2>1. CASE n = z
    <3>1. CASE x = z
      BY <2>1, <3>1
    <3>2. CASE x \in Sous(S, t)
      <4>1. x \notin {z, y} /\ S[x] \subseteq Sous(S, t)
        BY <1>1, <1>6, <2>0, <3>2 DEF Sous
      <4> QED BY <2>0, <4>1, <1>1, <1>5, <3>2, <2>1 DEF T, Sous
    <3>3. CASE x \in Sous(S, w)
      <4>1. x \notin {z, y} /\ S[x] \subseteq Sous(S, w)
        BY <1>1, <1>6, <2>0, <3>3 DEF Sous
      <4> QED BY <2>0, <4>1, <1>1, <1>5, <3>3, <2>1 DEF T, Sous
    <3> QED BY <2>1, <3>1, <3>2, <3>3, <1>5 DEF T
  <2>2. CASE n = y
    BY <2>0, <2>2, <1>1, <1>4, <1>5
  <2>3. CASE n \notin {z, y}
    <3>1. x \in S[n] /\ x \in A
      BY <2>0, <2>3, <1>5
    <3>2. CASE x \in {z, y}
      <4>1. z \in S[n]
        BY <3>1, <3>2, <2>3, <1>1 DEF EstArbre, Fils
      <4>2. S2[x] \subseteq S[z]
        BY <3>2, <1>4, <1>5
      <4> QED BY <4>1, <4>2, <2>0, <2>3, <1>5
    <3> QED BY <3>1, <3>2, <2>0, <2>3, <1>5
  <2> QED BY <2>1, <2>2, <2>3
<1>15. ASSUME NEW p \in A, NEW x \in A, NEW c \in A, Fils(m2, p, c), c \in S2[x], c # x
       PROVE  p \in S2[x]
  <2>0. \A q, i, c2 \in A : Fils(m, q, c2) /\ c2 \in S[i] => c2 = i \/ q \in S[i]
    BY DEF EstArbre
  <2>1. CASE x = z
    <3>0. S2[x] = T
      BY <2>1, <1>5
    <3>1. c \in Sous(S, t) \/ c \in Sous(S, w)
      BY <3>0, <2>1, <1>15 DEF T
    <3>2. c # z /\ c # y
      BY <3>1, <1>6
    <3>3. CASE p = z
      BY <3>0, <3>3 DEF T
    <3>4. CASE p = y
      <4>1. c = u
        BY <3>4, <3>2, <1>9, <1>15 DEF Fils
      <4>2. Fils(m, y, c) /\ Fils(m, z, y) /\ c \in A
        BY <4>1, <1>1, <1>15 DEF Fils
      <4>3. CASE c \in Sous(S, t)
        <5>1. t \in A /\ c \in S[t] /\ c # t
          <6>1. t \in A /\ c \in S[t]
            BY <4>3, <1>1 DEF Sous
          <6>2. u # t
            BY <6>1, <1>1, <4>1, <4>2, Apart DEF Fils
          <6> QED BY <6>1, <6>2, <4>1
        <5> QED BY <5>1, <2>0, <4>2, <1>1, <1>6 DEF Sous
      <4>4. CASE c \in Sous(S, w)
        <5>1. c \in S[y]
          BY <4>2, Apart, <1>1
        <5> QED BY <5>1, <4>4, <1>1, Apart DEF Fils
      <4> QED BY <3>1, <4>3, <4>4
    <3>5. CASE p \notin {z, y}
      <4>1. Fils(m, p, c)
        BY <3>2, <3>5, <1>8, <1>15
      <4>2. CASE c \in Sous(S, t)
        <5>1. t \in A /\ c \in S[t] /\ (c = t \/ p \in S[t])
          BY <4>1, <4>2, <2>0, <1>1 DEF Sous
        <5>2. c # t
          BY <4>1, <3>5, <1>1, <5>1, UnParent DEF Fils
        <5> QED BY <5>1, <5>2, <3>0, <1>1 DEF T, Sous
      <4>3. CASE c \in Sous(S, w)
        <5>1. w \in A /\ c \in S[w] /\ (c = w \/ p \in S[w])
          BY <4>1, <4>3, <2>0, <1>1 DEF Sous
        <5>2. c # w
          BY <4>1, <3>5, <1>1, <5>1, UnParent DEF Fils
        <5> QED BY <5>1, <5>2, <3>0, <1>1 DEF T, Sous
      <4> QED BY <3>1, <4>2, <4>3
    <3> QED BY <3>3, <3>4, <3>5
  <2>2. CASE x = y
    <3>0. S2[x] = S[z] /\ c \in S[z]
      BY <2>2, <1>5, <1>15
    <3>1. CASE p \in {z, y}
      BY <3>0, <3>1, <1>2, <1>3
    <3>2. CASE p \notin {z, y}
      <4>1. Fils(m, p, c)
        BY <3>2, <2>2, <1>8, <1>15
      <4>2. c # z
        BY <3>2, <1>8, <1>15 DEF Fils
      <4> QED BY <4>1, <4>2, <2>0, <3>0, <1>1
    <3> QED BY <3>1, <3>2
  <2>3. CASE x \notin {z, y}
    <3>0. S2[x] = S[x] /\ c \in S[x]
      BY <2>3, <1>5, <1>15
    <3>1. y \in S[x] \/ z \in S[x] => y \in S[x] /\ z \in S[x]
      <4>1. y \in S[x] => z \in S[x]
        BY <2>0, <1>1, <2>3 DEF Fils
      <4>2. z \in S[x] => S[z] \subseteq S[x]
        BY <1>1 DEF EstArbre
      <4> QED BY <4>1, <4>2, <1>2
    <3>2. CASE c = y
      <4>1. CASE p \in {z, y}
        BY <4>1, <3>0, <3>1, <3>2
      <4>2. CASE p \notin {z, y}
        BY <4>2, <3>0, <3>1, <3>2, <2>0, <2>3, <1>1, <1>8, <1>15
      <4> QED BY <4>1, <4>2
    <3>3. CASE c = z
      <4>1. p = y
        BY <3>3, <1>6, <1>8, <1>9, <1>15 DEF Fils
      <4> QED BY <4>1, <3>0, <3>1, <3>3
    <3>4. CASE c \notin {z, y}
      <4>1. CASE p \notin {z, y}
        BY <4>1, <3>0, <3>4, <2>0, <1>8, <1>15
      <4>2. CASE p = z
        <5>1. c = t \/ c = w
          BY <4>2, <1>9, <1>15 DEF Fils
        <5>2. Fils(m, y, c) \/ Fils(m, z, c)
          BY <5>1 DEF Fils
        <5> QED BY <5>2, <3>0, <3>1, <4>2, <2>0, <1>1, <1>15
      <4>3. CASE p = y
        <5>1. Fils(m, y, c)
          BY <4>3, <3>4, <1>9, <1>15 DEF Fils
        <5> QED BY <5>1, <3>0, <4>3, <2>0, <1>1, <1>15
      <4> QED BY <4>1, <4>2, <4>3
    <3> QED BY <3>2, <3>3, <3>4
  <2> QED BY <2>1, <2>2, <2>3
<1>16. \A n \in A : m2[n].left \in A \union {NULL} /\ m2[n].right \in A \union {NULL}
  BY <1>1, <1>8, <1>9
<1>17. \A i, j \in A : m2[i].key = m2[j].key => i = j
  BY <1>10 DEF EstArbre
<1>18. IsFiniteSet(A)
  BY DEF EstArbre
<1>19. EstArbre(m2, r2, S2)
  <2> HIDE DEF A
  <2>1. DOMAIN m2 = A
    BY <1>1
  <2> QED BY ONLY <2>1, <1>1, <1>5, <1>10, <1>11, <1>12, <1>13, <1>14, <1>15, <1>16, <1>17, <1>18
          DEF EstArbre
<1> QED BY <1>19 DEF S2, T

(* What a left rotation at z does to the pointers: y, its right child,     *)
(* takes its place.                                                        *)
TourneAGauche(m, r, m2, r2, z, y) ==
  /\ z \in DOMAIN m /\ y \in DOMAIN m /\ y = m[z].right
  /\ DOMAIN m2 = DOMAIN m /\ \A n \in DOMAIN m : m2[n].key = m[n].key
  /\ m2[z].right = m[y].left /\ m2[z].left = m[z].left
  /\ m2[y].right = m[y].right /\ m2[y].left = z
  /\ \A n \in DOMAIN m \ {z, y} :
       /\ m2[n].right = IF m[n].right = z THEN y ELSE m[n].right
       /\ m2[n].left = IF m[n].left = z THEN y ELSE m[n].left
  /\ r2 = IF r = z THEN y ELSE r

(* The tree is still a search tree, of the same nodes. *)
LEMMA RotationAGauche ==
  ASSUME NEW m, NEW r, NEW S, EstArbre(m, r, S), NEW m2, NEW r2, NEW z, NEW y,
         TourneAGauche(m, r, m2, r2, z, y)
  PROVE  EstArbre(m2, r2, [n \in DOMAIN m |->
                             IF n = z THEN {z} \union Sous(S, m[y].left) \union Sous(S, m[z].left)
                             ELSE IF n = y THEN S[z] ELSE S[n]])
<1> DEFINE A  == DOMAIN m
           t  == m[y].left
           w  == m[z].left
           u  == m[y].right
           T  == {z} \union Sous(S, t) \union Sous(S, w)
           S2 == [n \in A |-> IF n = z THEN T ELSE IF n = y THEN S[z] ELSE S[n]]
<1>1. /\ z \in A /\ y \in A /\ y = m[z].right /\ DOMAIN m2 = A /\ NULL \notin A
      /\ {t, w, u} \subseteq A \union {NULL} /\ S \in [A -> SUBSET A]
  BY DEF TourneAGauche, EstArbre
<1>2. y # z /\ y \in S[z] /\ z \notin S[y] /\ S[y] \subseteq S[z]
  BY <1>1, Apart DEF Fils
<1>3. /\ S[z] = {z} \union S[y] \union Sous(S, w)
      /\ S[y] = {y} \union Sous(S, u) \union Sous(S, t)
      /\ z \in S[z] /\ y \in S[y]
  BY <1>1 DEF EstArbre, Sous
<1>4. T \subseteq S[z] /\ S[z] = {y} \union Sous(S, u) \union T
  BY <1>3
<1>5. /\ S2 \in [A -> SUBSET A]
      /\ S2[z] = T /\ S2[y] = S[z] /\ \A n \in A \ {z, y} : S2[n] = S[n]
  <2> HIDE DEF T
  <2> QED BY <1>1, <1>2, <1>4
<1> HIDE DEF S2, T
(* Who is where: the subtrees t, u and w lie apart from z and y. *)
<1>6. /\ t # z /\ t # y /\ u # z /\ u # y /\ w # z /\ w # y
      /\ z \notin Sous(S, t) /\ y \notin Sous(S, t)
      /\ z \notin Sous(S, u) /\ y \notin Sous(S, u)
      /\ z \notin Sous(S, w) /\ y \notin Sous(S, w)
  <2>1. \A c \in A : Fils(m, y, c) => c # y /\ y \notin S[c] /\ S[c] \subseteq S[y]
    BY <1>1, Apart
  <2>2. \A c \in A : Fils(m, z, c) => c # z /\ z \notin S[c]
    BY <1>1, Apart
  <2>3. w # y /\ \A x \in S[y] : x \notin Sous(S, w)
    BY <1>1, Apart DEF Fils
  <2> QED BY <1>1, <1>2, <1>3, <2>1, <2>2, <2>3 DEF Fils, Sous
<1>7. /\ Sous(S2, t) = Sous(S, t) /\ Sous(S2, u) = Sous(S, u) /\ Sous(S2, w) = Sous(S, w)
  BY <1>1, <1>5, <1>6 DEF Sous
(* Only the parent of z, if any, changes otherwise: it gets y. *)
<1>8. ASSUME NEW n \in A \ {z, y}
      PROVE  /\ m2[n].right \in A \union {NULL} /\ m2[n].left \in A \union {NULL}
             /\ Sous(S2, m2[n].right) = Sous(S, m[n].right)
             /\ Sous(S2, m2[n].left) = Sous(S, m[n].left)
             /\ m2[n].right # z /\ m2[n].left # z
             /\ \A c \in A : Fils(m2, n, c) /\ c # y => Fils(m, n, c)
             /\ Fils(m2, n, y) => Fils(m, n, z)
  <2>1. ~Fils(m, n, y)
    BY <1>1, UnParent DEF Fils
  <2>2. m[n].right \in A \union {NULL} /\ m[n].left \in A \union {NULL}
    BY DEF EstArbre
  <2>3. /\ m2[n].right = IF m[n].right = z THEN y ELSE m[n].right
        /\ m2[n].left = IF m[n].left = z THEN y ELSE m[n].left
    BY DEF TourneAGauche
  <2> QED BY <1>1, <1>2, <1>5, <2>1, <2>2, <2>3 DEF Fils, Sous
<1>9. m2[z].right = t /\ m2[z].left = w /\ m2[y].right = u /\ m2[y].left = z
  BY DEF TourneAGauche
<1>10. \A n \in A : m2[n].key = m[n].key /\ m[n].key \in Int
  BY DEF TourneAGauche, EstArbre
<1>11. r2 \in A \union {NULL} /\ Sous(S2, r2) = A
  <2>1. r2 = (IF r = z THEN y ELSE r) /\ r \in A \union {NULL} /\ Sous(S, r) = A
    BY DEF TourneAGauche, EstArbre
  <2>2. r # y
    BY <1>1, UnParent DEF Fils
  <2> QED BY <1>1, <1>2, <1>5, <2>1, <2>2 DEF Sous
<1>12. ASSUME NEW n \in A
       PROVE  S2[n] = {n} \union Sous(S2, m2[n].right) \union Sous(S2, m2[n].left)
  <2>1. CASE n = z
    BY <2>1, <1>5, <1>7, <1>9 DEF T
  <2>2. CASE n = y
    BY <2>2, <1>1, <1>4, <1>5, <1>7, <1>9 DEF Sous
  <2>3. CASE n \notin {z, y}
    BY <2>3, <1>5, <1>8 DEF EstArbre
  <2> QED BY <2>1, <2>2, <2>3
<1>13. ASSUME NEW n \in A
       PROVE  /\ \A x \in Sous(S2, m2[n].right) : m2[n].key < m2[x].key
              /\ \A x \in Sous(S2, m2[n].left) : m2[x].key < m2[n].key
  <2>0. Sous(S2, m2[n].right) \subseteq A /\ Sous(S2, m2[n].left) \subseteq A
    BY <1>12, <1>5
  <2>1. CASE n = z
    <3>1. \A x \in Sous(S, t) : m[z].key < m[x].key
      BY <1>1, <1>3 DEF EstArbre, Sous
    <3>2. \A x \in Sous(S, w) : m[x].key < m[z].key
      BY <1>1 DEF EstArbre
    <3> QED BY <2>0, <2>1, <3>1, <3>2, <1>7, <1>9, <1>10
  <2>2. CASE n = y
    <3>1. \A x \in Sous(S, u) : m[y].key < m[x].key
      BY <1>1 DEF EstArbre
    <3>2. m[z].key < m[y].key
      BY <1>1, <1>3 DEF EstArbre, Sous
    <3>3. \A x \in Sous(S, t) : m[x].key < m[y].key
      BY <1>1 DEF EstArbre
    <3>4. \A x \in Sous(S, w) : m[x].key < m[z].key
      BY <1>1 DEF EstArbre
    <3>5. Sous(S2, z) = T /\ T \subseteq A
      BY <1>1, <1>5 DEF Sous
    <3>6. \A x \in T : m[x].key < m[y].key
      BY <1>1, <1>10, <3>2, <3>3, <3>4, <3>5 DEF T
    <3> QED BY <2>0, <2>2, <3>1, <3>5, <3>6, <1>7, <1>9, <1>10, <1>1
  <2>3. CASE n \notin {z, y}
    <3>1. /\ \A x \in Sous(S, m[n].right) : m[n].key < m[x].key
          /\ \A x \in Sous(S, m[n].left) : m[x].key < m[n].key
      BY DEF EstArbre
    <3> QED BY <2>0, <2>3, <3>1, <1>8, <1>10
  <2> QED BY <2>1, <2>2, <2>3
<1>14. ASSUME NEW n \in A, NEW x \in S2[n] PROVE S2[x] \subseteq S2[n]
  <2>0. \A i \in A : \A j \in S[i] : S[j] \subseteq S[i] /\ j \in A
    BY <1>1 DEF EstArbre
  <2>1. CASE n = z
    <3>1. CASE x = z
      BY <2>1, <3>1
    <3>2. CASE x \in Sous(S, t)
      <4>1. x \notin {z, y} /\ S[x] \subseteq Sous(S, t)
        BY <1>1, <1>6, <2>0, <3>2 DEF Sous
      <4> QED BY <2>0, <4>1, <1>1, <1>5, <3>2, <2>1 DEF T, Sous
    <3>3. CASE x \in Sous(S, w)
      <4>1. x \notin {z, y} /\ S[x] \subseteq Sous(S, w)
        BY <1>1, <1>6, <2>0, <3>3 DEF Sous
      <4> QED BY <2>0, <4>1, <1>1, <1>5, <3>3, <2>1 DEF T, Sous
    <3> QED BY <2>1, <3>1, <3>2, <3>3, <1>5 DEF T
  <2>2. CASE n = y
    BY <2>0, <2>2, <1>1, <1>4, <1>5
  <2>3. CASE n \notin {z, y}
    <3>1. x \in S[n] /\ x \in A
      BY <2>0, <2>3, <1>5
    <3>2. CASE x \in {z, y}
      <4>1. z \in S[n]
        BY <3>1, <3>2, <2>3, <1>1 DEF EstArbre, Fils
      <4>2. S2[x] \subseteq S[z]
        BY <3>2, <1>4, <1>5
      <4> QED BY <4>1, <4>2, <2>0, <2>3, <1>5
    <3> QED BY <3>1, <3>2, <2>0, <2>3, <1>5
  <2> QED BY <2>1, <2>2, <2>3
<1>15. ASSUME NEW p \in A, NEW x \in A, NEW c \in A, Fils(m2, p, c), c \in S2[x], c # x
       PROVE  p \in S2[x]
  <2>0. \A q, i, c2 \in A : Fils(m, q, c2) /\ c2 \in S[i] => c2 = i \/ q \in S[i]
    BY DEF EstArbre
  <2>1. CASE x = z
    <3>0. S2[x] = T
      BY <2>1, <1>5
    <3>1. c \in Sous(S, t) \/ c \in Sous(S, w)
      BY <3>0, <2>1, <1>15 DEF T
    <3>2. c # z /\ c # y
      BY <3>1, <1>6
    <3>3. CASE p = z
      BY <3>0, <3>3 DEF T
    <3>4. CASE p = y
      <4>1. c = u
        BY <3>4, <3>2, <1>9, <1>15 DEF Fils
      <4>2. Fils(m, y, c) /\ Fils(m, z, y) /\ c \in A
        BY <4>1, <1>1, <1>15 DEF Fils
      <4>3. CASE c \in Sous(S, t)
        <5>1. t \in A /\ c \in S[t] /\ c # t
          <6>1. t \in A /\ c \in S[t]
            BY <4>3, <1>1 DEF Sous
          <6>2. u # t
            BY <6>1, <1>1, <4>1, <4>2, Apart DEF Fils
          <6> QED BY <6>1, <6>2, <4>1
        <5> QED BY <5>1, <2>0, <4>2, <1>1, <1>6 DEF Sous
      <4>4. CASE c \in Sous(S, w)
        <5>1. c \in S[y]
          BY <4>2, Apart, <1>1
        <5> QED BY <5>1, <4>4, <1>1, Apart DEF Fils
      <4> QED BY <3>1, <4>3, <4>4
    <3>5. CASE p \notin {z, y}
      <4>1. Fils(m, p, c)
        BY <3>2, <3>5, <1>8, <1>15
      <4>2. CASE c \in Sous(S, t)
        <5>1. t \in A /\ c \in S[t] /\ (c = t \/ p \in S[t])
          BY <4>1, <4>2, <2>0, <1>1 DEF Sous
        <5>2. c # t
          BY <4>1, <3>5, <1>1, <5>1, UnParent DEF Fils
        <5> QED BY <5>1, <5>2, <3>0, <1>1 DEF T, Sous
      <4>3. CASE c \in Sous(S, w)
        <5>1. w \in A /\ c \in S[w] /\ (c = w \/ p \in S[w])
          BY <4>1, <4>3, <2>0, <1>1 DEF Sous
        <5>2. c # w
          BY <4>1, <3>5, <1>1, <5>1, UnParent DEF Fils
        <5> QED BY <5>1, <5>2, <3>0, <1>1 DEF T, Sous
      <4> QED BY <3>1, <4>2, <4>3
    <3> QED BY <3>3, <3>4, <3>5
  <2>2. CASE x = y
    <3>0. S2[x] = S[z] /\ c \in S[z]
      BY <2>2, <1>5, <1>15
    <3>1. CASE p \in {z, y}
      BY <3>0, <3>1, <1>2, <1>3
    <3>2. CASE p \notin {z, y}
      <4>1. Fils(m, p, c)
        BY <3>2, <2>2, <1>8, <1>15
      <4>2. c # z
        BY <3>2, <1>8, <1>15 DEF Fils
      <4> QED BY <4>1, <4>2, <2>0, <3>0, <1>1
    <3> QED BY <3>1, <3>2
  <2>3. CASE x \notin {z, y}
    <3>0. S2[x] = S[x] /\ c \in S[x]
      BY <2>3, <1>5, <1>15
    <3>1. y \in S[x] \/ z \in S[x] => y \in S[x] /\ z \in S[x]
      <4>1. y \in S[x] => z \in S[x]
        BY <2>0, <1>1, <2>3 DEF Fils
      <4>2. z \in S[x] => S[z] \subseteq S[x]
        BY <1>1 DEF EstArbre
      <4> QED BY <4>1, <4>2, <1>2
    <3>2. CASE c = y
      <4>1. CASE p \in {z, y}
        BY <4>1, <3>0, <3>1, <3>2
      <4>2. CASE p \notin {z, y}
        BY <4>2, <3>0, <3>1, <3>2, <2>0, <2>3, <1>1, <1>8, <1>15
      <4> QED BY <4>1, <4>2
    <3>3. CASE c = z
      <4>1. p = y
        BY <3>3, <1>6, <1>8, <1>9, <1>15 DEF Fils
      <4> QED BY <4>1, <3>0, <3>1, <3>3
    <3>4. CASE c \notin {z, y}
      <4>1. CASE p \notin {z, y}
        BY <4>1, <3>0, <3>4, <2>0, <1>8, <1>15
      <4>2. CASE p = z
        <5>1. c = t \/ c = w
          BY <4>2, <1>9, <1>15 DEF Fils
        <5>2. Fils(m, y, c) \/ Fils(m, z, c)
          BY <5>1 DEF Fils
        <5> QED BY <5>2, <3>0, <3>1, <4>2, <2>0, <1>1, <1>15
      <4>3. CASE p = y
        <5>1. Fils(m, y, c)
          BY <4>3, <3>4, <1>9, <1>15 DEF Fils
        <5> QED BY <5>1, <3>0, <4>3, <2>0, <1>1, <1>15
      <4> QED BY <4>1, <4>2, <4>3
    <3> QED BY <3>2, <3>3, <3>4
  <2> QED BY <2>1, <2>2, <2>3
<1>16. \A n \in A : m2[n].right \in A \union {NULL} /\ m2[n].left \in A \union {NULL}
  BY <1>1, <1>8, <1>9
<1>17. \A i, j \in A : m2[i].key = m2[j].key => i = j
  BY <1>10 DEF EstArbre
<1>18. IsFiniteSet(A)
  BY DEF EstArbre
<1>19. EstArbre(m2, r2, S2)
  <2> HIDE DEF A
  <2>1. DOMAIN m2 = A
    BY <1>1
  <2> QED BY ONLY <2>1, <1>1, <1>5, <1>10, <1>11, <1>12, <1>13, <1>14, <1>15, <1>16, <1>17, <1>18
          DEF EstArbre
<1> QED BY <1>19 DEF S2, T

(* Only keys and pointers make the tree. *)
LEMMA MemeArbre ==
  ASSUME NEW m, NEW r, NEW S, EstArbre(m, r, S), NEW m2, DOMAIN m2 = DOMAIN m,
         \A n \in DOMAIN m : m2[n].key = m[n].key /\ m2[n].left = m[n].left /\ m2[n].right = m[n].right
  PROVE  EstArbre(m2, r, S)
BY DEF EstArbre, Fils

(* The empty tree. *)
LEMMA ArbreVide ==
  ASSUME NEW m, DOMAIN m = {} PROVE EstArbre(m, NULL, [n \in {} |-> {}])
BY FS_EmptySet DEF EstArbre, Sous

(* The tree of one node. *)
LEMMA PremierNoeud ==
  ASSUME NEW m, NEW a, DOMAIN m = {a}, a # NULL, m[a].key \in Int, m[a].left = NULL, m[a].right = NULL
  PROVE  EstArbre(m, a, [n \in {a} |-> {a}])
BY FS_Singleton DEF EstArbre, Sous, Fils

(* The key k belongs on the side of every node on which x is. *)
Situe(m, S, k, x) ==
  \A n \in DOMAIN m :
    /\ x \in Sous(S, m[n].left) => k < m[n].key
    /\ x \in Sous(S, m[n].right) => m[n].key < k

(* Every key belongs below the root. *)
LEMMA SitueRacine ==
  ASSUME NEW m, NEW r, NEW S, EstArbre(m, r, S), NEW k, r # NULL
  PROVE  Situe(m, S, k, r)
<1> SUFFICES ASSUME NEW n \in DOMAIN m, r \in Sous(S, m[n].left) \/ r \in Sous(S, m[n].right)
             PROVE  FALSE
  BY DEF Situe
<1>1. r \in DOMAIN m /\ S[r] = DOMAIN m
  BY DEF EstArbre, Sous
<1>2. PICK c \in DOMAIN m : Fils(m, n, c) /\ r \in S[c]
  BY DEF EstArbre, Fils, Sous
<1>3. n \in S[c]
  BY <1>1, <1>2 DEF EstArbre
<1> QED BY <1>2, <1>3, Apart

(* And on the side of a node that comparing it with the key of the node     *)
(* tells.                                                                  *)
LEMMA SitueFils ==
  ASSUME NEW m, NEW r, NEW S, EstArbre(m, r, S), NEW k, NEW p \in DOMAIN m, Situe(m, S, k, p),
         NEW c \in DOMAIN m, \/ c = m[p].left /\ k < m[p].key
                             \/ c = m[p].right /\ m[p].key < k
  PROVE  Situe(m, S, k, c)
<1> SUFFICES ASSUME NEW n \in DOMAIN m
             PROVE  /\ c \in Sous(S, m[n].left) => k < m[n].key
                    /\ c \in Sous(S, m[n].right) => m[n].key < k
  BY DEF Situe
<1>1. Fils(m, p, c)
  BY DEF Fils
<1>2. ASSUME NEW d \in DOMAIN m, Fils(m, n, d), c \in S[d] PROVE p \in S[d] \/ (n = p /\ d = c)
  BY <1>1, <1>2, UnParent DEF EstArbre
<1>3. c = m[p].left => c # m[p].right
  BY <1>1, Apart
<1>4. CASE c \in Sous(S, m[n].left)
  <2>1. m[n].left \in DOMAIN m /\ Fils(m, n, m[n].left) /\ c \in S[m[n].left]
    BY <1>4 DEF EstArbre, Fils, Sous
  <2>2. CASE p \in S[m[n].left]
    <3>1. k < m[n].key
      BY <2>1, <2>2 DEF Situe, EstArbre, Sous
    <3>2. c \notin Sous(S, m[n].right)
      BY <2>1, <1>4, Apart
    <3> QED BY <3>1, <3>2
  <2>3. CASE n = p /\ m[n].left = c
    <3>1. c \notin Sous(S, m[n].right)
      BY <2>1, <1>4, Apart
    <3> QED BY <2>3, <3>1, <1>3
  <2> QED BY <1>2, <2>1, <2>2, <2>3
<1>5. CASE c \in Sous(S, m[n].right)
  <2>1. m[n].right \in DOMAIN m /\ Fils(m, n, m[n].right) /\ c \in S[m[n].right]
    BY <1>5 DEF EstArbre, Fils, Sous
  <2>2. c \notin Sous(S, m[n].left)
    BY <2>1, <1>5, Apart
  <2>3. CASE p \in S[m[n].right]
    <3>1. m[n].key < k
      BY <2>1, <2>3 DEF Situe, EstArbre, Sous
    <3> QED BY <3>1, <2>2
  <2>4. CASE n = p /\ m[n].right = c
    BY <2>4, <2>2, <1>3
  <2> QED BY <1>2, <2>1, <2>3, <2>4
<1> QED BY <1>4, <1>5

(* A leaf a, of key k, is put below p. *)
Pousse(m, m2, p, a, k) ==
  /\ p \in DOMAIN m /\ a \notin DOMAIN m /\ a # NULL
  /\ DOMAIN m2 = DOMAIN m \union {a}
  /\ m2[a].key = k /\ m2[a].left = NULL /\ m2[a].right = NULL
  /\ \A n \in DOMAIN m : m2[n].key = m[n].key
  /\ \A n \in DOMAIN m \ {p} : m2[n].left = m[n].left /\ m2[n].right = m[n].right
  /\ \/ /\ k < m[p].key /\ m[p].left = NULL
        /\ m2[p].left = a /\ m2[p].right = m[p].right
     \/ /\ m[p].key < k /\ m[p].right = NULL
        /\ m2[p].left = m[p].left /\ m2[p].right = a

DessousPousse(m, S, p, a, S2) ==
  /\ S2 \in [DOMAIN m \union {a} -> SUBSET (DOMAIN m \union {a})] /\ S2[a] = {a}
  /\ \A n \in DOMAIN m : S2[n] = IF p \in S[n] THEN S[n] \union {a} ELSE S[n]

(* The tree stays a search tree. *)
LEMMA Ajout ==
  ASSUME NEW m, NEW r, NEW S, EstArbre(m, r, S), NEW m2, NEW p, NEW a, NEW k \in Int,
         Pousse(m, m2, p, a, k), Situe(m, S, k, p), \A n \in DOMAIN m : m[n].key # k,
         NEW S2, DessousPousse(m, S, p, a, S2)
  PROVE  EstArbre(m2, r, S2)
<1> DEFINE A  == DOMAIN m
<1>1. /\ p \in A /\ a \notin A /\ a # NULL /\ DOMAIN m2 = A \union {a} /\ NULL \notin A
      /\ S \in [A -> SUBSET A] /\ p \in S[p]
      /\ m2[a].key = k /\ m2[a].left = NULL /\ m2[a].right = NULL
  BY DEF Pousse, EstArbre
<1>2. /\ S2 \in [A \union {a} -> SUBSET (A \union {a})]
      /\ S2[a] = {a}
      /\ \A n \in A : S2[n] = IF p \in S[n] THEN S[n] \union {a} ELSE S[n]
  BY DEF DessousPousse
<1>3. \A n \in A : m[n].left \in A \union {NULL} /\ m[n].right \in A \union {NULL}
  BY DEF EstArbre
<1>4. ASSUME NEW n \in A, n # p
      PROVE  /\ m2[n].left = m[n].left /\ m2[n].right = m[n].right
             /\ m2[n].left # a /\ m2[n].right # a
  BY <1>1, <1>3, <1>4 DEF Pousse
<1>5. \A n \in A \union {a} : m2[n].left \in A \union {a, NULL} /\ m2[n].right \in A \union {a, NULL}
  BY <1>1, <1>3 DEF Pousse
<1>6. /\ \A n \in A : m2[n].key = m[n].key /\ m[n].key \in Int /\ m[n].key # k
      /\ \A i, j \in A : m[i].key = m[j].key => i = j
  BY DEF Pousse, EstArbre
(* A node has p below it on one side at most. *)
<1>7. ASSUME NEW n \in A
      PROVE  ~(p \in Sous(S, m[n].left) /\ p \in Sous(S, m[n].right))
  BY <1>1, <1>6 DEF Situe
<1>8. p \notin Sous(S, m[p].left) /\ p \notin Sous(S, m[p].right)
  BY <1>1, <1>3, Apart DEF Fils, Sous
<1>9. \/ /\ k < m[p].key /\ m[p].left = NULL
         /\ m2[p].left = a /\ m2[p].right = m[p].right
      \/ /\ m[p].key < k /\ m[p].right = NULL
         /\ m2[p].left = m[p].left /\ m2[p].right = a
  BY DEF Pousse
<1>10. \A x \in A \union {NULL} :
         Sous(S2, x) = IF p \in Sous(S, x) THEN Sous(S, x) \union {a} ELSE Sous(S, x)
  BY <1>1, <1>2 DEF Sous
<1>11. Sous(S2, a) = {a} /\ Sous(S2, NULL) = {}
  BY <1>1, <1>2 DEF Sous
<1>12. ASSUME NEW n \in A \union {a}
       PROVE  S2[n] = {n} \union Sous(S2, m2[n].left) \union Sous(S2, m2[n].right)
  <2>1. CASE n = a
    BY <2>1, <1>1, <1>2, <1>11
  <2>2. CASE n = p
    <3>1. S[p] = {p} \union Sous(S, m[p].left) \union Sous(S, m[p].right)
      BY <1>1 DEF EstArbre
    <3>2. /\ Sous(S2, m[p].left) = Sous(S, m[p].left)
          /\ Sous(S2, m[p].right) = Sous(S, m[p].right)
      BY <1>1, <1>3, <1>8, <1>10
    <3>3. S2[p] = S[p] \union {a}
      BY <1>1, <1>2
    <3>4. m[p].left = NULL => Sous(S, m[p].left) = {}
      BY DEF Sous
    <3>5. m[p].right = NULL => Sous(S, m[p].right) = {}
      BY DEF Sous
    <3> QED BY <2>2, <3>1, <3>2, <3>3, <3>4, <3>5, <1>9, <1>11
  <2>3. CASE n \in A \ {p}
    <3>1. S[n] = {n} \union Sous(S, m[n].left) \union Sous(S, m[n].right)
      BY <2>3 DEF EstArbre
    <3>2. p \in S[n] <=> p \in Sous(S, m[n].left) \/ p \in Sous(S, m[n].right)
      BY <3>1, <2>3
    <3> QED BY <2>3, <3>1, <3>2, <1>2, <1>3, <1>4, <1>10
  <2> QED BY <2>1, <2>2, <2>3
<1>13. ASSUME NEW n \in A \union {a}
       PROVE  /\ \A x \in Sous(S2, m2[n].left) : m2[x].key < m2[n].key
              /\ \A x \in Sous(S2, m2[n].right) : m2[n].key < m2[x].key
  <2>1. CASE n = a
    BY <2>1, <1>1, <1>11
  <2>2. ASSUME n \in A
        PROVE /\ \A x \in Sous(S, m[n].left) : x \in A /\ m2[x].key < m[n].key
              /\ \A x \in Sous(S, m[n].right) : x \in A /\ m[n].key < m2[x].key
    BY <2>2, <1>1, <1>3, <1>6 DEF EstArbre, Sous
  <2>3. CASE n = p
    <3>2. /\ Sous(S2, m[p].left) = Sous(S, m[p].left)
          /\ Sous(S2, m[p].right) = Sous(S, m[p].right)
      BY <1>1, <1>3, <1>8, <1>10
    <3> QED BY <2>2, <2>3, <3>2, <1>1, <1>6, <1>9, <1>11
  <2>4. CASE n \in A \ {p}
    <3>1. /\ p \in Sous(S, m[n].left) => k < m[n].key
          /\ p \in Sous(S, m[n].right) => m[n].key < k
      BY <2>4 DEF Situe
    <3>2. m2[n].left = m[n].left /\ m2[n].right = m[n].right /\ m2[n].key = m[n].key
      BY <2>4, <1>4, <1>6
    <3> QED BY <2>2, <2>4, <3>1, <3>2, <1>1, <1>3, <1>10
  <2> QED BY <2>1, <2>3, <2>4
<1>14. ASSUME NEW n \in A \union {a}, NEW x \in S2[n] PROVE S2[x] \subseteq S2[n]
  <2>1. CASE x = a
    BY <2>1, <1>2
  <2>2. CASE x # a
    <3>1. n \in A /\ x \in S[n] /\ x \in A
      BY <2>2, <1>1, <1>2
    <3>2. S[x] \subseteq S[n]
      BY <3>1 DEF EstArbre
    <3> QED BY <3>1, <3>2, <1>2
  <2> QED BY <2>1, <2>2
<1>15. ASSUME NEW q \in A \union {a}, NEW x \in A \union {a}, NEW c \in A \union {a},
              Fils(m2, q, c), c \in S2[x], c # x
       PROVE  q \in S2[x]
  <2>1. x \in A
    BY <1>2, <1>15
  <2>2. q \in A
    BY <1>1, <1>15 DEF Fils
  <2>3. CASE c = a
    <3>1. q = p
      BY <2>2, <2>3, <1>4, <1>15 DEF Fils
    <3>2. p \in S[x]
      BY <2>1, <2>3, <1>1, <1>2, <1>15
    <3> QED BY <2>1, <3>1, <3>2, <1>2
  <2>4. CASE c \in A
    <3>1. Fils(m, q, c) /\ c \in S[x]
      BY <2>1, <2>2, <2>4, <1>1, <1>2, <1>4, <1>9, <1>15 DEF Fils
    <3>2. q \in S[x]
      BY <2>1, <2>2, <2>4, <3>1, <1>15 DEF EstArbre
    <3> QED BY <2>1, <3>2, <1>2
  <2> QED BY <2>3, <2>4
<1>16. r \in A /\ Sous(S2, r) = A \union {a}
  <2>1. r \in A \union {NULL} /\ Sous(S, r) = A
    BY DEF EstArbre
  <2> QED BY <2>1, <1>1, <1>10 DEF Sous
<1>17. \A i, j \in A \union {a} : m2[i].key = m2[j].key => i = j
  BY <1>1, <1>6
<1>18. IsFiniteSet(A \union {a})
  BY FS_AddElement DEF EstArbre
<1>19. \A n \in A \union {a} : m2[n].key \in Int
  BY <1>1, <1>6
<1>20. EstArbre(m2, r, S2)
  <2> HIDE DEF A
  <2> QED BY ONLY <1>1, <1>2, <1>5, <1>12, <1>13, <1>14, <1>15, <1>16, <1>17, <1>18, <1>19
          DEF EstArbre
<1> QED BY <1>20

(* A leaf f is taken away, and what pointed to it is NULL. *)
Coupe(m, r, m2, r2, f) ==
  /\ f \in DOMAIN m /\ m[f].left = NULL /\ m[f].right = NULL
  /\ DOMAIN m2 = DOMAIN m \ {f}
  /\ \A n \in DOMAIN m \ {f} :
       /\ m2[n].key = m[n].key
       /\ m2[n].left = IF m[n].left = f THEN NULL ELSE m[n].left
       /\ m2[n].right = IF m[n].right = f THEN NULL ELSE m[n].right
  /\ r2 = IF r = f THEN NULL ELSE r

DessousCoupe(m, S, f, S2) ==
  /\ S2 \in [DOMAIN m \ {f} -> SUBSET (DOMAIN m \ {f})]
  /\ \A n \in DOMAIN m \ {f} : S2[n] = S[n] \ {f}

(* It stays a search tree. *)
LEMMA Retrait ==
  ASSUME NEW m, NEW r, NEW S, EstArbre(m, r, S), NEW m2, NEW r2, NEW f, Coupe(m, r, m2, r2, f),
         NEW S2, DessousCoupe(m, S, f, S2)
  PROVE  EstArbre(m2, r2, S2)
<1> DEFINE A  == DOMAIN m
<1>1. /\ f \in A /\ DOMAIN m2 = A \ {f} /\ NULL \notin A
      /\ S \in [A -> SUBSET A] /\ S[f] = {f}
  BY DEF Coupe, EstArbre, Sous
<1>2. /\ S2 \in [A \ {f} -> SUBSET (A \ {f})]
      /\ \A n \in A \ {f} : S2[n] = S[n] \ {f}
  BY DEF DessousCoupe
<1>3. ASSUME NEW n \in A \ {f}
      PROVE  /\ m2[n].key = m[n].key /\ m[n].key \in Int
             /\ m2[n].left \in (A \ {f}) \union {NULL} /\ m2[n].right \in (A \ {f}) \union {NULL}
             /\ Sous(S2, m2[n].left) = Sous(S, m[n].left) \ {f}
             /\ Sous(S2, m2[n].right) = Sous(S, m[n].right) \ {f}
             /\ \A c \in A \ {f} : Fils(m2, n, c) => Fils(m, n, c)
  <2>1. m[n].left \in A \union {NULL} /\ m[n].right \in A \union {NULL} /\ m[n].key \in Int
    BY DEF EstArbre
  <2>2. /\ m2[n].key = m[n].key
        /\ m2[n].left = IF m[n].left = f THEN NULL ELSE m[n].left
        /\ m2[n].right = IF m[n].right = f THEN NULL ELSE m[n].right
    BY DEF Coupe
  <2> QED BY <2>1, <2>2, <1>1, <1>2 DEF Sous, Fils
<1>4. r2 \in (A \ {f}) \union {NULL} /\ Sous(S2, r2) = A \ {f}
  <2>1. r \in A \union {NULL} /\ Sous(S, r) = A /\ r2 = IF r = f THEN NULL ELSE r
    BY DEF EstArbre, Coupe
  <2> QED BY <2>1, <1>1, <1>2 DEF Sous
<1>5. ASSUME NEW n \in A \ {f}
      PROVE  S2[n] = {n} \union Sous(S2, m2[n].left) \union Sous(S2, m2[n].right)
  <2>1. S[n] = {n} \union Sous(S, m[n].left) \union Sous(S, m[n].right)
    BY DEF EstArbre
  <2>2. S2[n] = S[n] \ {f}
    BY <1>2
  <2>3. /\ Sous(S2, m2[n].left) = Sous(S, m[n].left) \ {f}
        /\ Sous(S2, m2[n].right) = Sous(S, m[n].right) \ {f}
    BY <1>3
  <2> QED BY <2>1, <2>2, <2>3
<1>6. ASSUME NEW n \in A \ {f}
      PROVE  /\ \A x \in Sous(S2, m2[n].left) : m2[x].key < m2[n].key
             /\ \A x \in Sous(S2, m2[n].right) : m2[n].key < m2[x].key
  <2>1. Sous(S, m[n].left) \subseteq A /\ Sous(S, m[n].right) \subseteq A
    BY <1>1 DEF EstArbre, Sous
  <2>2. /\ \A x \in Sous(S, m[n].left) : m[x].key < m[n].key
        /\ \A x \in Sous(S, m[n].right) : m[n].key < m[x].key
    BY DEF EstArbre
  <2> HIDE DEF A
  <2> QED BY <2>1, <2>2, <1>3
<1>7. ASSUME NEW n \in A \ {f}, NEW x \in S2[n] PROVE S2[x] \subseteq S2[n]
  BY <1>1, <1>2 DEF EstArbre
<1>8. ASSUME NEW p \in A \ {f}, NEW x \in A \ {f}, NEW c \in A \ {f}, Fils(m2, p, c), c \in S2[x], c # x
      PROVE  p \in S2[x]
  BY <1>2, <1>3, <1>8 DEF EstArbre
<1>9. \A i, j \in A \ {f} : m2[i].key = m2[j].key => i = j
  BY <1>3 DEF EstArbre
<1>10. IsFiniteSet(A \ {f})
  BY FS_RemoveElement DEF EstArbre
<1>11. EstArbre(m2, r2, S2)
  <2> HIDE DEF A
  <2> QED BY ONLY <1>1, <1>2, <1>3, <1>4, <1>5, <1>6, <1>7, <1>8, <1>9, <1>10 DEF EstArbre
<1> QED BY <1>11

(* Among any nodes there is one none of whose children is among them. *)
LEMMA PlusBas ==
  ASSUME NEW m, NEW r, NEW S, EstArbre(m, r, S), NEW B \in SUBSET DOMAIN m, B # {}
  PROVE  \E n \in B : \A c \in DOMAIN m : Fils(m, n, c) => c \notin B
<1> DEFINE C == {Cardinality(S[n]) : n \in B}
<1>1. \A n \in DOMAIN m : IsFiniteSet(S[n]) /\ Cardinality(S[n]) \in Nat
  BY FS_Subset, FS_CardinalityType DEF EstArbre
<1>2. PICK n \in B : \A x \in B : Cardinality(S[n]) <= Cardinality(S[x])
  <2>1. C \subseteq Nat /\ C # {}
    BY <1>1
  <2>2. Min(C) \in C /\ \A i \in C : Min(C) <= i
    BY <2>1, PlusPetit
  <2> HIDE DEF C
  <2>3. PICK n \in B : Min(C) = Cardinality(S[n])
    BY <2>2 DEF C
  <2>4. \A x \in B : Cardinality(S[x]) \in C
    BY DEF C
  <2> QED BY <2>2, <2>3, <2>4
<1>3. ASSUME NEW c \in DOMAIN m, Fils(m, n, c), c \in B PROVE FALSE
  <2>1. S[c] \subseteq S[n] /\ n \notin S[c] /\ n \in S[n]
    BY <1>3, Apart DEF EstArbre
  <2>2. Cardinality(S[c]) < Cardinality(S[n])
    BY <1>1, <2>1, FS_Subset, S[c] # S[n]
  <2> QED BY <1>1, <1>2, <1>3, <2>2
<1> QED BY <1>2, <1>3

(* Dessous and Profondeur, as functions of the heap. *)
DessousDe(m) ==
  CHOOSE f : f = [n \in DOMAIN m |->
    {n} \union (IF m[n].left = NULL THEN {} ELSE f[m[n].left])
        \union (IF m[n].right = NULL THEN {} ELSE f[m[n].right])]

ProfondeurDe(m) ==
  CHOOSE f : f = [n \in DOMAIN m |->
    1 + maximum(IF m[n].left = NULL THEN 0 ELSE f[m[n].left],
                IF m[n].right = NULL THEN 0 ELSE f[m[n].right])]

(* They are what the model computes. *)
LEMMA DessousDeMem == Dessous = DessousDe(mem) /\ Profondeur = ProfondeurDe(mem)
BY DEF Dessous, DessousDe, Profondeur, ProfondeurDe

(* The recursion defines one function only. *)
LEMMA DessousUnique ==
  ASSUME NEW m, NEW r, NEW S, EstArbre(m, r, S)
  PROVE  DessousDe(m) = S
<1> DEFINE F(f) == [n \in DOMAIN m |->
             {n} \union (IF m[n].left = NULL THEN {} ELSE f[m[n].left])
                 \union (IF m[n].right = NULL THEN {} ELSE f[m[n].right])]
           g == DessousDe(m)
<1>0. S = [n \in DOMAIN m |-> S[n]]
  BY DEF EstArbre
<1>1. S = F(S)
  <2>1. \A n \in DOMAIN m : S[n] = F(S)[n]
    BY DEF EstArbre, Sous
  <2> QED BY <1>0, <2>1
<1>2. g = F(g)
  BY <1>1 DEF DessousDe
<1> HIDE DEF g
<1> DEFINE B == {n \in DOMAIN m : g[n] # S[n]}
<1>3. B = {}
  <2> SUFFICES ASSUME B # {} PROVE FALSE
    OBVIOUS
  <2>1. PICK n \in B : \A c \in DOMAIN m : Fils(m, n, c) => c \notin B
    BY PlusBas
  <2>2. n \in DOMAIN m /\ m[n].left \in DOMAIN m \union {NULL} /\ m[n].right \in DOMAIN m \union {NULL}
    BY DEF EstArbre
  <2>3. /\ m[n].left # NULL => g[m[n].left] = S[m[n].left]
        /\ m[n].right # NULL => g[m[n].right] = S[m[n].right]
    BY <2>1, <2>2 DEF Fils
  <2>4. F(g)[n] = F(S)[n]
    BY <2>2, <2>3
  <2>5. g[n] = S[n]
    BY <2>4, <1>1, <1>2
  <2> QED BY <2>1, <2>5
<1>4. \A n \in DOMAIN m : g[n] = S[n]
  BY <1>3
<1>5. g = S
  <2>1. F(g) = [n \in DOMAIN m |-> F(g)[n]]
    OBVIOUS
  <2>2. g = [n \in DOMAIN m |-> g[n]]
    BY <1>2, <2>1
  <2> QED BY <1>0, <1>4, <2>2
<1> QED BY <1>5 DEF g

(* If each node stores one more than its children store, that is its height.*)
LEMMA ProfondeurUnique ==
  ASSUME NEW m, NEW r, NEW S, EstArbre(m, r, S),
         \A n \in DOMAIN m : /\ m[n].height \in Nat
                             /\ m[n].height = maximum(height(m, m[n].left), height(m, m[n].right)) + 1
  PROVE  \A n \in DOMAIN m : ProfondeurDe(m)[n] = m[n].height
<1> DEFINE F(f) == [n \in DOMAIN m |->
             1 + maximum(IF m[n].left = NULL THEN 0 ELSE f[m[n].left],
                         IF m[n].right = NULL THEN 0 ELSE f[m[n].right])]
           H == [n \in DOMAIN m |-> m[n].height]
           g == ProfondeurDe(m)
<1>0. \A n \in DOMAIN m : m[n].left \in DOMAIN m \union {NULL} /\ m[n].right \in DOMAIN m \union {NULL}
  BY DEF EstArbre
<1>1. H = F(H)
  <2>1. \A n \in DOMAIN m : H[n] = F(H)[n]
    BY <1>0 DEF maximum, height
  <2> QED BY <2>1
<1>2. g = F(g)
  BY <1>1 DEF ProfondeurDe
<1> HIDE DEF g
<1> DEFINE B == {n \in DOMAIN m : g[n] # H[n]}
<1>3. B = {}
  <2> SUFFICES ASSUME B # {} PROVE FALSE
    OBVIOUS
  <2>1. PICK n \in B : \A c \in DOMAIN m : Fils(m, n, c) => c \notin B
    BY PlusBas
  <2>2. n \in DOMAIN m
    OBVIOUS
  <2>3. /\ m[n].left # NULL => g[m[n].left] = H[m[n].left]
        /\ m[n].right # NULL => g[m[n].right] = H[m[n].right]
    BY <1>0, <2>1, <2>2 DEF Fils
  <2>4. F(g)[n] = F(H)[n]
    BY <2>2, <2>3
  <2>5. g[n] = H[n]
    BY <2>4, <1>1, <1>2
  <2> QED BY <2>1, <2>5
<1> QED BY <1>3 DEF g

(* The nodes of the heap are well formed. *)
Formes(m) ==
  \A n \in DOMAIN m :
    m[n] \in [key : Cles, value : Valeurs, left : DOMAIN m \union {NULL},
              right : DOMAIN m \union {NULL}, height : Nat]

(* A node is balanced and stores its height. *)
Exact(m, n) ==
  /\ m[n].height = maximum(height(m, m[n].left), height(m, m[n].right)) + 1
  /\ Balance(m, n) \in {-1, 0, 1}

(* The subtree c was of height o, and has grown by at most one: then it is *)
(* a leaf, or leans on a side.                                             *)
Grandi(m, c, o) ==
  \/ height(m, c) = o
  \/ height(m, c) = o + 1 /\ (o = 0 \/ Balance(m, c) # 0)

(* A node was exact, before one of its subtrees grew. *)
Presque(m, n) ==
  \E o \in Nat :
    \/ /\ Grandi(m, m[n].left, o)
       /\ m[n].height = maximum(o, height(m, m[n].right)) + 1
       /\ o - height(m, m[n].right) \in {-1, 0, 1}
    \/ /\ Grandi(m, m[n].right, o)
       /\ m[n].height = maximum(height(m, m[n].left), o) + 1
       /\ height(m, m[n].left) - o \in {-1, 0, 1}

(* What height returns. *)
LEMMA HauteurNat ==
  ASSUME NEW m, Formes(m), NEW n \in DOMAIN m \union {NULL}
  PROVE  height(m, n) \in Nat
BY DEF Formes, height

(* A node stays exact as long as nothing is changed next to it. *)
LEMMA ExactApres ==
  ASSUME NEW m, NEW m3, NEW n \in DOMAIN m, NULL \notin DOMAIN m, Exact(m, n), Formes(m),
         m3[n].left = m[n].left, m3[n].right = m[n].right, m3[n].height = m[n].height,
         \A c \in DOMAIN m : Fils(m, n, c) => m3[c].height = m[c].height
  PROVE  Exact(m3, n)
<1>1. m[n].left \in DOMAIN m \union {NULL} /\ m[n].right \in DOMAIN m \union {NULL}
  BY DEF Formes
<1>2. height(m3, m[n].left) = height(m, m[n].left) /\ height(m3, m[n].right) = height(m, m[n].right)
  BY <1>1 DEF height, Fils
<1> QED BY <1>2 DEF Exact, Balance

(* What updateHeight does. *)
LEMMA MiseAJour ==
  ASSUME NEW m, Formes(m), NEW z \in DOMAIN m, NULL \notin DOMAIN m
  PROVE  LET m2 == updateHeight(m, z)
         IN  /\ DOMAIN m2 = DOMAIN m /\ Formes(m2)
             /\ \A n \in DOMAIN m \ {z} : m2[n] = m[n]
             /\ m2[z].key = m[z].key /\ m2[z].value = m[z].value
             /\ m2[z].left = m[z].left /\ m2[z].right = m[z].right
             /\ m2[z].height = maximum(height(m, m[z].left), height(m, m[z].right)) + 1
<1> DEFINE h == maximum(height(m, m[z].left), height(m, m[z].right)) + 1
           m2 == updateHeight(m, z)
<1>1. h \in Nat
  <2>1. m[z].left \in DOMAIN m \union {NULL} /\ m[z].right \in DOMAIN m \union {NULL}
    BY DEF Formes
  <2> QED BY <2>1, HauteurNat DEF maximum
<1>2. m2 = [m EXCEPT ![z] = [m[z] EXCEPT !.height = h]]
  BY DEF updateHeight
<1> HIDE DEF h
<1>3. DOMAIN m2 = DOMAIN m /\ \A n \in DOMAIN m \ {z} : m2[n] = m[n]
  BY <1>2
<1>4. m2[z] = [m[z] EXCEPT !.height = h]
  BY <1>2
<1> HIDE DEF m2
<1>5. m[z] \in [key : Cles, value : Valeurs, left : DOMAIN m \union {NULL},
                right : DOMAIN m \union {NULL}, height : Nat]
  BY DEF Formes
<1>6. /\ m2[z].key = m[z].key /\ m2[z].value = m[z].value
      /\ m2[z].left = m[z].left /\ m2[z].right = m[z].right
      /\ m2[z].height = h
  BY <1>4, <1>5
<1>7. Formes(m2)
  <2>1. m2[z] \in [key : Cles, value : Valeurs, left : DOMAIN m \union {NULL},
                   right : DOMAIN m \union {NULL}, height : Nat]
    BY <1>1, <1>4, <1>5
  <2> QED BY <2>1, <1>3 DEF Formes
<1> QED BY <1>3, <1>6, <1>7 DEF h, m2

(* What rightRotate does. *)
LEMMA TourDroite ==
  ASSUME NEW m, Formes(m), NULL \notin DOMAIN m, NEW z \in DOMAIN m, NEW y \in DOMAIN m,
         y = m[z].left, y # z
  PROVE  LET m2 == rightRotate(m, z)
         IN  /\ DOMAIN m2 = DOMAIN m /\ Formes(m2)
             /\ \A n \in DOMAIN m \ {z, y} : m2[n] = m[n]
             /\ \A n \in DOMAIN m : m2[n].key = m[n].key /\ m2[n].value = m[n].value
             /\ m2[y].left = m[y].left /\ m2[y].right = z /\ m2[y].height = m[y].height
             /\ m2[z].left = m[y].right /\ m2[z].right = m[z].right
             /\ m2[z].height = maximum(height(m, m[y].right), height(m, m[z].right)) + 1
<1> DEFINE m1 == [m EXCEPT ![y].right = z, ![z].left = m[y].right]
           m2 == rightRotate(m, z)
<1>1. /\ DOMAIN m1 = DOMAIN m /\ \A n \in DOMAIN m \ {z, y} : m1[n] = m[n]
      /\ m1[y] = [m[y] EXCEPT !.right = z] /\ m1[z] = [m[z] EXCEPT !.left = m[y].right]
  OBVIOUS
<1>2. m2 = updateHeight(m1, z)
  BY DEF rightRotate
<1> HIDE DEF m1, m2
<1>3. /\ m[y] \in [key : Cles, value : Valeurs, left : DOMAIN m \union {NULL},
                   right : DOMAIN m \union {NULL}, height : Nat]
      /\ m[z] \in [key : Cles, value : Valeurs, left : DOMAIN m \union {NULL},
                   right : DOMAIN m \union {NULL}, height : Nat]
  BY DEF Formes
<1>4. Formes(m1)
  BY <1>1, <1>3 DEF Formes
<1>5. /\ m1[y].key = m[y].key /\ m1[y].value = m[y].value /\ m1[y].height = m[y].height
      /\ m1[y].left = m[y].left /\ m1[y].right = z
      /\ m1[z].key = m[z].key /\ m1[z].value = m[z].value /\ m1[z].height = m[z].height
      /\ m1[z].left = m[y].right /\ m1[z].right = m[z].right
  BY <1>1, <1>3
<1>6. \A n \in DOMAIN m \union {NULL} : height(m1, n) = height(m, n)
  BY <1>1, <1>5 DEF height
<1>7. /\ height(m1, m1[z].left) = height(m, m[y].right)
      /\ height(m1, m1[z].right) = height(m, m[z].right)
  BY <1>3, <1>5, <1>6
<1>8. /\ DOMAIN m2 = DOMAIN m1 /\ Formes(m2)
      /\ \A n \in DOMAIN m1 \ {z} : m2[n] = m1[n]
      /\ m2[z].key = m1[z].key /\ m2[z].value = m1[z].value
      /\ m2[z].left = m1[z].left /\ m2[z].right = m1[z].right
      /\ m2[z].height = maximum(height(m1, m1[z].left), height(m1, m1[z].right)) + 1
  <2>1. z \in DOMAIN m1 /\ NULL \notin DOMAIN m1
    BY <1>1
  <2> QED BY <2>1, <1>2, <1>4, MiseAJour
<1>9. m2[y] = m1[y]
  BY <1>1, <1>8
<1>10. \A n \in DOMAIN m : m2[n].key = m[n].key /\ m2[n].value = m[n].value
  <2> TAKE n \in DOMAIN m
  <2>1. CASE n = z
    BY <2>1, <1>5, <1>8
  <2>2. CASE n = y
    BY <2>2, <1>5, <1>9
  <2>3. CASE n \notin {z, y}
    BY <2>3, <1>1, <1>8
  <2> QED BY <2>1, <2>2, <2>3
<1>11. m2[z].height = maximum(height(m, m[y].right), height(m, m[z].right)) + 1
  BY <1>7, <1>8
<1> QED BY <1>1, <1>5, <1>8, <1>9, <1>10, <1>11 DEF m2

(* What leftRotate does. *)
LEMMA TourGauche ==
  ASSUME NEW m, Formes(m), NULL \notin DOMAIN m, NEW z \in DOMAIN m, NEW y \in DOMAIN m,
         y = m[z].right, y # z
  PROVE  LET m2 == leftRotate(m, z)
         IN  /\ DOMAIN m2 = DOMAIN m /\ Formes(m2)
             /\ \A n \in DOMAIN m \ {z, y} : m2[n] = m[n]
             /\ \A n \in DOMAIN m : m2[n].key = m[n].key /\ m2[n].value = m[n].value
             /\ m2[y].right = m[y].right /\ m2[y].left = z /\ m2[y].height = m[y].height
             /\ m2[z].right = m[y].left /\ m2[z].left = m[z].left
             /\ m2[z].height = maximum(height(m, m[z].left), height(m, m[y].left)) + 1
<1> DEFINE m1 == [m EXCEPT ![y].left = z, ![z].right = m[y].left]
           m2 == leftRotate(m, z)
<1>1. /\ DOMAIN m1 = DOMAIN m /\ \A n \in DOMAIN m \ {z, y} : m1[n] = m[n]
      /\ m1[y] = [m[y] EXCEPT !.left = z] /\ m1[z] = [m[z] EXCEPT !.right = m[y].left]
  OBVIOUS
<1>2. m2 = updateHeight(m1, z)
  BY DEF leftRotate
<1> HIDE DEF m1, m2
<1>3. /\ m[y] \in [key : Cles, value : Valeurs, right : DOMAIN m \union {NULL},
                   left : DOMAIN m \union {NULL}, height : Nat]
      /\ m[z] \in [key : Cles, value : Valeurs, right : DOMAIN m \union {NULL},
                   left : DOMAIN m \union {NULL}, height : Nat]
  BY DEF Formes
<1>4. Formes(m1)
  BY <1>1, <1>3 DEF Formes
<1>5. /\ m1[y].key = m[y].key /\ m1[y].value = m[y].value /\ m1[y].height = m[y].height
      /\ m1[y].right = m[y].right /\ m1[y].left = z
      /\ m1[z].key = m[z].key /\ m1[z].value = m[z].value /\ m1[z].height = m[z].height
      /\ m1[z].right = m[y].left /\ m1[z].left = m[z].left
  BY <1>1, <1>3
<1>6. \A n \in DOMAIN m \union {NULL} : height(m1, n) = height(m, n)
  BY <1>1, <1>5 DEF height
<1>7. /\ height(m1, m1[z].right) = height(m, m[y].left)
      /\ height(m1, m1[z].left) = height(m, m[z].left)
  BY <1>3, <1>5, <1>6
<1>8. /\ DOMAIN m2 = DOMAIN m1 /\ Formes(m2)
      /\ \A n \in DOMAIN m1 \ {z} : m2[n] = m1[n]
      /\ m2[z].key = m1[z].key /\ m2[z].value = m1[z].value
      /\ m2[z].right = m1[z].right /\ m2[z].left = m1[z].left
      /\ m2[z].height = maximum(height(m1, m1[z].left), height(m1, m1[z].right)) + 1
  <2>1. z \in DOMAIN m1 /\ NULL \notin DOMAIN m1
    BY <1>1
  <2> QED BY <2>1, <1>2, <1>4, MiseAJour
<1>9. m2[y] = m1[y]
  BY <1>1, <1>8
<1>10. \A n \in DOMAIN m : m2[n].key = m[n].key /\ m2[n].value = m[n].value
  <2> TAKE n \in DOMAIN m
  <2>1. CASE n = z
    BY <2>1, <1>5, <1>8
  <2>2. CASE n = y
    BY <2>2, <1>5, <1>9
  <2>3. CASE n \notin {z, y}
    BY <2>3, <1>1, <1>8
  <2> QED BY <2>1, <2>2, <2>3
<1>11. m2[z].height = maximum(height(m, m[z].left), height(m, m[y].left)) + 1
  BY <1>7, <1>8
<1> QED BY <1>1, <1>5, <1>8, <1>9, <1>10, <1>11 DEF m2

(* m3 is m2, where the subtree z is now n2, once the caller has stored n2. *)
Rattache(m, r, S, z, m2, n2, m3, r3) ==
  /\ DOMAIN m3 = DOMAIN m /\ Formes(m3)
  /\ \A n \in DOMAIN m :
       m3[n].key = m2[n].key /\ m3[n].value = m2[n].value /\ m3[n].height = m2[n].height
  /\ \A n \in S[z] : m3[n].left = m2[n].left /\ m3[n].right = m2[n].right
  /\ \A n \in DOMAIN m \ S[z] :
       /\ m3[n].left = IF m[n].left = z THEN n2 ELSE m[n].left
       /\ m3[n].right = IF m[n].right = z THEN n2 ELSE m[n].right
  /\ r3 = IF r = z THEN n2 ELSE r

(* Then the tree is balanced up to the parent of z, and n2 has grown.      *)
Equilibree(m, r, S, z, n2, m3, r3) ==
  /\ \A n \in DOMAIN m : m3[n].key = m[n].key /\ m3[n].value = m[n].value
  /\ Grandi(m3, n2, m[z].height)
  /\ \A n \in DOMAIN m \ S[z] : m3[n].height = m[n].height
  /\ \A n \in DOMAIN m : ~Fils(m, n, z) => Exact(m3, n)
  /\ \E S3 : /\ EstArbre(m3, r3, S3) /\ S3[n2] = S[z]
             /\ \A n \in DOMAIN m \ S[z] : S3[n] = S[n]

(* U differs from m below z only, where n2 is. *)
Locale(m, S, z, U, n2) ==
  /\ n2 \in S[z] /\ DOMAIN U = DOMAIN m /\ Formes(U)
  /\ \A n \in DOMAIN m \ S[z] : U[n] = m[n]

(* The left left case: one rotation, and no growth. *)
LEMMA SimpleDroite ==
  ASSUME NEW m, NEW r, NEW S, EstArbre(m, r, S), Formes(m), NEW z \in DOMAIN m,
         \A n \in DOMAIN m \ {z} : Exact(m, n), Presque(m, z),
         NEW y, y = m[z].left, height(m, y) - height(m, m[z].right) > 1,
         height(m, m[y].left) - height(m, m[y].right) > 0
  PROVE  LET U == updateHeight(rightRotate(m, z), y)
         IN  /\ Locale(m, S, z, U, y)
             /\ \A m3, r3 : Rattache(m, r, S, z, U, y, m3, r3) => Equilibree(m, r, S, z, y, m3, r3)
<1> DEFINE A == DOMAIN m
           R == rightRotate(m, z)
           U == updateHeight(R, y)
           t == m[y].right
           w == m[z].right
           u == m[y].left
<1>0. NULL \notin A /\ \A n \in A \union {NULL} : height(m, n) \in Nat
  BY HauteurNat DEF EstArbre
<1>1. z \in A /\ y \in A /\ {w, t, u} \subseteq A \union {NULL}
  <2>1. y \in A \union {NULL} /\ w \in A \union {NULL}
    BY DEF Formes
  <2>2. y \in A
    BY <1>0, <2>1 DEF height
  <2> QED BY <2>1, <2>2 DEF Formes
<1>2. /\ y # z /\ S[z] \subseteq A /\ z \in S[z] /\ y \in S[z]
      /\ w # y /\ w # z /\ t # y /\ t # z /\ u # y /\ u # z
  <2>1. y # z /\ y \in S[z] /\ z \notin S[y] /\ y # w
    BY <1>1, Apart DEF Fils
  <2>2. \A c \in A : Fils(m, y, c) => c # y /\ c \in S[y]
    BY <1>1, Apart
  <2>3. \A c \in A : Fils(m, z, c) => c # z
    BY <1>1, Apart
  <2> QED BY <1>0, <1>1, <2>1, <2>2, <2>3 DEF Fils, EstArbre
<1>3. /\ DOMAIN R = A /\ Formes(R)
      /\ \A n \in A \ {z, y} : R[n] = m[n]
      /\ \A n \in A : R[n].key = m[n].key /\ R[n].value = m[n].value
      /\ R[y].left = u /\ R[y].right = z /\ R[y].height = m[y].height
      /\ R[z].left = t /\ R[z].right = w
      /\ R[z].height = maximum(height(m, t), height(m, w)) + 1
  BY <1>0, <1>1, <1>2, TourDroite
<1> HIDE DEF R
<1>4. /\ DOMAIN U = A /\ Formes(U)
      /\ \A n \in A \ {y} : U[n] = R[n]
      /\ U[y].key = R[y].key /\ U[y].value = R[y].value
      /\ U[y].left = u /\ U[y].right = z
      /\ U[y].height = maximum(height(R, u), height(R, z)) + 1
  <2> DEFINE V == updateHeight(R, y)
  <2>1. y \in DOMAIN R /\ NULL \notin DOMAIN R
    BY <1>0, <1>1, <1>3
  <2>2. /\ DOMAIN V = DOMAIN R /\ Formes(V)
        /\ \A n \in DOMAIN R \ {y} : V[n] = R[n]
        /\ V[y].key = R[y].key /\ V[y].value = R[y].value
        /\ V[y].left = R[y].left /\ V[y].right = R[y].right
        /\ V[y].height = maximum(height(R, R[y].left), height(R, R[y].right)) + 1
    BY <2>1, <1>3, MiseAJour
  <2> HIDE DEF V
  <2> QED BY <2>2, <1>3 DEF V
<1> HIDE DEF U
<1>a. Locale(m, S, z, U, y)
  BY <1>1, <1>2, <1>3, <1>4 DEF Locale
<1> SUFFICES ASSUME NEW m3, NEW r3, Rattache(m, r, S, z, U, y, m3, r3)
             PROVE  Equilibree(m, r, S, z, y, m3, r3)
  BY <1>a DEF U, R
<1>5. /\ m3[z].left = t /\ m3[z].right = w /\ m3[y].left = u /\ m3[y].right = z
      /\ m3[z].height = maximum(height(m, t), height(m, w)) + 1
      /\ m3[y].height = maximum(height(R, u), height(R, z)) + 1
      /\ \A n \in A : m3[n].key = m[n].key /\ m3[n].value = m[n].value
      /\ \A n \in A \ {z, y} : /\ m3[n].height = m[n].height
                               /\ m3[n].left = IF m[n].left = z THEN y ELSE m[n].left
                               /\ m3[n].right = IF m[n].right = z THEN y ELSE m[n].right
  <2>1. ASSUME NEW n \in S[z] PROVE m[n].left # z /\ m[n].right # z
    <3>1. ~Fils(m, n, z)
      BY <1>1, <1>2, Apart DEF EstArbre
    <3> QED BY <3>1 DEF Fils
  <2>2. \A n \in A : m3[n].key = m[n].key /\ m3[n].value = m[n].value
    BY <1>3, <1>4 DEF Rattache
  <2>3. m3[z].left = t /\ m3[z].right = w /\ m3[y].left = u /\ m3[y].right = z
    BY <1>1, <1>2, <1>3, <1>4 DEF Rattache
  <2>4. /\ m3[z].height = maximum(height(m, t), height(m, w)) + 1
        /\ m3[y].height = maximum(height(R, u), height(R, z)) + 1
    BY <1>1, <1>2, <1>3, <1>4 DEF Rattache
  <2>5. \A n \in A \ {z, y} : U[n] = m[n]
    BY <1>3, <1>4
  <2>6. \A n \in A \ {z, y} : m3[n].height = m[n].height
    BY <2>5 DEF Rattache
  <2>7. ASSUME NEW n \in A \ {z, y}
        PROVE  /\ m3[n].left = IF m[n].left = z THEN y ELSE m[n].left
               /\ m3[n].right = IF m[n].right = z THEN y ELSE m[n].right
    <3>1. CASE n \in S[z]
      BY <2>1, <2>5, <3>1 DEF Rattache
    <3>2. CASE n \notin S[z]
      BY <3>2 DEF Rattache
    <3> QED BY <3>1, <3>2
  <2> QED BY <2>2, <2>3, <2>4, <2>6, <2>7
<1>6. DOMAIN m3 = A /\ r3 = (IF r = z THEN y ELSE r)
  BY DEF Rattache
<1>7. TourneADroite(m, r, m3, r3, z, y)
  BY <1>1, <1>5, <1>6 DEF TourneADroite
<1>8. \E S3 : /\ EstArbre(m3, r3, S3) /\ S3[y] = S[z]
              /\ \A n \in A \ S[z] : S3[n] = S[n]
  <2> DEFINE S3 == [n \in A |-> IF n = z THEN {z} \union Sous(S, t) \union Sous(S, w)
                                ELSE IF n = y THEN S[z] ELSE S[n]]
  <2>1. EstArbre(m3, r3, S3)
    BY <1>7, RotationADroite
  <2>2. S3[y] = S[z] /\ \A n \in A \ S[z] : S3[n] = S[n]
    BY <1>1, <1>2
  <2> QED BY <2>1, <2>2
(* The heights. *)
<1> DEFINE ht == height(m, t)
           hu == height(m, u)
           hw == height(m, w)
<1>9. ht \in Nat /\ hu \in Nat /\ hw \in Nat /\ m[z].height \in Nat
  BY <1>0, <1>1 DEF Formes
<1>10. /\ height(m3, t) = ht /\ height(m3, u) = hu /\ height(m3, w) = hw
       /\ height(R, u) = hu /\ height(R, z) = maximum(ht, hw) + 1
       /\ height(m3, z) = maximum(ht, hw) + 1
  BY <1>0, <1>1, <1>2, <1>3, <1>5 DEF height
<1>11. /\ m3[z].height = maximum(ht, hw) + 1
       /\ m3[y].height = maximum(hu, maximum(ht, hw) + 1) + 1
  BY <1>5, <1>10
<1>12. /\ hu = hw + 1 /\ ht = hw /\ m[z].height = hw + 2
  <2>1. m[y].height = maximum(hu, ht) + 1 /\ (hu - ht \in {-1, 0, 1} \/ ht - hu \in {-1, 0, 1})
    <3> HIDE DEF A, ht, hu
    <3>1. y \in DOMAIN m \ {z}
      BY <1>1, <1>2 DEF A
    <3>2. /\ (m[y].height = maximum(hu, ht) + 1 \/ m[y].height = maximum(ht, hu) + 1)
          /\ (hu - ht \in {-1, 0, 1} \/ ht - hu \in {-1, 0, 1})
      BY <3>1 DEF Exact, Balance, ht, hu
    <3> QED BY <3>2, <1>9 DEF maximum
  <2>2. height(m, y) = m[y].height
    BY <1>0, <1>1 DEF height
  <2>3. PICK o \in Nat : \/ /\ m[y].height \in {o, o + 1}
                            /\ (m[z].height = maximum(o, hw) + 1 \/ m[z].height = maximum(hw, o) + 1)
                            /\ (o - hw \in {-1, 0, 1} \/ hw - o \in {-1, 0, 1})
                         \/ /\ hw \in {o, o + 1}
                            /\ \/ m[z].height = maximum(m[y].height, o) + 1
                               \/ m[z].height = maximum(o, m[y].height) + 1
                            /\ (m[y].height - o \in {-1, 0, 1} \/ o - m[y].height \in {-1, 0, 1})
    BY <2>2 DEF Presque, Grandi
  <2> HIDE DEF hu, ht, hw
  <2>4. m[y].height \in Nat /\ hu - ht > 0 /\ m[y].height - hw > 1
    BY <1>1, <2>2 DEF Formes, hu, ht, hw
  <2> QED BY <1>9, <2>1, <2>3, <2>4 DEF maximum
<1>13. /\ m3[y].height = m[z].height /\ Grandi(m3, y, m[z].height)
       /\ Exact(m3, z) /\ Exact(m3, y)
  <2> HIDE DEF hu, ht, hw
  <2>1. m3[z].height = hw + 1 /\ m3[y].height = hw + 2 /\ height(m3, z) = hw + 1
    BY <1>9, <1>10, <1>11, <1>12 DEF maximum
  <2>2. Exact(m3, z)
    BY <2>1, <1>5, <1>9, <1>10, <1>12 DEF Exact, Balance, maximum
  <2>3. Exact(m3, y)
    BY <2>1, <1>5, <1>9, <1>10, <1>12 DEF Exact, Balance, maximum
  <2>4. height(m3, y) = m3[y].height
    BY <1>0, <1>1 DEF height
  <2> QED BY <2>1, <2>2, <2>3, <2>4, <1>12 DEF Grandi
<1>14. ASSUME NEW n \in A, ~Fils(m, n, z) PROVE Exact(m3, n)
  <2>1. CASE n \notin {z, y}
    <3>1. m3[n].left = m[n].left /\ m3[n].right = m[n].right /\ m3[n].height = m[n].height
      BY <1>5, <1>14, <2>1 DEF Fils
    <3>2. \A c \in A : Fils(m, n, c) => c # z /\ c # y
      BY <1>1, <1>14, <2>1, UnParent DEF Fils
    <3>3. \A c \in A : Fils(m, n, c) => m3[c].height = m[c].height
      BY <3>2, <1>5
    <3> QED BY <2>1, <3>1, <3>3, <1>0, ExactApres
  <2> QED BY <2>1, <1>13
<1>15. \A n \in A \ S[z] : m3[n].height = m[n].height
  BY <1>2, <1>5
<1> QED BY <1>5, <1>8, <1>13, <1>14, <1>15 DEF Equilibree

(* The right right case: one rotation, and no growth. *)
LEMMA SimpleGauche ==
  ASSUME NEW m, NEW r, NEW S, EstArbre(m, r, S), Formes(m), NEW z \in DOMAIN m,
         \A n \in DOMAIN m \ {z} : Exact(m, n), Presque(m, z),
         NEW y, y = m[z].right, height(m, y) - height(m, m[z].left) > 1,
         height(m, m[y].right) - height(m, m[y].left) > 0
  PROVE  LET U == updateHeight(leftRotate(m, z), y)
         IN  /\ Locale(m, S, z, U, y)
             /\ \A m3, r3 : Rattache(m, r, S, z, U, y, m3, r3) => Equilibree(m, r, S, z, y, m3, r3)
<1> DEFINE A == DOMAIN m
           R == leftRotate(m, z)
           U == updateHeight(R, y)
           t == m[y].left
           w == m[z].left
           u == m[y].right
<1>0. NULL \notin A /\ \A n \in A \union {NULL} : height(m, n) \in Nat
  BY HauteurNat DEF EstArbre
<1>1. z \in A /\ y \in A /\ {w, t, u} \subseteq A \union {NULL}
  <2>1. y \in A \union {NULL} /\ w \in A \union {NULL}
    BY DEF Formes
  <2>2. y \in A
    BY <1>0, <2>1 DEF height
  <2> QED BY <2>1, <2>2 DEF Formes
<1>2. /\ y # z /\ S[z] \subseteq A /\ z \in S[z] /\ y \in S[z]
      /\ w # y /\ w # z /\ t # y /\ t # z /\ u # y /\ u # z
  <2>1. y # z /\ y \in S[z] /\ z \notin S[y] /\ y # w
    BY <1>1, Apart DEF Fils
  <2>2. \A c \in A : Fils(m, y, c) => c # y /\ c \in S[y]
    BY <1>1, Apart
  <2>3. \A c \in A : Fils(m, z, c) => c # z
    BY <1>1, Apart
  <2> QED BY <1>0, <1>1, <2>1, <2>2, <2>3 DEF Fils, EstArbre
<1>3. /\ DOMAIN R = A /\ Formes(R)
      /\ \A n \in A \ {z, y} : R[n] = m[n]
      /\ \A n \in A : R[n].key = m[n].key /\ R[n].value = m[n].value
      /\ R[y].right = u /\ R[y].left = z /\ R[y].height = m[y].height
      /\ R[z].right = t /\ R[z].left = w
      /\ R[z].height = maximum(height(m, w), height(m, t)) + 1
  BY <1>0, <1>1, <1>2, TourGauche
<1> HIDE DEF R
<1>4. /\ DOMAIN U = A /\ Formes(U)
      /\ \A n \in A \ {y} : U[n] = R[n]
      /\ U[y].key = R[y].key /\ U[y].value = R[y].value
      /\ U[y].right = u /\ U[y].left = z
      /\ U[y].height = maximum(height(R, z), height(R, u)) + 1
  <2> DEFINE V == updateHeight(R, y)
  <2>1. y \in DOMAIN R /\ NULL \notin DOMAIN R
    BY <1>0, <1>1, <1>3
  <2>2. /\ DOMAIN V = DOMAIN R /\ Formes(V)
        /\ \A n \in DOMAIN R \ {y} : V[n] = R[n]
        /\ V[y].key = R[y].key /\ V[y].value = R[y].value
        /\ V[y].right = R[y].right /\ V[y].left = R[y].left
        /\ V[y].height = maximum(height(R, R[y].left), height(R, R[y].right)) + 1
    BY <2>1, <1>3, MiseAJour
  <2> HIDE DEF V
  <2> QED BY <2>2, <1>3 DEF V
<1> HIDE DEF U
<1>a. Locale(m, S, z, U, y)
  BY <1>1, <1>2, <1>3, <1>4 DEF Locale
<1> SUFFICES ASSUME NEW m3, NEW r3, Rattache(m, r, S, z, U, y, m3, r3)
             PROVE  Equilibree(m, r, S, z, y, m3, r3)
  BY <1>a DEF U, R
<1>5. /\ m3[z].right = t /\ m3[z].left = w /\ m3[y].right = u /\ m3[y].left = z
      /\ m3[z].height = maximum(height(m, w), height(m, t)) + 1
      /\ m3[y].height = maximum(height(R, z), height(R, u)) + 1
      /\ \A n \in A : m3[n].key = m[n].key /\ m3[n].value = m[n].value
      /\ \A n \in A \ {z, y} : /\ m3[n].height = m[n].height
                               /\ m3[n].right = IF m[n].right = z THEN y ELSE m[n].right
                               /\ m3[n].left = IF m[n].left = z THEN y ELSE m[n].left
  <2>1. ASSUME NEW n \in S[z] PROVE m[n].right # z /\ m[n].left # z
    <3>1. ~Fils(m, n, z)
      BY <1>1, <1>2, Apart DEF EstArbre
    <3> QED BY <3>1 DEF Fils
  <2>2. \A n \in A : m3[n].key = m[n].key /\ m3[n].value = m[n].value
    BY <1>3, <1>4 DEF Rattache
  <2>3. m3[z].right = t /\ m3[z].left = w /\ m3[y].right = u /\ m3[y].left = z
    BY <1>1, <1>2, <1>3, <1>4 DEF Rattache
  <2>4. /\ m3[z].height = maximum(height(m, w), height(m, t)) + 1
        /\ m3[y].height = maximum(height(R, z), height(R, u)) + 1
    BY <1>1, <1>2, <1>3, <1>4 DEF Rattache
  <2>5. \A n \in A \ {z, y} : U[n] = m[n]
    BY <1>3, <1>4
  <2>6. \A n \in A \ {z, y} : m3[n].height = m[n].height
    BY <2>5 DEF Rattache
  <2>7. ASSUME NEW n \in A \ {z, y}
        PROVE  /\ m3[n].right = IF m[n].right = z THEN y ELSE m[n].right
               /\ m3[n].left = IF m[n].left = z THEN y ELSE m[n].left
    <3>1. CASE n \in S[z]
      BY <2>1, <2>5, <3>1 DEF Rattache
    <3>2. CASE n \notin S[z]
      BY <3>2 DEF Rattache
    <3> QED BY <3>1, <3>2
  <2> QED BY <2>2, <2>3, <2>4, <2>6, <2>7
<1>6. DOMAIN m3 = A /\ r3 = (IF r = z THEN y ELSE r)
  BY DEF Rattache
<1>7. TourneAGauche(m, r, m3, r3, z, y)
  BY <1>1, <1>5, <1>6 DEF TourneAGauche
<1>8. \E S3 : /\ EstArbre(m3, r3, S3) /\ S3[y] = S[z]
              /\ \A n \in A \ S[z] : S3[n] = S[n]
  <2> DEFINE S3 == [n \in A |-> IF n = z THEN {z} \union Sous(S, t) \union Sous(S, w)
                                ELSE IF n = y THEN S[z] ELSE S[n]]
  <2>1. EstArbre(m3, r3, S3)
    BY <1>7, RotationAGauche
  <2>2. S3[y] = S[z] /\ \A n \in A \ S[z] : S3[n] = S[n]
    BY <1>1, <1>2
  <2> QED BY <2>1, <2>2
(* The heights. *)
<1> DEFINE ht == height(m, t)
           hu == height(m, u)
           hw == height(m, w)
<1>9. ht \in Nat /\ hu \in Nat /\ hw \in Nat /\ m[z].height \in Nat
  BY <1>0, <1>1 DEF Formes
<1>10. /\ height(m3, t) = ht /\ height(m3, u) = hu /\ height(m3, w) = hw
       /\ height(R, u) = hu /\ height(R, z) = maximum(hw, ht) + 1
       /\ height(m3, z) = maximum(hw, ht) + 1
  BY <1>0, <1>1, <1>2, <1>3, <1>5 DEF height
<1>11. /\ m3[z].height = maximum(hw, ht) + 1
       /\ m3[y].height = maximum(maximum(hw, ht) + 1, hu) + 1
  BY <1>5, <1>10
<1>12. /\ hu = hw + 1 /\ ht = hw /\ m[z].height = hw + 2
  <2>1. m[y].height = maximum(ht, hu) + 1 /\ (hu - ht \in {-1, 0, 1} \/ ht - hu \in {-1, 0, 1})
    <3> HIDE DEF A, ht, hu
    <3>1. y \in DOMAIN m \ {z}
      BY <1>1, <1>2 DEF A
    <3>2. /\ (m[y].height = maximum(ht, hu) + 1 \/ m[y].height = maximum(hu, ht) + 1)
          /\ (hu - ht \in {-1, 0, 1} \/ ht - hu \in {-1, 0, 1})
      BY <3>1 DEF Exact, Balance, ht, hu
    <3> QED BY <3>2, <1>9 DEF maximum
  <2>2. height(m, y) = m[y].height
    BY <1>0, <1>1 DEF height
  <2>3. PICK o \in Nat : \/ /\ m[y].height \in {o, o + 1}
                            /\ (m[z].height = maximum(hw, o) + 1 \/ m[z].height = maximum(o, hw) + 1)
                            /\ (o - hw \in {-1, 0, 1} \/ hw - o \in {-1, 0, 1})
                         \/ /\ hw \in {o, o + 1}
                            /\ \/ m[z].height = maximum(o, m[y].height) + 1
                               \/ m[z].height = maximum(m[y].height, o) + 1
                            /\ (m[y].height - o \in {-1, 0, 1} \/ o - m[y].height \in {-1, 0, 1})
    BY <2>2 DEF Presque, Grandi
  <2> HIDE DEF hu, ht, hw
  <2>4. m[y].height \in Nat /\ hu - ht > 0 /\ m[y].height - hw > 1
    BY <1>1, <2>2 DEF Formes, hu, ht, hw
  <2> QED BY <1>9, <2>1, <2>3, <2>4 DEF maximum
<1>13. /\ m3[y].height = m[z].height /\ Grandi(m3, y, m[z].height)
       /\ Exact(m3, z) /\ Exact(m3, y)
  <2> HIDE DEF hu, ht, hw
  <2>1. m3[z].height = hw + 1 /\ m3[y].height = hw + 2 /\ height(m3, z) = hw + 1
    BY <1>9, <1>10, <1>11, <1>12 DEF maximum
  <2>2. Exact(m3, z)
    BY <2>1, <1>5, <1>9, <1>10, <1>12 DEF Exact, Balance, maximum
  <2>3. Exact(m3, y)
    BY <2>1, <1>5, <1>9, <1>10, <1>12 DEF Exact, Balance, maximum
  <2>4. height(m3, y) = m3[y].height
    BY <1>0, <1>1 DEF height
  <2> QED BY <2>1, <2>2, <2>3, <2>4, <1>12 DEF Grandi
<1>14. ASSUME NEW n \in A, ~Fils(m, n, z) PROVE Exact(m3, n)
  <2>1. CASE n \notin {z, y}
    <3>1. m3[n].right = m[n].right /\ m3[n].left = m[n].left /\ m3[n].height = m[n].height
      BY <1>5, <1>14, <2>1 DEF Fils
    <3>2. \A c \in A : Fils(m, n, c) => c # z /\ c # y
      BY <1>1, <1>14, <2>1, UnParent DEF Fils
    <3>3. \A c \in A : Fils(m, n, c) => m3[c].height = m[c].height
      BY <3>2, <1>5
    <3> QED BY <2>1, <3>1, <3>3, <1>0, ExactApres
  <2> QED BY <2>1, <1>13
<1>15. \A n \in A \ S[z] : m3[n].height = m[n].height
  BY <1>2, <1>5
<1> QED BY <1>5, <1>8, <1>13, <1>14, <1>15 DEF Equilibree

(* What a left rotation of the left child does. *)
LEMMA EffetGaucheTournee ==
  ASSUME NEW m, Formes(m), NULL \notin DOMAIN m, NEW z \in DOMAIN m, NEW l \in DOMAIN m,
         l = m[z].left, NEW x \in DOMAIN m, x = m[l].right, z # l, z # x, x # l
  PROVE  LET m1 == GaucheTournee(m, z)
         IN  /\ DOMAIN m1 = DOMAIN m /\ Formes(m1)
             /\ \A n \in DOMAIN m \ {z, l, x} : m1[n] = m[n]
             /\ \A n \in DOMAIN m : m1[n].key = m[n].key /\ m1[n].value = m[n].value
             /\ \A n \in DOMAIN m \ {l} : m1[n].height = m[n].height
             /\ m1[z].left = x /\ m1[z].right = m[z].right
             /\ m1[l].left = m[l].left /\ m1[l].right = m[x].left
             /\ m1[l].height = maximum(height(m, m[l].left), height(m, m[x].left)) + 1
             /\ m1[x].left = l /\ m1[x].right = m[x].right
<1> DEFINE L == leftRotate(m, l)
           m1 == GaucheTournee(m, z)
<1>1. /\ DOMAIN L = DOMAIN m /\ Formes(L)
      /\ \A n \in DOMAIN m \ {l, x} : L[n] = m[n]
      /\ \A n \in DOMAIN m : L[n].key = m[n].key /\ L[n].value = m[n].value
      /\ L[x].right = m[x].right /\ L[x].left = l /\ L[x].height = m[x].height
      /\ L[l].right = m[x].left /\ L[l].left = m[l].left
      /\ L[l].height = maximum(height(m, m[l].left), height(m, m[x].left)) + 1
  BY TourGauche
<1>2. m1 = [L EXCEPT ![z] = [L[z] EXCEPT !.left = x]]
  BY DEF GaucheTournee
<1> HIDE DEF L
<1>3. /\ DOMAIN m1 = DOMAIN m /\ \A n \in DOMAIN m \ {z} : m1[n] = L[n]
      /\ m1[z] = [m[z] EXCEPT !.left = x]
  BY <1>1, <1>2
<1> HIDE DEF m1
<1>4. m[z] \in [key : Cles, value : Valeurs, left : DOMAIN m \union {NULL},
                right : DOMAIN m \union {NULL}, height : Nat]
  BY DEF Formes
<1>5. /\ m1[z].key = m[z].key /\ m1[z].value = m[z].value /\ m1[z].height = m[z].height
      /\ m1[z].left = x /\ m1[z].right = m[z].right
  BY <1>3, <1>4
<1>6. Formes(m1)
  <2>1. m1[z] \in [key : Cles, value : Valeurs, left : DOMAIN m \union {NULL},
                   right : DOMAIN m \union {NULL}, height : Nat]
    BY <1>3, <1>4
  <2> QED BY <2>1, <1>1, <1>3 DEF Formes
<1> QED BY <1>1, <1>3, <1>5, <1>6 DEF m1

(* The left right case: two rotations, and no growth. *)
LEMMA DoubleGauche ==
  ASSUME NEW m, NEW r, NEW S, EstArbre(m, r, S), Formes(m), NEW z \in DOMAIN m,
         \A n \in DOMAIN m \ {z} : Exact(m, n), Presque(m, z),
         NEW l, l = m[z].left, height(m, l) - height(m, m[z].right) > 1,
         NEW x, x = m[l].right, ~(height(m, m[l].left) - height(m, x) > 0)
  PROVE  LET U == updateHeight(rightRotate(GaucheTournee(m, z), z), x)
         IN  /\ GaucheTournee(m, z)[z].left = x /\ Locale(m, S, z, U, x)
             /\ \A m3, r3 : Rattache(m, r, S, z, U, x, m3, r3) => Equilibree(m, r, S, z, x, m3, r3)
<1> DEFINE A == DOMAIN m
           m1 == GaucheTournee(m, z)
           R == rightRotate(m1, z)
           U == updateHeight(R, x)
           w == m[z].right
           a == m[l].left
           b == m[x].left
           c == m[x].right
<1>0. NULL \notin A /\ \A n \in A \union {NULL} : height(m, n) \in Nat
  BY HauteurNat DEF EstArbre
<1>1. z \in A /\ l \in A /\ w \in A \union {NULL} /\ a \in A \union {NULL} /\ x \in A \union {NULL}
  <2>1. l \in A \union {NULL} /\ w \in A \union {NULL}
    BY DEF Formes
  <2>2. l \in A
    BY <1>0, <2>1 DEF height
  <2> QED BY <2>1, <2>2 DEF Formes
<1>2. /\ l # z /\ l \in S[z] /\ z \notin S[l] /\ l # w /\ S[l] \subseteq S[z]
      /\ S[z] \subseteq A /\ z \in S[z] /\ a # l /\ x # l
  BY <1>0, <1>1, Apart DEF Fils, EstArbre
(* The heights. *)
<1> DEFINE hw == height(m, w)
           ha == height(m, a)
           hx == height(m, x)
<1>3. hw \in Nat /\ ha \in Nat /\ hx \in Nat /\ m[z].height \in Nat /\ m[l].height \in Nat
  BY <1>0, <1>1 DEF Formes
<1>4. hx = hw + 1 /\ ha = hw /\ m[z].height = hw + 2
  <2>1. /\ (m[l].height = maximum(ha, hx) + 1 \/ m[l].height = maximum(hx, ha) + 1)
        /\ (ha - hx \in {-1, 0, 1} \/ hx - ha \in {-1, 0, 1})
    <3> HIDE DEF A, ha, hx
    <3>1. l \in DOMAIN m \ {z}
      BY <1>1, <1>2 DEF A
    <3> QED BY <3>1 DEF Exact, Balance, ha, hx
  <2>2. height(m, l) = m[l].height
    BY <1>0, <1>1 DEF height
  <2>3. PICK o \in Nat : \/ /\ \/ m[l].height = o
                               \/ m[l].height = o + 1 /\ (o = 0 \/ ha # hx)
                            /\ (m[z].height = maximum(o, hw) + 1 \/ m[z].height = maximum(hw, o) + 1)
                            /\ (o - hw \in {-1, 0, 1} \/ hw - o \in {-1, 0, 1})
                         \/ /\ hw \in {o, o + 1}
                            /\ \/ m[z].height = maximum(m[l].height, o) + 1
                               \/ m[z].height = maximum(o, m[l].height) + 1
                            /\ (m[l].height - o \in {-1, 0, 1} \/ o - m[l].height \in {-1, 0, 1})
    <3>1. Balance(m, l) # 0 => ha # hx
      <4> HIDE DEF A, ha, hx
      <4>1. Balance(m, l) = ha - hx \/ Balance(m, l) = hx - ha
        BY DEF Balance, ha, hx
      <4> QED BY <4>1, <1>3
    <3> QED BY <2>2, <3>1 DEF Presque, Grandi
  <2>4. ~(ha - hx > 0) /\ m[l].height - hw > 1
    BY <2>2
  <2> HIDE DEF hw, ha, hx
  <2> QED BY <1>3, <2>1, <2>3, <2>4 DEF maximum
<1>5. x \in A /\ hx = m[x].height /\ {b, c} \subseteq A \union {NULL}
  <2>1. x \in A
    BY <1>1, <1>3, <1>4 DEF height
  <2> QED BY <2>1, <1>0 DEF Formes, height
<1>6. /\ x \in S[l] /\ x \in S[z] /\ x # z /\ a # x /\ a # z
      /\ b # x /\ b # l /\ b # z /\ c # x /\ c # l /\ c # z
      /\ w # z /\ w # l /\ w # x
  <2>1. x \in S[l] /\ l \notin S[x] /\ S[x] \subseteq S[l] /\ a # x
    BY <1>1, <1>5, Apart DEF Fils
  <2>2. w \in A => w # z /\ \A n \in S[l] : n # w
    <3>1. \A n \in S[l] : n \notin Sous(S, w)
      BY <1>1, Apart DEF Fils
    <3>2. w \in A => w \in Sous(S, w) /\ w # z
      BY <1>0, <1>1, Apart DEF EstArbre, Sous, Fils
    <3> QED BY <3>1, <3>2
  <2>3. \A n \in A : Fils(m, l, n) => n \in S[l]
    BY <1>1, Apart
  <2>4. \A n \in A : Fils(m, x, n) => n \in S[x] /\ n # x
    BY <1>5, Apart
  <2> QED BY <1>0, <1>1, <1>2, <1>5, <2>1, <2>2, <2>3, <2>4 DEF Fils
<1> DEFINE hb == height(m, b)
           hc == height(m, c)
<1>7. /\ hb \in Nat /\ hc \in Nat
      /\ (hb = hw \/ hb = hw - 1) /\ (hc = hw \/ hc = hw - 1)
  <2>1. hb \in Nat /\ hc \in Nat
    BY <1>0, <1>5
  <2>2. /\ (hx = maximum(hb, hc) + 1 \/ hx = maximum(hc, hb) + 1)
        /\ (hb - hc \in {-1, 0, 1} \/ hc - hb \in {-1, 0, 1})
    <3>1. x \in DOMAIN m \ {z} /\ hx = m[x].height
      BY <1>5, <1>6
    <3> HIDE DEF A, hb, hc, hx
    <3> QED BY <3>1 DEF Exact, Balance, hb, hc
  <2> HIDE DEF hw, hx, hb, hc
  <2> QED BY <1>3, <1>4, <2>1, <2>2 DEF maximum
(* The two rotations. *)
<1>8. /\ DOMAIN m1 = A /\ Formes(m1)
      /\ \A n \in A \ {z, l, x} : m1[n] = m[n]
      /\ \A n \in A : m1[n].key = m[n].key /\ m1[n].value = m[n].value
      /\ \A n \in A \ {l} : m1[n].height = m[n].height
      /\ m1[z].left = x /\ m1[z].right = w
      /\ m1[l].left = a /\ m1[l].right = b /\ m1[l].height = maximum(ha, hb) + 1
      /\ m1[x].left = l /\ m1[x].right = c
  BY <1>0, <1>1, <1>2, <1>5, <1>6, EffetGaucheTournee
<1> HIDE DEF m1
<1>9. height(m1, c) = hc /\ height(m1, w) = hw
  BY <1>0, <1>1, <1>5, <1>6, <1>8 DEF height
<1>10. /\ DOMAIN R = A /\ Formes(R)
       /\ \A n \in A \ {z, x} : R[n] = m1[n]
       /\ \A n \in A : R[n].key = m[n].key /\ R[n].value = m[n].value
       /\ R[x].left = l /\ R[x].right = z
       /\ R[z].left = c /\ R[z].right = w
       /\ R[z].height = maximum(hc, hw) + 1
  <2> DEFINE T == rightRotate(m1, z)
  <2>1. z \in DOMAIN m1 /\ x \in DOMAIN m1 /\ NULL \notin DOMAIN m1 /\ x = m1[z].left
    BY <1>0, <1>1, <1>5, <1>8
  <2>2. /\ DOMAIN T = DOMAIN m1 /\ Formes(T)
        /\ \A n \in DOMAIN m1 \ {z, x} : T[n] = m1[n]
        /\ \A n \in DOMAIN m1 : T[n].key = m1[n].key /\ T[n].value = m1[n].value
        /\ T[x].left = m1[x].left /\ T[x].right = z
        /\ T[z].left = m1[x].right /\ T[z].right = m1[z].right
        /\ T[z].height = maximum(height(m1, m1[x].right), height(m1, m1[z].right)) + 1
    BY <2>1, <1>6, <1>8, TourDroite
  <2> HIDE DEF T
  <2> QED BY <2>2, <1>8, <1>9 DEF T
<1> HIDE DEF R
<1>11. /\ DOMAIN U = A /\ Formes(U)
       /\ \A n \in A \ {x} : U[n] = R[n]
       /\ U[x].key = R[x].key /\ U[x].value = R[x].value
       /\ U[x].left = l /\ U[x].right = z
       /\ U[x].height = maximum(height(R, l), height(R, z)) + 1
  <2> DEFINE V == updateHeight(R, x)
  <2>1. x \in DOMAIN R /\ NULL \notin DOMAIN R
    BY <1>0, <1>5, <1>10
  <2>2. /\ DOMAIN V = DOMAIN R /\ Formes(V)
        /\ \A n \in DOMAIN R \ {x} : V[n] = R[n]
        /\ V[x].key = R[x].key /\ V[x].value = R[x].value
        /\ V[x].left = R[x].left /\ V[x].right = R[x].right
        /\ V[x].height = maximum(height(R, R[x].left), height(R, R[x].right)) + 1
    BY <2>1, <1>10, MiseAJour
  <2> HIDE DEF V
  <2> QED BY <2>2, <1>10 DEF V
<1> HIDE DEF U
<1>a. Locale(m, S, z, U, x)
  BY <1>1, <1>2, <1>5, <1>6, <1>8, <1>10, <1>11 DEF Locale
<1>b. m1[z].left = x
  BY <1>8
<1> SUFFICES ASSUME NEW m3, NEW r3, Rattache(m, r, S, z, U, x, m3, r3)
             PROVE  Equilibree(m, r, S, z, x, m3, r3)
  BY <1>a, <1>b DEF U, R, m1
<1>12. /\ m3[z].left = c /\ m3[z].right = w /\ m3[l].left = a /\ m3[l].right = b
       /\ m3[x].left = l /\ m3[x].right = z
       /\ m3[z].height = maximum(hc, hw) + 1 /\ m3[l].height = maximum(ha, hb) + 1
       /\ m3[x].height = maximum(maximum(ha, hb) + 1, maximum(hc, hw) + 1) + 1
       /\ \A n \in A : m3[n].key = m[n].key /\ m3[n].value = m[n].value
       /\ \A n \in A \ {z, l, x} : /\ m3[n].height = m[n].height
                                   /\ m3[n].left = IF m[n].left = z THEN x ELSE m[n].left
                                   /\ m3[n].right = IF m[n].right = z THEN x ELSE m[n].right
  <2>1. ASSUME NEW n \in S[z] PROVE m[n].left # z /\ m[n].right # z
    <3>1. ~Fils(m, n, z)
      BY <1>1, <1>2, Apart DEF EstArbre
    <3> QED BY <3>1 DEF Fils
  <2>2. ASSUME NEW n \in A PROVE m3[n].key = m[n].key /\ m3[n].value = m[n].value
    <3>1. U[n].key = R[n].key /\ U[n].value = R[n].value
      BY <1>11
    <3>2. m3[n].key = U[n].key /\ m3[n].value = U[n].value
      BY DEF Rattache
    <3> QED BY <3>1, <3>2, <1>10
  <2>3. U[l] = m1[l] /\ U[z] = R[z] /\ \A n \in A \ {z, l, x} : U[n] = m[n]
    BY <1>1, <1>2, <1>6, <1>8, <1>10, <1>11
  <2>4. /\ m3[z].left = c /\ m3[z].right = w /\ m3[l].left = a /\ m3[l].right = b
        /\ m3[x].left = l /\ m3[x].right = z
    BY <1>1, <1>2, <1>5, <1>6, <1>8, <1>10, <1>11, <2>3 DEF Rattache
  <2>5. height(R, l) = maximum(ha, hb) + 1 /\ height(R, z) = maximum(hc, hw) + 1
    BY <1>0, <1>1, <1>2, <1>6, <1>8, <1>10 DEF height
  <2>6. /\ m3[z].height = maximum(hc, hw) + 1 /\ m3[l].height = maximum(ha, hb) + 1
        /\ m3[x].height = maximum(maximum(ha, hb) + 1, maximum(hc, hw) + 1) + 1
    BY <1>1, <1>5, <1>8, <1>10, <1>11, <2>3, <2>5 DEF Rattache
  <2>7. \A n \in A \ {z, l, x} : m3[n].height = m[n].height
    BY <2>3 DEF Rattache
  <2>8. ASSUME NEW n \in A \ {z, l, x}
        PROVE  /\ m3[n].left = IF m[n].left = z THEN x ELSE m[n].left
               /\ m3[n].right = IF m[n].right = z THEN x ELSE m[n].right
    <3>1. CASE n \in S[z]
      BY <2>1, <2>3, <3>1 DEF Rattache
    <3>2. CASE n \notin S[z]
      BY <3>2 DEF Rattache
    <3> QED BY <3>1, <3>2
  <2> QED BY <2>2, <2>4, <2>6, <2>7, <2>8
<1>13. DOMAIN m3 = A /\ r3 = (IF r = z THEN x ELSE r)
  BY DEF Rattache
<1>14. r # l /\ r # x /\ \A n \in A : Fils(m, n, l) => n = z
  BY <1>1, <1>5, UnParent DEF Fils
<1>15. TourneAGauche(m, r, m1, r, l, x)
  <2>1. ASSUME NEW n \in A \ {l, x}
        PROVE  /\ m1[n].left = IF m[n].left = l THEN x ELSE m[n].left
               /\ m1[n].right = IF m[n].right = l THEN x ELSE m[n].right
    <3>1. CASE n = z
      BY <3>1, <1>1, <1>2, <1>8
    <3>2. CASE n # z
      BY <3>2, <1>8, <1>14 DEF Fils
    <3> QED BY <3>1, <3>2
  <2> QED BY <2>1, <1>1, <1>5, <1>8, <1>14 DEF TourneAGauche
<1> DEFINE S1 == [n \in A |-> IF n = l THEN {l} \union Sous(S, b) \union Sous(S, a)
                              ELSE IF n = x THEN S[l] ELSE S[n]]
<1>16. EstArbre(m1, r, S1)
  BY <1>15, RotationAGauche
<1>17. TourneADroite(m1, r, m3, r3, z, x)
  <2>1. ASSUME NEW n \in A \ {z, x}
        PROVE  /\ m3[n].left = IF m1[n].left = z THEN x ELSE m1[n].left
               /\ m3[n].right = IF m1[n].right = z THEN x ELSE m1[n].right
    BY <1>6, <1>8, <1>12
  <2> QED BY <2>1, <1>1, <1>5, <1>8, <1>12, <1>13 DEF TourneADroite
<1>18. \E S3 : /\ EstArbre(m3, r3, S3) /\ S3[x] = S[z]
               /\ \A n \in A \ S[z] : S3[n] = S[n]
  <2> DEFINE S3 == [n \in DOMAIN m1 |->
                      IF n = z THEN {z} \union Sous(S1, m1[x].right) \union Sous(S1, m1[z].right)
                      ELSE IF n = x THEN S1[z] ELSE S1[n]]
  <2>1. EstArbre(m3, r3, S3)
    <3> HIDE DEF S1
    <3> QED BY <1>16, <1>17, RotationADroite
  <2>2. S3[x] = S[z]
    BY <1>1, <1>2, <1>5, <1>6, <1>8
  <2>3. \A n \in A \ S[z] : S3[n] = S[n]
    BY <1>2, <1>6, <1>8
  <2> HIDE DEF S3
  <2> QED BY <2>1, <2>2, <2>3
<1>19. /\ m3[x].height = m[z].height /\ Grandi(m3, x, m[z].height)
       /\ Exact(m3, z) /\ Exact(m3, l) /\ Exact(m3, x)
  <2>1. /\ height(m3, a) = ha /\ height(m3, b) = hb /\ height(m3, c) = hc /\ height(m3, w) = hw
        /\ height(m3, l) = m3[l].height /\ height(m3, z) = m3[z].height
        /\ height(m3, x) = m3[x].height
    BY <1>0, <1>1, <1>2, <1>5, <1>6, <1>12 DEF height
  <2> HIDE DEF ha, hb, hc, hw
  <2>2. m3[z].height = hw + 1 /\ m3[l].height = hw + 1 /\ m3[x].height = hw + 2
    BY <1>3, <1>4, <1>7, <1>12 DEF maximum
  <2>3. Exact(m3, z)
    BY <2>1, <2>2, <1>3, <1>7, <1>12 DEF Exact, Balance, maximum
  <2>4. Exact(m3, l)
    BY <2>1, <2>2, <1>3, <1>4, <1>7, <1>12 DEF Exact, Balance, maximum
  <2>5. Exact(m3, x)
    BY <2>1, <2>2, <1>3, <1>12 DEF Exact, Balance, maximum
  <2> QED BY <2>1, <2>2, <2>3, <2>4, <2>5, <1>4 DEF Grandi
<1>20. ASSUME NEW n \in A, ~Fils(m, n, z) PROVE Exact(m3, n)
  <2>1. CASE n \notin {z, l, x}
    <3>1. m3[n].left = m[n].left /\ m3[n].right = m[n].right /\ m3[n].height = m[n].height
      BY <1>12, <1>20, <2>1 DEF Fils
    <3>2. \A d \in A : Fils(m, n, d) => d # z /\ d # l /\ d # x
      BY <1>1, <1>5, <1>20, <2>1, UnParent DEF Fils
    <3>3. \A d \in A : Fils(m, n, d) => m3[d].height = m[d].height
      BY <3>2, <1>12
    <3> QED BY <2>1, <3>1, <3>3, <1>0, ExactApres
  <2> QED BY <2>1, <1>19
<1>21. \A n \in A \ S[z] : m3[n].height = m[n].height
  BY <1>2, <1>6, <1>12
<1> QED BY <1>12, <1>18, <1>19, <1>20, <1>21 DEF Equilibree

(* What a right rotation of the right child does. *)
LEMMA EffetDroiteTournee ==
  ASSUME NEW m, Formes(m), NULL \notin DOMAIN m, NEW z \in DOMAIN m, NEW l \in DOMAIN m,
         l = m[z].right, NEW x \in DOMAIN m, x = m[l].left, z # l, z # x, x # l
  PROVE  LET m1 == DroiteTournee(m, z)
         IN  /\ DOMAIN m1 = DOMAIN m /\ Formes(m1)
             /\ \A n \in DOMAIN m \ {z, l, x} : m1[n] = m[n]
             /\ \A n \in DOMAIN m : m1[n].key = m[n].key /\ m1[n].value = m[n].value
             /\ \A n \in DOMAIN m \ {l} : m1[n].height = m[n].height
             /\ m1[z].right = x /\ m1[z].left = m[z].left
             /\ m1[l].right = m[l].right /\ m1[l].left = m[x].right
             /\ m1[l].height = maximum(height(m, m[x].right), height(m, m[l].right)) + 1
             /\ m1[x].right = l /\ m1[x].left = m[x].left
<1> DEFINE L == rightRotate(m, l)
           m1 == DroiteTournee(m, z)
<1>1. /\ DOMAIN L = DOMAIN m /\ Formes(L)
      /\ \A n \in DOMAIN m \ {l, x} : L[n] = m[n]
      /\ \A n \in DOMAIN m : L[n].key = m[n].key /\ L[n].value = m[n].value
      /\ L[x].left = m[x].left /\ L[x].right = l /\ L[x].height = m[x].height
      /\ L[l].left = m[x].right /\ L[l].right = m[l].right
      /\ L[l].height = maximum(height(m, m[x].right), height(m, m[l].right)) + 1
  BY TourDroite
<1>2. m1 = [L EXCEPT ![z] = [L[z] EXCEPT !.right = x]]
  BY DEF DroiteTournee
<1> HIDE DEF L
<1>3. /\ DOMAIN m1 = DOMAIN m /\ \A n \in DOMAIN m \ {z} : m1[n] = L[n]
      /\ m1[z] = [m[z] EXCEPT !.right = x]
  BY <1>1, <1>2
<1> HIDE DEF m1
<1>4. m[z] \in [key : Cles, value : Valeurs, right : DOMAIN m \union {NULL},
                left : DOMAIN m \union {NULL}, height : Nat]
  BY DEF Formes
<1>5. /\ m1[z].key = m[z].key /\ m1[z].value = m[z].value /\ m1[z].height = m[z].height
      /\ m1[z].right = x /\ m1[z].left = m[z].left
  BY <1>3, <1>4
<1>6. Formes(m1)
  <2>1. m1[z] \in [key : Cles, value : Valeurs, right : DOMAIN m \union {NULL},
                   left : DOMAIN m \union {NULL}, height : Nat]
    BY <1>3, <1>4
  <2> QED BY <2>1, <1>1, <1>3 DEF Formes
<1> QED BY <1>1, <1>3, <1>5, <1>6 DEF m1

(* The right left case: two rotations, and no growth. *)
LEMMA DoubleDroite ==
  ASSUME NEW m, NEW r, NEW S, EstArbre(m, r, S), Formes(m), NEW z \in DOMAIN m,
         \A n \in DOMAIN m \ {z} : Exact(m, n), Presque(m, z),
         NEW l, l = m[z].right, height(m, l) - height(m, m[z].left) > 1,
         NEW x, x = m[l].left, ~(height(m, m[l].right) - height(m, x) > 0)
  PROVE  LET U == updateHeight(leftRotate(DroiteTournee(m, z), z), x)
         IN  /\ DroiteTournee(m, z)[z].right = x /\ Locale(m, S, z, U, x)
             /\ \A m3, r3 : Rattache(m, r, S, z, U, x, m3, r3) => Equilibree(m, r, S, z, x, m3, r3)
<1> DEFINE A == DOMAIN m
           m1 == DroiteTournee(m, z)
           R == leftRotate(m1, z)
           U == updateHeight(R, x)
           w == m[z].left
           a == m[l].right
           b == m[x].right
           c == m[x].left
<1>0. NULL \notin A /\ \A n \in A \union {NULL} : height(m, n) \in Nat
  BY HauteurNat DEF EstArbre
<1>1. z \in A /\ l \in A /\ w \in A \union {NULL} /\ a \in A \union {NULL} /\ x \in A \union {NULL}
  <2>1. l \in A \union {NULL} /\ w \in A \union {NULL}
    BY DEF Formes
  <2>2. l \in A
    BY <1>0, <2>1 DEF height
  <2> QED BY <2>1, <2>2 DEF Formes
<1>2. /\ l # z /\ l \in S[z] /\ z \notin S[l] /\ l # w /\ S[l] \subseteq S[z]
      /\ S[z] \subseteq A /\ z \in S[z] /\ a # l /\ x # l
  BY <1>0, <1>1, Apart DEF Fils, EstArbre
(* The heights. *)
<1> DEFINE hw == height(m, w)
           ha == height(m, a)
           hx == height(m, x)
<1>3. hw \in Nat /\ ha \in Nat /\ hx \in Nat /\ m[z].height \in Nat /\ m[l].height \in Nat
  BY <1>0, <1>1 DEF Formes
<1>4. hx = hw + 1 /\ ha = hw /\ m[z].height = hw + 2
  <2>1. /\ (m[l].height = maximum(hx, ha) + 1 \/ m[l].height = maximum(ha, hx) + 1)
        /\ (ha - hx \in {-1, 0, 1} \/ hx - ha \in {-1, 0, 1})
    <3> HIDE DEF A, ha, hx
    <3>1. l \in DOMAIN m \ {z}
      BY <1>1, <1>2 DEF A
    <3> QED BY <3>1 DEF Exact, Balance, ha, hx
  <2>2. height(m, l) = m[l].height
    BY <1>0, <1>1 DEF height
  <2>3. PICK o \in Nat : \/ /\ \/ m[l].height = o
                               \/ m[l].height = o + 1 /\ (o = 0 \/ ha # hx)
                            /\ (m[z].height = maximum(hw, o) + 1 \/ m[z].height = maximum(o, hw) + 1)
                            /\ (o - hw \in {-1, 0, 1} \/ hw - o \in {-1, 0, 1})
                         \/ /\ hw \in {o, o + 1}
                            /\ \/ m[z].height = maximum(o, m[l].height) + 1
                               \/ m[z].height = maximum(m[l].height, o) + 1
                            /\ (m[l].height - o \in {-1, 0, 1} \/ o - m[l].height \in {-1, 0, 1})
    <3>1. Balance(m, l) # 0 => ha # hx
      <4> HIDE DEF A, ha, hx
      <4>1. Balance(m, l) = ha - hx \/ Balance(m, l) = hx - ha
        BY DEF Balance, ha, hx
      <4> QED BY <4>1, <1>3
    <3> QED BY <2>2, <3>1 DEF Presque, Grandi
  <2>4. ~(ha - hx > 0) /\ m[l].height - hw > 1
    BY <2>2
  <2> HIDE DEF hw, ha, hx
  <2> QED BY <1>3, <2>1, <2>3, <2>4 DEF maximum
<1>5. x \in A /\ hx = m[x].height /\ {b, c} \subseteq A \union {NULL}
  <2>1. x \in A
    BY <1>1, <1>3, <1>4 DEF height
  <2> QED BY <2>1, <1>0 DEF Formes, height
<1>6. /\ x \in S[l] /\ x \in S[z] /\ x # z /\ a # x /\ a # z
      /\ b # x /\ b # l /\ b # z /\ c # x /\ c # l /\ c # z
      /\ w # z /\ w # l /\ w # x
  <2>1. x \in S[l] /\ l \notin S[x] /\ S[x] \subseteq S[l] /\ a # x
    BY <1>1, <1>5, Apart DEF Fils
  <2>2. w \in A => w # z /\ \A n \in S[l] : n # w
    <3>1. \A n \in S[l] : n \notin Sous(S, w)
      BY <1>1, Apart DEF Fils
    <3>2. w \in A => w \in Sous(S, w) /\ w # z
      BY <1>0, <1>1, Apart DEF EstArbre, Sous, Fils
    <3> QED BY <3>1, <3>2
  <2>3. \A n \in A : Fils(m, l, n) => n \in S[l]
    BY <1>1, Apart
  <2>4. \A n \in A : Fils(m, x, n) => n \in S[x] /\ n # x
    BY <1>5, Apart
  <2> QED BY <1>0, <1>1, <1>2, <1>5, <2>1, <2>2, <2>3, <2>4 DEF Fils
<1> DEFINE hb == height(m, b)
           hc == height(m, c)
<1>7. /\ hb \in Nat /\ hc \in Nat
      /\ (hb = hw \/ hb = hw - 1) /\ (hc = hw \/ hc = hw - 1)
  <2>1. hb \in Nat /\ hc \in Nat
    BY <1>0, <1>5
  <2>2. /\ (hx = maximum(hc, hb) + 1 \/ hx = maximum(hb, hc) + 1)
        /\ (hb - hc \in {-1, 0, 1} \/ hc - hb \in {-1, 0, 1})
    <3>1. x \in DOMAIN m \ {z} /\ hx = m[x].height
      BY <1>5, <1>6
    <3> HIDE DEF A, hb, hc, hx
    <3> QED BY <3>1 DEF Exact, Balance, hb, hc
  <2> HIDE DEF hw, hx, hb, hc
  <2> QED BY <1>3, <1>4, <2>1, <2>2 DEF maximum
(* The two rotations. *)
<1>8. /\ DOMAIN m1 = A /\ Formes(m1)
      /\ \A n \in A \ {z, l, x} : m1[n] = m[n]
      /\ \A n \in A : m1[n].key = m[n].key /\ m1[n].value = m[n].value
      /\ \A n \in A \ {l} : m1[n].height = m[n].height
      /\ m1[z].right = x /\ m1[z].left = w
      /\ m1[l].right = a /\ m1[l].left = b /\ m1[l].height = maximum(hb, ha) + 1
      /\ m1[x].right = l /\ m1[x].left = c
  BY <1>0, <1>1, <1>2, <1>5, <1>6, EffetDroiteTournee
<1> HIDE DEF m1
<1>9. height(m1, c) = hc /\ height(m1, w) = hw
  BY <1>0, <1>1, <1>5, <1>6, <1>8 DEF height
<1>10. /\ DOMAIN R = A /\ Formes(R)
       /\ \A n \in A \ {z, x} : R[n] = m1[n]
       /\ \A n \in A : R[n].key = m[n].key /\ R[n].value = m[n].value
       /\ R[x].right = l /\ R[x].left = z
       /\ R[z].right = c /\ R[z].left = w
       /\ R[z].height = maximum(hw, hc) + 1
  <2> DEFINE T == leftRotate(m1, z)
  <2>1. z \in DOMAIN m1 /\ x \in DOMAIN m1 /\ NULL \notin DOMAIN m1 /\ x = m1[z].right
    BY <1>0, <1>1, <1>5, <1>8
  <2>2. /\ DOMAIN T = DOMAIN m1 /\ Formes(T)
        /\ \A n \in DOMAIN m1 \ {z, x} : T[n] = m1[n]
        /\ \A n \in DOMAIN m1 : T[n].key = m1[n].key /\ T[n].value = m1[n].value
        /\ T[x].right = m1[x].right /\ T[x].left = z
        /\ T[z].right = m1[x].left /\ T[z].left = m1[z].left
        /\ T[z].height = maximum(height(m1, m1[z].left), height(m1, m1[x].left)) + 1
    BY <2>1, <1>6, <1>8, TourGauche
  <2> HIDE DEF T
  <2> QED BY <2>2, <1>8, <1>9 DEF T
<1> HIDE DEF R
<1>11. /\ DOMAIN U = A /\ Formes(U)
       /\ \A n \in A \ {x} : U[n] = R[n]
       /\ U[x].key = R[x].key /\ U[x].value = R[x].value
       /\ U[x].right = l /\ U[x].left = z
       /\ U[x].height = maximum(height(R, z), height(R, l)) + 1
  <2> DEFINE V == updateHeight(R, x)
  <2>1. x \in DOMAIN R /\ NULL \notin DOMAIN R
    BY <1>0, <1>5, <1>10
  <2>2. /\ DOMAIN V = DOMAIN R /\ Formes(V)
        /\ \A n \in DOMAIN R \ {x} : V[n] = R[n]
        /\ V[x].key = R[x].key /\ V[x].value = R[x].value
        /\ V[x].right = R[x].right /\ V[x].left = R[x].left
        /\ V[x].height = maximum(height(R, R[x].left), height(R, R[x].right)) + 1
    BY <2>1, <1>10, MiseAJour
  <2> HIDE DEF V
  <2> QED BY <2>2, <1>10 DEF V
<1> HIDE DEF U
<1>a. Locale(m, S, z, U, x)
  BY <1>1, <1>2, <1>5, <1>6, <1>8, <1>10, <1>11 DEF Locale
<1>b. m1[z].right = x
  BY <1>8
<1> SUFFICES ASSUME NEW m3, NEW r3, Rattache(m, r, S, z, U, x, m3, r3)
             PROVE  Equilibree(m, r, S, z, x, m3, r3)
  BY <1>a, <1>b DEF U, R, m1
<1>12. /\ m3[z].right = c /\ m3[z].left = w /\ m3[l].right = a /\ m3[l].left = b
       /\ m3[x].right = l /\ m3[x].left = z
       /\ m3[z].height = maximum(hw, hc) + 1 /\ m3[l].height = maximum(hb, ha) + 1
       /\ m3[x].height = maximum(maximum(hw, hc) + 1, maximum(hb, ha) + 1) + 1
       /\ \A n \in A : m3[n].key = m[n].key /\ m3[n].value = m[n].value
       /\ \A n \in A \ {z, l, x} : /\ m3[n].height = m[n].height
                                   /\ m3[n].right = IF m[n].right = z THEN x ELSE m[n].right
                                   /\ m3[n].left = IF m[n].left = z THEN x ELSE m[n].left
  <2>1. ASSUME NEW n \in S[z] PROVE m[n].right # z /\ m[n].left # z
    <3>1. ~Fils(m, n, z)
      BY <1>1, <1>2, Apart DEF EstArbre
    <3> QED BY <3>1 DEF Fils
  <2>2. ASSUME NEW n \in A PROVE m3[n].key = m[n].key /\ m3[n].value = m[n].value
    <3>1. U[n].key = R[n].key /\ U[n].value = R[n].value
      BY <1>11
    <3>2. m3[n].key = U[n].key /\ m3[n].value = U[n].value
      BY DEF Rattache
    <3> QED BY <3>1, <3>2, <1>10
  <2>3. U[l] = m1[l] /\ U[z] = R[z] /\ \A n \in A \ {z, l, x} : U[n] = m[n]
    BY <1>1, <1>2, <1>6, <1>8, <1>10, <1>11
  <2>4. /\ m3[z].right = c /\ m3[z].left = w /\ m3[l].right = a /\ m3[l].left = b
        /\ m3[x].right = l /\ m3[x].left = z
    BY <1>1, <1>2, <1>5, <1>6, <1>8, <1>10, <1>11, <2>3 DEF Rattache
  <2>5. height(R, l) = maximum(hb, ha) + 1 /\ height(R, z) = maximum(hw, hc) + 1
    BY <1>0, <1>1, <1>2, <1>6, <1>8, <1>10 DEF height
  <2>6. /\ m3[z].height = maximum(hw, hc) + 1 /\ m3[l].height = maximum(hb, ha) + 1
        /\ m3[x].height = maximum(maximum(hw, hc) + 1, maximum(hb, ha) + 1) + 1
    BY <1>1, <1>5, <1>8, <1>10, <1>11, <2>3, <2>5 DEF Rattache
  <2>7. \A n \in A \ {z, l, x} : m3[n].height = m[n].height
    BY <2>3 DEF Rattache
  <2>8. ASSUME NEW n \in A \ {z, l, x}
        PROVE  /\ m3[n].right = IF m[n].right = z THEN x ELSE m[n].right
               /\ m3[n].left = IF m[n].left = z THEN x ELSE m[n].left
    <3>1. CASE n \in S[z]
      BY <2>1, <2>3, <3>1 DEF Rattache
    <3>2. CASE n \notin S[z]
      BY <3>2 DEF Rattache
    <3> QED BY <3>1, <3>2
  <2> QED BY <2>2, <2>4, <2>6, <2>7, <2>8
<1>13. DOMAIN m3 = A /\ r3 = (IF r = z THEN x ELSE r)
  BY DEF Rattache
<1>14. r # l /\ r # x /\ \A n \in A : Fils(m, n, l) => n = z
  BY <1>1, <1>5, UnParent DEF Fils
<1>15. TourneADroite(m, r, m1, r, l, x)
  <2>1. ASSUME NEW n \in A \ {l, x}
        PROVE  /\ m1[n].right = IF m[n].right = l THEN x ELSE m[n].right
               /\ m1[n].left = IF m[n].left = l THEN x ELSE m[n].left
    <3>1. CASE n = z
      BY <3>1, <1>1, <1>2, <1>8
    <3>2. CASE n # z
      BY <3>2, <1>8, <1>14 DEF Fils
    <3> QED BY <3>1, <3>2
  <2> QED BY <2>1, <1>1, <1>5, <1>8, <1>14 DEF TourneADroite
<1> DEFINE S1 == [n \in A |-> IF n = l THEN {l} \union Sous(S, b) \union Sous(S, a)
                              ELSE IF n = x THEN S[l] ELSE S[n]]
<1>16. EstArbre(m1, r, S1)
  BY <1>15, RotationADroite
<1>17. TourneAGauche(m1, r, m3, r3, z, x)
  <2>1. ASSUME NEW n \in A \ {z, x}
        PROVE  /\ m3[n].right = IF m1[n].right = z THEN x ELSE m1[n].right
               /\ m3[n].left = IF m1[n].left = z THEN x ELSE m1[n].left
    BY <1>6, <1>8, <1>12
  <2> QED BY <2>1, <1>1, <1>5, <1>8, <1>12, <1>13 DEF TourneAGauche
<1>18. \E S3 : /\ EstArbre(m3, r3, S3) /\ S3[x] = S[z]
               /\ \A n \in A \ S[z] : S3[n] = S[n]
  <2> DEFINE S3 == [n \in DOMAIN m1 |->
                      IF n = z THEN {z} \union Sous(S1, m1[x].left) \union Sous(S1, m1[z].left)
                      ELSE IF n = x THEN S1[z] ELSE S1[n]]
  <2>1. EstArbre(m3, r3, S3)
    <3> HIDE DEF S1
    <3> QED BY <1>16, <1>17, RotationAGauche
  <2>2. S3[x] = S[z]
    BY <1>1, <1>2, <1>5, <1>6, <1>8
  <2>3. \A n \in A \ S[z] : S3[n] = S[n]
    BY <1>2, <1>6, <1>8
  <2> HIDE DEF S3
  <2> QED BY <2>1, <2>2, <2>3
<1>19. /\ m3[x].height = m[z].height /\ Grandi(m3, x, m[z].height)
       /\ Exact(m3, z) /\ Exact(m3, l) /\ Exact(m3, x)
  <2>1. /\ height(m3, a) = ha /\ height(m3, b) = hb /\ height(m3, c) = hc /\ height(m3, w) = hw
        /\ height(m3, l) = m3[l].height /\ height(m3, z) = m3[z].height
        /\ height(m3, x) = m3[x].height
    BY <1>0, <1>1, <1>2, <1>5, <1>6, <1>12 DEF height
  <2> HIDE DEF ha, hb, hc, hw
  <2>2. m3[z].height = hw + 1 /\ m3[l].height = hw + 1 /\ m3[x].height = hw + 2
    BY <1>3, <1>4, <1>7, <1>12 DEF maximum
  <2>3. Exact(m3, z)
    BY <2>1, <2>2, <1>3, <1>7, <1>12 DEF Exact, Balance, maximum
  <2>4. Exact(m3, l)
    BY <2>1, <2>2, <1>3, <1>4, <1>7, <1>12 DEF Exact, Balance, maximum
  <2>5. Exact(m3, x)
    BY <2>1, <2>2, <1>3, <1>12 DEF Exact, Balance, maximum
  <2> QED BY <2>1, <2>2, <2>3, <2>4, <2>5, <1>4 DEF Grandi
<1>20. ASSUME NEW n \in A, ~Fils(m, n, z) PROVE Exact(m3, n)
  <2>1. CASE n \notin {z, l, x}
    <3>1. m3[n].right = m[n].right /\ m3[n].left = m[n].left /\ m3[n].height = m[n].height
      BY <1>12, <1>20, <2>1 DEF Fils
    <3>2. \A d \in A : Fils(m, n, d) => d # z /\ d # l /\ d # x
      BY <1>1, <1>5, <1>20, <2>1, UnParent DEF Fils
    <3>3. \A d \in A : Fils(m, n, d) => m3[d].height = m[d].height
      BY <3>2, <1>12
    <3> QED BY <2>1, <3>1, <3>3, <1>0, ExactApres
  <2> QED BY <2>1, <1>19
<1>21. \A n \in A \ S[z] : m3[n].height = m[n].height
  BY <1>2, <1>6, <1>12
<1> QED BY <1>12, <1>18, <1>19, <1>20, <1>21 DEF Equilibree

(* No rotation: the height of z is brought up to date. *)
LEMMA SansRotation ==
  ASSUME NEW m, NEW r, NEW S, EstArbre(m, r, S), Formes(m), NEW z \in DOMAIN m,
         \A n \in DOMAIN m \ {z} : Exact(m, n), Presque(m, z), Balance(m, z) \in {-1, 0, 1}
  PROVE  LET U == updateHeight(m, z)
         IN  /\ Locale(m, S, z, U, z)
             /\ \A m3, r3 : Rattache(m, r, S, z, U, z, m3, r3) => Equilibree(m, r, S, z, z, m3, r3)
<1> DEFINE A == DOMAIN m
           U == updateHeight(m, z)
           c == m[z].left
           d == m[z].right
           hc == height(m, c)
           hd == height(m, d)
<1>0. NULL \notin A /\ \A n \in A \union {NULL} : height(m, n) \in Nat
  BY HauteurNat DEF EstArbre
<1>1. /\ c \in A \union {NULL} /\ d \in A \union {NULL} /\ c # z /\ d # z
      /\ S[z] \subseteq A /\ z \in S[z]
  <2>1. c \in A \union {NULL} /\ d \in A \union {NULL}
    BY DEF Formes
  <2>2. \A n \in A : Fils(m, z, n) => n # z
    BY Apart
  <2> QED BY <1>0, <2>1, <2>2 DEF Fils, EstArbre
<1>2. /\ DOMAIN U = A /\ Formes(U)
      /\ \A n \in A \ {z} : U[n] = m[n]
      /\ U[z].key = m[z].key /\ U[z].value = m[z].value
      /\ U[z].left = c /\ U[z].right = d
      /\ U[z].height = maximum(hc, hd) + 1
  BY <1>0, MiseAJour
<1> HIDE DEF U
<1>3. Locale(m, S, z, U, z)
  BY <1>1, <1>2 DEF Locale
<1> SUFFICES ASSUME NEW m3, NEW r3, Rattache(m, r, S, z, U, z, m3, r3)
             PROVE  Equilibree(m, r, S, z, z, m3, r3)
  BY <1>3 DEF U
<1>4. /\ DOMAIN m3 = A /\ r3 = r /\ m3[z].height = maximum(hc, hd) + 1
      /\ \A n \in A : /\ m3[n].key = m[n].key /\ m3[n].value = m[n].value
                      /\ m3[n].left = m[n].left /\ m3[n].right = m[n].right
      /\ \A n \in A \ {z} : m3[n].height = m[n].height
  <2>1. ASSUME NEW n \in A
        PROVE  /\ m3[n].key = m[n].key /\ m3[n].value = m[n].value
               /\ m3[n].left = m[n].left /\ m3[n].right = m[n].right
    <3>1. /\ U[n].key = m[n].key /\ U[n].value = m[n].value
          /\ U[n].left = m[n].left /\ U[n].right = m[n].right
      BY <1>2
    <3> QED BY <3>1 DEF Rattache
  <2>2. \A n \in A \ {z} : m3[n].height = m[n].height
    BY <1>2 DEF Rattache
  <2> QED BY <1>2, <2>1, <2>2 DEF Rattache
<1>5. \E S3 : /\ EstArbre(m3, r3, S3) /\ S3[z] = S[z]
              /\ \A n \in A \ S[z] : S3[n] = S[n]
  BY <1>4, MemeArbre
<1>6. Exact(m3, z) /\ Grandi(m3, z, m[z].height)
  <2>1. height(m3, c) = hc /\ height(m3, d) = hd /\ height(m3, z) = m3[z].height
    BY <1>0, <1>1, <1>4 DEF height
  <2>2. Balance(m, z) = hc - hd /\ Balance(m3, z) = hc - hd /\ m3[z].left = c /\ m3[z].right = d
    BY <1>4, <2>1 DEF Balance
  <2>3. hc \in Nat /\ hd \in Nat /\ m[z].height \in Nat
    BY <1>0, <1>1 DEF Formes
  <2>4. Exact(m3, z)
    BY <1>4, <2>1, <2>2 DEF Exact
  <2>5. PICK o \in Nat : \/ /\ (hc = o \/ hc = o + 1)
                            /\ m[z].height = maximum(o, hd) + 1
                            /\ o - hd \in {-1, 0, 1}
                         \/ /\ (hd = o \/ hd = o + 1)
                            /\ m[z].height = maximum(hc, o) + 1
                            /\ hc - o \in {-1, 0, 1}
    BY DEF Presque, Grandi
  <2> HIDE DEF hc, hd
  <2>6. Grandi(m3, z, m[z].height)
    BY <1>4, <2>1, <2>2, <2>3, <2>5 DEF Grandi, maximum
  <2> QED BY <2>4, <2>6
<1>7. ASSUME NEW n \in A, ~Fils(m, n, z) PROVE Exact(m3, n)
  <2>1. CASE n # z
    <3>1. \A e \in A : Fils(m, n, e) => m3[e].height = m[e].height
      BY <1>4, <1>7
    <3> QED BY <2>1, <3>1, <1>0, <1>4, ExactApres
  <2> QED BY <2>1, <1>6
<1>8. \A n \in A \ S[z] : m3[n].height = m[n].height
  BY <1>1, <1>4
<1> QED BY <1>4, <1>5, <1>6, <1>7, <1>8 DEF Equilibree

(* Whatever case insert falls in, the subtree it returns is balanced. *)
LEMMA Equilibrage ==
  ASSUME NEW m, NEW r, NEW S, EstArbre(m, r, S), Formes(m), NEW z \in DOMAIN m,
         \A n \in DOMAIN m \ {z} : Exact(m, n), Presque(m, z),
         NEW e, e = Equilibrer(m, z)
  PROVE  LET U == updateHeight(e.tas, e.racine)
         IN  /\ Locale(m, S, z, U, e.racine)
             /\ \A m3, r3 : Rattache(m, r, S, z, U, e.racine, m3, r3) =>
                              Equilibree(m, r, S, z, e.racine, m3, r3)
<1> DEFINE y == m[z].left
           w == m[z].right
<1>0. /\ \A n \in DOMAIN m \union {NULL} : height(m, n) \in Nat
      /\ y \in DOMAIN m \union {NULL} /\ w \in DOMAIN m \union {NULL}
  BY HauteurNat DEF Formes
<1>1. Balance(m, z) = height(m, y) - height(m, w) /\ Balance(m, z) \in Int
  BY <1>0 DEF Balance
<1>2. CASE Balance(m, z) > 1
  <2>1. CASE Balance(m, y) > 0
    <3>1. e = [tas |-> rightRotate(m, z), racine |-> y]
      BY <1>2, <2>1 DEF Equilibrer
    <3>2. height(m, y) - height(m, w) > 1 /\ height(m, m[y].left) - height(m, m[y].right) > 0
      BY <1>1, <1>2, <2>1 DEF Balance
    <3> HIDE DEF y, w
    <3>3. y = m[z].left /\ w = m[z].right
      BY DEF y, w
    <3> QED BY <3>1, <3>2, <3>3, SimpleDroite
  <2>2. CASE ~(Balance(m, y) > 0)
    <3> DEFINE x == m[y].right
    <3>1. e = [tas |-> rightRotate(GaucheTournee(m, z), z), racine |-> GaucheTournee(m, z)[z].left]
      BY <1>2, <2>2 DEF Equilibrer
    <3>2. height(m, y) - height(m, w) > 1 /\ ~(height(m, m[y].left) - height(m, x) > 0)
      BY <1>1, <1>2, <2>2 DEF Balance
    <3> HIDE DEF y, w, x
    <3>3. y = m[z].left /\ w = m[z].right /\ x = m[y].right
      BY DEF y, w, x
    <3> QED BY <3>1, <3>2, <3>3, DoubleGauche
  <2> QED BY <2>1, <2>2
<1>3. CASE Balance(m, z) < -1
  <2>0. ~(Balance(m, z) > 1) /\ height(m, w) - height(m, y) > 1
    BY <1>0, <1>1, <1>3
  <2>w. w \in DOMAIN m /\ m[w].left \in DOMAIN m \union {NULL} /\ m[w].right \in DOMAIN m \union {NULL}
    <3>1. w # NULL
      BY <1>0, <2>0 DEF height
    <3> QED BY <3>1, <1>0 DEF Formes
  <2>1. CASE Balance(m, w) < 0
    <3>1. e = [tas |-> leftRotate(m, z), racine |-> w]
      BY <1>3, <2>0, <2>1 DEF Equilibrer
    <3>2. height(m, m[w].right) - height(m, m[w].left) > 0
      BY <1>0, <2>1, <2>w DEF Balance
    <3> HIDE DEF y, w
    <3>3. y = m[z].left /\ w = m[z].right
      BY DEF y, w
    <3> QED BY <2>0, <3>1, <3>2, <3>3, SimpleGauche
  <2>2. CASE ~(Balance(m, w) < 0)
    <3> DEFINE x == m[w].left
    <3>1. e = [tas |-> leftRotate(DroiteTournee(m, z), z), racine |-> DroiteTournee(m, z)[z].right]
      BY <1>3, <2>0, <2>2 DEF Equilibrer
    <3>2. ~(height(m, m[w].right) - height(m, x) > 0)
      BY <1>0, <2>2, <2>w DEF Balance
    <3> HIDE DEF y, w, x
    <3>3. y = m[z].left /\ w = m[z].right /\ x = m[w].left
      BY DEF y, w, x
    <3> QED BY <2>0, <3>1, <3>2, <3>3, DoubleDroite
  <2> QED BY <2>1, <2>2
<1>4. CASE ~(Balance(m, z) > 1) /\ ~(Balance(m, z) < -1)
  <2>1. e = [tas |-> m, racine |-> z] /\ Balance(m, z) \in {-1, 0, 1}
    BY <1>1, <1>4 DEF Equilibrer
  <2> QED BY <2>1, SansRotation
<1> QED BY <1>2, <1>3, <1>4

(* How the caller stores what insert returns, in its node or in main. *)
LEMMA Rattachement ==
  ASSUME NEW m, NEW r, NEW S, EstArbre(m, r, S), NEW z \in DOMAIN m,
         NEW U, NEW n2, Locale(m, S, z, U, n2), NEW m3, NEW r3,
         \/ z = r /\ m3 = U /\ r3 = n2
         \/ \E p \in DOMAIN m :
              /\ r3 = r
              /\ \/ m[p].left = z /\ m3 = [U EXCEPT ![p].left = n2]
                 \/ m[p].right = z /\ m3 = [U EXCEPT ![p].right = n2]
  PROVE  Rattache(m, r, S, z, U, n2, m3, r3)
<1>0. /\ n2 \in DOMAIN m /\ DOMAIN U = DOMAIN m /\ Formes(U) /\ S[z] \subseteq DOMAIN m
      /\ \A n \in DOMAIN m \ S[z] : U[n] = m[n]
      /\ z \in S[z] /\ S[z] \in SUBSET DOMAIN m
  BY DEF Locale, EstArbre
<1>1. CASE z = r /\ m3 = U /\ r3 = n2
  <2>1. S[z] = DOMAIN m
    BY <1>1 DEF EstArbre, Sous
  <2> QED BY <2>1, <1>0, <1>1 DEF Rattache
<1>2. ASSUME NEW p \in DOMAIN m, r3 = r,
             \/ m[p].left = z /\ m3 = [U EXCEPT ![p].left = n2]
             \/ m[p].right = z /\ m3 = [U EXCEPT ![p].right = n2]
      PROVE  Rattache(m, r, S, z, U, n2, m3, r3)
  <2>1. Fils(m, p, z)
    BY <1>2 DEF Fils
  <2>2. /\ p \notin S[z] /\ z # r
        /\ m[p].left = z => m[p].right # z
        /\ \A n \in DOMAIN m : Fils(m, n, z) => n = p
    BY <2>1, Apart, UnParent
  <2>3. U[p] \in [key : Cles, value : Valeurs, left : DOMAIN m \union {NULL},
                  right : DOMAIN m \union {NULL}, height : Nat]
    BY <1>0 DEF Formes
  <2>4. /\ DOMAIN m3 = DOMAIN m
        /\ \A n \in DOMAIN m \ {p} : m3[n] = U[n]
        /\ \/ m[p].left = z /\ m3[p] = [U[p] EXCEPT !.left = n2]
           \/ m[p].right = z /\ m3[p] = [U[p] EXCEPT !.right = n2]
    BY <1>0, <1>2
  <2>5. /\ m3[p].key = U[p].key /\ m3[p].value = U[p].value /\ m3[p].height = U[p].height
        /\ m3[p].left = (IF m[p].left = z THEN n2 ELSE m[p].left)
        /\ m3[p].right = (IF m[p].right = z THEN n2 ELSE m[p].right)
    BY <1>0, <2>2, <2>3, <2>4
  <2>6. Formes(m3)
    <3>1. m3[p] \in [key : Cles, value : Valeurs, left : DOMAIN m \union {NULL},
                     right : DOMAIN m \union {NULL}, height : Nat]
      BY <1>0, <2>3, <2>4
    <3> QED BY <1>0, <2>4, <3>1 DEF Formes
  <2>7. ASSUME NEW n \in DOMAIN m \ S[z]
        PROVE  /\ m3[n].left = IF m[n].left = z THEN n2 ELSE m[n].left
               /\ m3[n].right = IF m[n].right = z THEN n2 ELSE m[n].right
    <3>1. CASE n = p
      BY <3>1, <2>5
    <3>2. CASE n # p
      BY <3>2, <1>0, <2>2, <2>4 DEF Fils
    <3> QED BY <3>1, <3>2
  <2>8. \A n \in S[z] : m3[n].left = U[n].left /\ m3[n].right = U[n].right
    BY <1>0, <2>2, <2>4
  <2>9. \A n \in DOMAIN m : m3[n].key = U[n].key /\ m3[n].value = U[n].value /\ m3[n].height = U[n].height
    BY <2>4, <2>5
  <2> QED BY <1>2, <2>2, <2>4, <2>6, <2>7, <2>8, <2>9 DEF Rattache
<1> QED BY <1>1, <1>2

(***************************************************************************)
(* The inductive invariant.                                                *)
(***************************************************************************)

(* The child on which the call for p goes on. *)
Suite(m, pc, k, p) ==
  IF (pc = "release" /\ m[p].left # NULL) \/ (pc # "release" /\ k < m[p].key)
  THEN m[p].left ELSE m[p].right

(* The calls that wait, s, go from the root down to the one on n. *)
Guide(m, r, pc, k, s, n, S) ==
  /\ s = <<>> => n = r
  /\ s # <<>> => s[1] = r
  /\ \A i \in 1..Len(s) : Suite(m, pc, k, s[i]) = IF i = Len(s) THEN n ELSE s[i + 1]
  /\ \A i, j \in 1..Len(s) : i < j => s[j] \in S[s[i]] /\ s[i] \notin S[s[j]]
  /\ n # NULL => \A i \in 1..Len(s) : n \in S[s[i]] /\ s[i] \notin S[n]

Chemin ==
  /\ avPc \in {"repos", "get"} => pile = <<>>
  /\ avPc \in {"insert", "remonte", "release"} =>
       Guide(mem, root, avPc, key, pile, node, Dessous)
  /\ avPc \in {"remonte", "release"} => node # NULL

(* The key is looked for, and belongs, where the search is. *)
Recherche ==
  /\ avPc \in {"insert", "get"} => \A n \in DOMAIN mem : mem[n].key = key => n \in Sous(Dessous, node)
  /\ avPc = "insert" => /\ pile # <<>> => Situe(mem, Dessous, key, Last(pile))
                        /\ node # NULL => Situe(mem, Dessous, key, node)

(* The node to balance is the only one that may lean too much. *)
Hauteurs ==
  /\ avPc \notin {"remonte", "release"} => \A n \in DOMAIN mem : Exact(mem, n)
  /\ avPc = "remonte" =>
       Presque(mem, node) /\ \A n \in DOMAIN mem \ {node} : Exact(mem, n)

Arguments ==
  /\ avPc = "repos" => node = NULL /\ key = NULL /\ value = NULL
  /\ avPc = "get" => value = NULL
  /\ avPc = "release" => key = NULL /\ value = NULL

AvIInv ==
  /\ AvTypeOK
  /\ EstArbre(mem, root, Dessous)
  /\ Chemin
  /\ Recherche
  /\ Hauteurs
  /\ Arguments

(* Suite is the child of the model. *)
LEMMA EnfantSuite ==
  ASSUME NEW p
  PROVE  /\ Enfant(p) = Suite(mem, avPc, key, p)
         /\ AGauche(p) => Enfant(p) = mem[p].left
         /\ ~AGauche(p) => Enfant(p) = mem[p].right
BY DEF Enfant, AGauche, Suite

(* One more call. *)
LEMMA Empiler ==
  ASSUME NEW T, NEW s \in Seq(T), NEW x \in T
  PROVE  /\ Append(s, x) \in Seq(T) /\ Append(s, x) # <<>>
         /\ Len(Append(s, x)) = Len(s) + 1 /\ Len(s) \in Nat
         /\ Append(s, x)[Len(s) + 1] = x /\ \A i \in 1..Len(s) : Append(s, x)[i] = s[i]
         /\ Last(Append(s, x)) = x /\ (s = <<>> <=> Len(s) = 0)
BY DEF Last

(* One call less. *)
LEMMA Depiler ==
  ASSUME NEW T, NEW s \in Seq(T), s # <<>>
  PROVE  /\ Len(s) \in Nat \ {0} /\ Last(s) = s[Len(s)] /\ Last(s) \in T
         /\ Front(s) \in Seq(T) /\ Len(Front(s)) = Len(s) - 1
         /\ (\A i \in 1..Len(s) - 1 : Front(s)[i] = s[i])
         /\ (Front(s) = <<>> <=> Len(s) = 1)
<1>1. Len(s) \in Nat \ {0} /\ Last(s) = s[Len(s)] /\ Last(s) \in T
  BY DEF Last
<1>2. /\ Front(s) \in Seq(T) /\ Len(Front(s)) = Len(s) - 1
      /\ \A i \in 1..Len(s) - 1 : Front(s)[i] = s[i]
  <2> DEFINE n == Len(s) - 1
             f == SubSeq(s, 1, n)
  <2>1. 1 \in Int /\ n \in Int /\ \A i \in 1..n : s[i] \in T
    BY <1>1
  <2>2. f \in Seq(T) /\ Len(f) = (IF 1 <= n THEN n - 1 + 1 ELSE 0) /\ \A i \in 1..n - 1 + 1 : f[i] = s[1 + i - 1]
    <3> HIDE DEF n
    <3> QED BY <2>1, SubSeqProperties
  <2>3. f = Front(s)
    BY DEF Front
  <2> HIDE DEF f
  <2> QED BY <1>1, <2>2, <2>3
<1> QED BY <1>1, <1>2

(* The path goes one node down. *)
LEMMA GuideEmpile ==
  ASSUME NEW m, NEW r, NEW S, EstArbre(m, r, S), NEW pc, NEW k, NEW s \in Seq(DOMAIN m),
         NEW n \in DOMAIN m, Guide(m, r, pc, k, s, n, S),
         NEW c \in DOMAIN m \union {NULL}, c = Suite(m, pc, k, n)
  PROVE  Guide(m, r, pc, k, Append(s, n), c, S)
<1> DEFINE t == Append(s, n)
           l == Len(s)
<1>1. /\ t \in Seq(DOMAIN m) /\ t # <<>> /\ Len(t) = l + 1 /\ l \in Nat
      /\ t[l + 1] = n /\ (\A i \in 1..l : t[i] = s[i]) /\ (s = <<>> <=> l = 0)
  BY Empiler
<1> HIDE DEF t, l
<1>g. /\ s = <<>> => n = r
      /\ s # <<>> => s[1] = r
      /\ \A i \in 1..l : Suite(m, pc, k, s[i]) = IF i = l THEN n ELSE s[i + 1]
      /\ \A i, j \in 1..l : i < j => s[j] \in S[s[i]] /\ s[i] \notin S[s[j]]
      /\ \A i \in 1..l : n \in S[s[i]] /\ s[i] \notin S[n]
      /\ \A i \in 1..l : s[i] \in DOMAIN m
  BY DEF Guide, EstArbre, l
<1>2. t[1] = r
  BY <1>1, <1>g
<1>3. ASSUME NEW i \in 1..l + 1
      PROVE  Suite(m, pc, k, t[i]) = IF i = l + 1 THEN c ELSE t[i + 1]
  BY <1>1, <1>g
<1>4. ASSUME NEW i \in 1..l + 1, NEW j \in 1..l + 1, i < j
      PROVE  t[j] \in S[t[i]] /\ t[i] \notin S[t[j]]
  <2>1. i \in 1..l /\ t[i] = s[i]
    BY <1>1, <1>4
  <2>2. CASE j = l + 1
    BY <2>1, <2>2, <1>1, <1>g
  <2>3. CASE j \in 1..l
    BY <2>1, <2>3, <1>1, <1>4, <1>g
  <2> QED BY <2>2, <2>3, <1>1
<1>5. ASSUME c # NULL, NEW i \in 1..l + 1 PROVE c \in S[t[i]] /\ t[i] \notin S[c]
  <2>1. c \in DOMAIN m /\ Fils(m, n, c)
    BY <1>5 DEF Suite, Fils
  <2>2. c \in S[n] /\ n \notin S[c] /\ S[c] \subseteq S[n]
    BY <2>1, Apart
  <2>3. CASE i = l + 1
    BY <2>2, <2>3, <1>1
  <2>4. CASE i \in 1..l
    <3>1. t[i] = s[i] /\ n \in S[s[i]] /\ s[i] \notin S[n] /\ s[i] \in DOMAIN m
      BY <2>4, <1>1, <1>g
    <3>2. S[n] \subseteq S[s[i]]
      BY <3>1 DEF EstArbre
    <3> QED BY <3>1, <3>2, <2>2
  <2> QED BY <2>3, <2>4, <1>1
<1> QED BY <1>1, <1>2, <1>3, <1>4, <1>5 DEF Guide, t

(* The path goes back one node up, whatever is done to what is below. *)
LEMMA GuideDepile ==
  ASSUME NEW m, NEW r, NEW S, NEW pc, NEW k, NEW s \in Seq(DOMAIN m), s # <<>>,
         NEW n, Guide(m, r, pc, k, s, n, S),
         NEW m2, NEW pc2, NEW S2,
         \A i \in 1..Len(s) - 1 : Suite(m2, pc2, k, s[i]) = Suite(m, pc, k, s[i]),
         \A i, j \in 1..Len(s) : s[j] \in S2[s[i]] <=> s[j] \in S[s[i]]
  PROVE  Guide(m2, r, pc2, k, Front(s), Last(s), S2)
<1> DEFINE t == Front(s)
           l == Len(s)
<1>1. /\ l \in Nat \ {0} /\ Last(s) = s[l] /\ t \in Seq(DOMAIN m) /\ Len(t) = l - 1
      /\ (\A i \in 1..l - 1 : t[i] = s[i]) /\ (t = <<>> <=> l = 1)
  BY Depiler
<1>2. /\ s[1] = r
      /\ \A i \in 1..l - 1 : Suite(m2, pc2, k, s[i]) = s[i + 1]
      /\ \A i, j \in 1..l : i < j => s[j] \in S2[s[i]] /\ s[i] \notin S2[s[j]]
  BY <1>1 DEF Guide
<1> HIDE DEF t, l
<1>3. t = <<>> => s[l] = r
  BY <1>1, <1>2
<1>4. t # <<>> => t[1] = r
  BY <1>1, <1>2
<1>5. \A i \in 1..l - 1 : Suite(m2, pc2, k, t[i]) = IF i = l - 1 THEN s[l] ELSE t[i + 1]
  BY <1>1, <1>2
<1>6. \A i \in 1..l - 1 : t[i] = s[i] /\ i \in 1..l /\ l \in 1..l /\ i < l
  BY <1>1
<1>7. ASSUME NEW i \in 1..l - 1
      PROVE  /\ s[l] \in S2[t[i]] /\ t[i] \notin S2[s[l]]
             /\ \A j \in 1..l - 1 : i < j => t[j] \in S2[t[i]] /\ t[i] \notin S2[t[j]]
  BY <1>2, <1>6
<1>8. \A i \in 1..Len(t) : Suite(m2, pc2, k, t[i]) = IF i = Len(t) THEN Last(s) ELSE t[i + 1]
  BY <1>1, <1>5
<1>9. \A i, j \in 1..Len(t) : i < j => t[j] \in S2[t[i]] /\ t[i] \notin S2[t[j]]
  BY <1>1, <1>7
<1>10. \A i \in 1..Len(t) : Last(s) \in S2[t[i]] /\ t[i] \notin S2[Last(s)]
  BY <1>1, <1>7
<1>11. Guide(m2, r, pc2, k, t, Last(s), S2)
  BY ONLY <1>1, <1>3, <1>4, <1>8, <1>9, <1>10 DEF Guide
<1> QED BY <1>11 DEF t

(* What a step makes of Dessous. *)
LEMMA DessousApres ==
  ASSUME NEW S, EstArbre(mem', root', S)
  PROVE  Dessous' = S
<1>1. Dessous' = DessousDe(mem')
  BY DEF Dessous, DessousDe
<1> QED BY <1>1, DessousUnique

(* The invariant holds at the start, and each step keeps it. *)
LEMMA Depart == AvInit => AvIInv
<1> SUFFICES ASSUME AvInit PROVE AvIInv
  OBVIOUS
<1>1. DOMAIN mem = {} /\ root = NULL
  BY DEF AvInit
<1>2. EstArbre(mem, root, [n \in {} |-> {}])
  BY <1>1, ArbreVide
<1>3. Dessous = [n \in {} |-> {}]
  BY <1>2, DessousDeMem, DessousUnique
<1>4. AvTypeOK
  BY <1>1 DEF AvInit, AvTypeOK
<1> QED BY <1>1, <1>2, <1>3, <1>4 DEF AvInit, AvIInv, Chemin, Recherche, Hauteurs, Arguments

(* The steps that leave the heap alone. *)
LEMMA MemeTas ==
  ASSUME AvIInv, mem' = mem, root' = root
  PROVE  Dessous' = Dessous /\ EstArbre(mem', root', Dessous')
BY DEF Dessous, AvIInv

(* A call starts at the root. *)
LEMMA PasAppeler ==
  ASSUME AvIInv, NEW op, NEW k, NEW v, Appeler(op, k, v),
         \/ op = "insert" /\ k \in Cles /\ v \in Valeurs
         \/ op = "get" /\ k \in Cles /\ v = NULL
         \/ op = "release" /\ k = NULL /\ v = NULL /\ root # NULL
  PROVE  AvIInv'
<1>1. /\ mem' = mem /\ root' = root /\ pile' = pile /\ pile = <<>> /\ avPc = "repos"
      /\ avPc' = op /\ node' = root /\ key' = k /\ value' = v /\ retour' = NULL
  BY DEF Appeler, AvIInv, Chemin
<1>2. Dessous' = Dessous /\ EstArbre(mem', root', Dessous') /\ EstArbre(mem, root, Dessous)
  BY <1>1, MemeTas DEF AvIInv
<1>3. AvTypeOK'
  BY <1>1 DEF AvIInv, AvTypeOK
<1>4. Chemin'
  BY <1>1 DEF Chemin, Guide
<1>5. Recherche'
  <2>1. Sous(Dessous, root) = DOMAIN mem
    BY <1>2 DEF EstArbre
  <2>2. root # NULL => Situe(mem, Dessous, k, root)
    BY <1>2, SitueRacine
  <2> QED BY <1>1, <1>2, <2>1, <2>2 DEF Recherche
<1>6. Hauteurs'
  BY <1>1 DEF AvIInv, Hauteurs
<1> QED BY <1>1, <1>2, <1>3, <1>4, <1>5, <1>6 DEF AvIInv, Arguments

(* The node at hand is allocated, and well formed. *)
LEMMA Noeud ==
  ASSUME AvIInv, node # NULL
  PROVE  /\ node \in DOMAIN mem
         /\ mem[node].left \in DOMAIN mem \union {NULL} /\ mem[node].right \in DOMAIN mem \union {NULL}
         /\ mem[node].key \in Cles /\ mem[node].key \in Int /\ mem[node].value \in Valeurs
         /\ mem[node].height \in Nat
BY DEF AvIInv, AvTypeOK, EstArbre

(* The search goes down on the side where the key is, if it is. *)
LEMMA Cherche ==
  ASSUME AvIInv, node # NULL, avPc \in {"insert", "get"}, key # mem[node].key
  PROVE  \A n \in DOMAIN mem : mem[n].key = key => n \in Sous(Dessous, Enfant(node))
<1> SUFFICES ASSUME NEW n \in DOMAIN mem, mem[n].key = key PROVE n \in Sous(Dessous, Enfant(node))
  OBVIOUS
<1>1. node \in DOMAIN mem /\ mem[node].key \in Int /\ EstArbre(mem, root, Dessous)
  BY Noeud DEF AvIInv
<1>2. n \in Dessous[node] /\ n # node
  BY <1>1 DEF AvIInv, Recherche, Sous
<1>3. n \in Sous(Dessous, mem[node].left) \/ n \in Sous(Dessous, mem[node].right)
  BY <1>1, <1>2 DEF EstArbre
<1>4. /\ n \in Sous(Dessous, mem[node].left) => key < mem[node].key
      /\ n \in Sous(Dessous, mem[node].right) => mem[node].key < key
  BY <1>1 DEF EstArbre
<1>5. key \in Int
  BY <1>1 DEF EstArbre
<1> QED BY <1>1, <1>3, <1>4, <1>5 DEF Enfant, AGauche

(* insert calls itself on a child. *)
LEMMA PasDescendre == ASSUME AvIInv, Descendre PROVE AvIInv'
<1> DEFINE c == Enfant(node)
<1>1. /\ mem' = mem /\ root' = root /\ avPc' = avPc /\ key' = key /\ value' = value /\ retour' = retour
      /\ avPc = "insert" /\ node # NULL /\ key # mem[node].key
      /\ pile' = Append(pile, node) /\ node' = c
  BY DEF Descendre
<1>2. Dessous' = Dessous /\ EstArbre(mem', root', Dessous') /\ EstArbre(mem, root, Dessous)
  BY <1>1, MemeTas DEF AvIInv
<1>3. /\ node \in DOMAIN mem /\ c \in DOMAIN mem \union {NULL} /\ mem[node].key \in Int /\ key \in Int
      /\ pile \in Seq(DOMAIN mem)
  BY <1>1, Noeud, ArbreAssumption DEF AvIInv, AvTypeOK, Enfant
<1>4. /\ \/ c = mem[node].left /\ key < mem[node].key
         \/ c = mem[node].right /\ mem[node].key < key
      /\ c = Suite(mem, avPc, key, node)
  BY <1>1, <1>3 DEF Enfant, AGauche, Suite
<1>5. pile' \in Seq(DOMAIN mem) /\ Last(pile') = node
  BY <1>1, <1>3, Empiler
<1>6. \A n \in DOMAIN mem : mem[n].key = key => n \in Sous(Dessous, c)
  BY <1>1, Cherche
<1> HIDE DEF c
<1>7. AvTypeOK'
  BY <1>1, <1>3, <1>5 DEF AvIInv, AvTypeOK
<1>8. Chemin'
  <2>1. Guide(mem, root, avPc, key, Append(pile, node), c, Dessous)
    BY <1>1, <1>2, <1>3, <1>4, GuideEmpile DEF AvIInv, Chemin
  <2> QED BY <1>1, <1>2, <2>1 DEF Chemin
<1>9. Recherche'
  <2>1. Situe(mem, Dessous, key, node)
    BY <1>1 DEF AvIInv, Recherche
  <2>2. c # NULL => Situe(mem, Dessous, key, c)
    BY <2>1, <1>2, <1>3, <1>4, SitueFils
  <2> QED BY <1>1, <1>2, <1>5, <1>6, <2>1, <2>2 DEF Recherche
<1>10. Hauteurs'
  BY <1>1 DEF AvIInv, Hauteurs
<1> QED BY <1>1, <1>2, <1>7, <1>8, <1>9, <1>10 DEF AvIInv, Arguments

(* get goes on to a child. *)
LEMMA PasSuivre == ASSUME AvIInv, Suivre PROVE AvIInv'
<1>1. /\ mem' = mem /\ root' = root /\ avPc' = avPc /\ key' = key /\ value' = value /\ retour' = retour
      /\ avPc = "get" /\ node # NULL /\ key # mem[node].key
      /\ pile' = pile /\ node' = Enfant(node) /\ Enfant(node) # NULL
  BY DEF Suivre
<1>2. Dessous' = Dessous /\ EstArbre(mem', root', Dessous')
  BY <1>1, MemeTas
<1>3. Enfant(node) \in DOMAIN mem
  BY <1>1, Noeud DEF Enfant
<1>4. \A n \in DOMAIN mem : mem[n].key = key => n \in Sous(Dessous, Enfant(node))
  BY <1>1, Cherche
<1>5. AvTypeOK'
  BY <1>1, <1>3 DEF AvIInv, AvTypeOK
<1> QED BY <1>1, <1>2, <1>4, <1>5 DEF AvIInv, Chemin, Recherche, Hauteurs, Arguments

(* get returns. *)
LEMMA PasRepondre == ASSUME AvIInv, Repondre PROVE AvIInv'
<1>1. /\ mem' = mem /\ root' = root /\ value' = value /\ pile' = pile
      /\ avPc = "get" /\ avPc' = "repos" /\ node' = NULL /\ key' = NULL
  BY DEF Repondre
<1>2. Dessous' = Dessous /\ EstArbre(mem', root', Dessous')
  BY <1>1, MemeTas
<1>3. retour' \in Valeurs \union {NULL}
  BY Noeud DEF Repondre
<1>4. AvTypeOK'
  BY <1>1, <1>3 DEF AvIInv, AvTypeOK
<1> QED BY <1>1, <1>2, <1>4 DEF AvIInv, Chemin, Recherche, Hauteurs, Arguments

(* An assert fails in insert. *)
LEMMA PasAvorter == ASSUME AvIInv, Avorter PROVE AvIInv'
<1>1. /\ mem' = mem /\ root' = root /\ key' = key /\ value' = value /\ pile' = pile /\ node' = node
      /\ retour' = retour /\ avPc = "insert" /\ avPc' = "avorte"
  BY DEF Avorter
<1>2. Dessous' = Dessous /\ EstArbre(mem', root', Dessous')
  BY <1>1, MemeTas
<1>3. AvTypeOK'
  BY <1>1 DEF AvIInv, AvTypeOK
<1> QED BY <1>1, <1>2, <1>3 DEF AvIInv, Chemin, Recherche, Hauteurs, Arguments

(* release calls itself on a child. *)
LEMMA PasEntrer == ASSUME AvIInv, Entrer PROVE AvIInv'
<1> DEFINE c == Enfant(node)
<1>1. /\ mem' = mem /\ root' = root /\ avPc' = avPc /\ key' = key /\ value' = value /\ retour' = retour
      /\ avPc = "release" /\ node # NULL /\ c # NULL
      /\ pile' = Append(pile, node) /\ node' = c
  BY DEF Entrer, AvIInv, Chemin
<1>2. Dessous' = Dessous /\ EstArbre(mem', root', Dessous') /\ EstArbre(mem, root, Dessous)
  BY <1>1, MemeTas DEF AvIInv
<1>3. node \in DOMAIN mem /\ c \in DOMAIN mem /\ pile \in Seq(DOMAIN mem)
  BY <1>1, Noeud DEF AvIInv, AvTypeOK, Enfant
<1>4. c = Suite(mem, avPc, key, node)
  BY EnfantSuite
<1> HIDE DEF c
<1>5. AvTypeOK'
  <2>1. pile' \in Seq(DOMAIN mem)
    BY <1>1, <1>3, Empiler
  <2> QED BY <1>1, <1>3, <2>1 DEF AvIInv, AvTypeOK
<1>6. Chemin'
  <2>1. Guide(mem, root, avPc, key, Append(pile, node), c, Dessous)
    BY <1>1, <1>2, <1>3, <1>4, GuideEmpile DEF AvIInv, Chemin
  <2> QED BY <1>1, <1>2, <2>1 DEF Chemin
<1> QED BY <1>1, <1>2, <1>5, <1>6 DEF AvIInv, Recherche, Hauteurs, Arguments

(* The rest of insert, in a tree m that differs from mem by values only. *)
LEMMA PasFinInsert ==
  ASSUME AvIInv, NEW m, DOMAIN m = DOMAIN mem, Formes(m), EstArbre(m, root, Dessous),
         \A n \in DOMAIN m : /\ m[n].key = mem[n].key
                             /\ m[n].left = mem[n].left /\ m[n].right = mem[n].right,
         avPc \in {"insert", "remonte"}, node # NULL,
         Presque(m, node), \A n \in DOMAIN m \ {node} : Exact(m, n), FinInsert(m, node)
  PROVE  /\ AvIInv' /\ avPc' \in {"repos", "remonte"} /\ DOMAIN mem' = DOMAIN m
         /\ \A n \in DOMAIN m : mem'[n].key = m[n].key /\ mem'[n].value = m[n].value
<1> DEFINE A  == DOMAIN m
           S  == Dessous
           e  == Equilibrer(m, node)
           z  == node
           n2 == e.racine
           U  == updateHeight(e.tas, n2)
           p  == Last(pile)
           l  == Len(pile)
<1>0. /\ NULL \notin A /\ z \in A /\ A = DOMAIN mem /\ pile \in Seq(A)
      /\ key \in Cles /\ value \in Valeurs /\ retour \in Valeurs \union {NULL} /\ A \subseteq Noeuds
      /\ z \in S[z]
  BY DEF AvIInv, AvTypeOK, EstArbre
<1>1. Retourner(U, n2) /\ retour' = retour
  BY DEF FinInsert
<1>2. Locale(m, S, z, U, n2) /\ \A m3, r3 : Rattache(m, root, S, z, U, n2, m3, r3) =>
                                              Equilibree(m, root, S, z, n2, m3, r3)
  BY <1>0, Equilibrage
<1> HIDE DEF e, U
<1>g. Guide(mem, root, avPc, key, pile, z, S)
  BY DEF AvIInv, Chemin
(* Where the result goes. *)
<1>3. CASE pile = <<>>
  <2>1. /\ mem' = U /\ root' = n2 /\ avPc' = "repos" /\ node' = NULL /\ key' = NULL /\ value' = NULL
        /\ pile' = <<>>
    BY <1>1, <1>3 DEF Retourner
  <2>2. z = root
    BY <1>3, <1>g DEF Guide
  <2>3. Equilibree(m, root, S, z, n2, mem', root')
    BY <1>0, <1>2, <2>1, <2>2, Rattachement
  <2>4. PICK S3 : EstArbre(mem', root', S3)
    BY <2>3 DEF Equilibree
  <2>5. EstArbre(mem', root', Dessous')
    BY <2>4, DessousApres
  <2>6. Rattache(m, root, S, z, U, n2, mem', root')
    BY <1>0, <1>2, <2>1, <2>2, Rattachement
  <2>7. \A n \in A : ~Fils(m, n, z)
    BY <1>0, <2>2, UnParent
  <2>8. DOMAIN mem' = A /\ Formes(mem')
    BY <2>6 DEF Rattache
  <2>9. AvTypeOK'
    <3>1. root' \in A \union {NULL}
      BY <2>4, <2>8 DEF EstArbre
    <3> QED BY <1>0, <1>1, <2>1, <2>8, <3>1 DEF AvTypeOK, Formes
  <2>10. \A n \in A : Exact(mem', n)
    BY <2>3, <2>7 DEF Equilibree
  <2>11. \A n \in A : mem'[n].key = m[n].key /\ mem'[n].value = m[n].value
    BY <2>3 DEF Equilibree
  <2> QED BY <2>1, <2>5, <2>8, <2>9, <2>10, <2>11 DEF AvIInv, Chemin, Recherche, Hauteurs, Arguments
<1>4. CASE pile # <<>>
  <2>0. /\ l \in Nat \ {0} /\ p = pile[l] /\ p \in A /\ Front(pile) \in Seq(A) /\ l \in 1..l
    BY <1>0, <1>4, Depiler
  <2>1. /\ mem' = IF AGauche(p) THEN [U EXCEPT ![p].left = n2] ELSE [U EXCEPT ![p].right = n2]
        /\ node' = p /\ pile' = Front(pile) /\ avPc' = "remonte"
        /\ root' = root /\ key' = key /\ value' = value
    BY <1>1, <1>4 DEF Retourner
  <2>2. /\ AGauche(p) => m[p].left = z
        /\ ~AGauche(p) => m[p].right = z
        /\ Fils(m, p, z)
    <3>1. Enfant(p) = z
      BY <1>g, <2>0, EnfantSuite DEF Guide
    <3> QED BY <1>0, <2>0, <3>1, EnfantSuite DEF Fils
  <2>3. Rattache(m, root, S, z, U, n2, mem', root')
    BY <1>0, <1>2, <2>0, <2>1, <2>2, Rattachement
  <2>4. Equilibree(m, root, S, z, n2, mem', root')
    BY <1>2, <2>3
  <2>5. PICK S3 : /\ EstArbre(mem', root', S3) /\ S3[n2] = S[z]
                  /\ \A n \in A \ S[z] : S3[n] = S[n]
    BY <2>4 DEF Equilibree
  <2>6. Dessous' = S3
    BY <2>5, DessousApres
  <2>7. DOMAIN mem' = A /\ Formes(mem')
    BY <2>3 DEF Rattache
  <2>8. AvTypeOK'
    <3>1. root' \in A \union {NULL}
      BY <2>5, <2>7 DEF EstArbre
    <3>2. pile' \in Seq(A) /\ node' \in A
      BY <2>0, <2>1
    <3> QED BY <1>0, <1>1, <2>1, <2>7, <3>1, <3>2 DEF AvTypeOK, Formes
  <2>9. \A i \in 1..l : pile[i] \in A /\ pile[i] \notin S[z]
    BY <1>0, <1>g DEF Guide
  <2>10. \A n \in A : mem'[n].key = m[n].key /\ mem'[n].value = m[n].value
    BY <2>4 DEF Equilibree
  <2>11. Chemin'
    <3>1. ASSUME NEW i \in 1..l - 1
          PROVE  Suite(mem', avPc', key', pile[i]) = Suite(mem, avPc, key, pile[i])
      <4>1. i \in 1..l /\ i < l /\ pile[i] \in A /\ pile[i] \notin S[z]
        BY <2>0, <2>9
      <4>2. p \in S[pile[i]] /\ pile[i] \notin S[p]
        BY <1>g, <2>0, <4>1 DEF Guide
      <4>3. pile[i] # p
        BY <2>0, <4>2 DEF EstArbre
      <4>4. m[pile[i]].left # z /\ m[pile[i]].right # z
        BY <1>0, <2>0, <2>2, <4>1, <4>3, UnParent DEF Fils
      <4>5. mem'[pile[i]].left = m[pile[i]].left /\ mem'[pile[i]].right = m[pile[i]].right
        BY <2>3, <4>1, <4>4 DEF Rattache
      <4>6. /\ mem'[pile[i]].left = mem[pile[i]].left /\ mem'[pile[i]].right = mem[pile[i]].right
            /\ mem'[pile[i]].key = mem[pile[i]].key
        BY <2>10, <4>1, <4>5
      <4> QED BY <2>1, <4>6 DEF Suite
    <3>2. \A i, j \in 1..l : pile[j] \in S3[pile[i]] <=> pile[j] \in S[pile[i]]
      BY <2>5, <2>9
    <3>3. \A i \in 1..Len(pile) - 1 : Suite(mem', "remonte", key, pile[i]) = Suite(mem, avPc, key, pile[i])
      BY <2>1, <3>1
    <3>4. Guide(mem', root, "remonte", key, Front(pile), Last(pile), S3)
      BY <1>0, <1>4, <1>g, <3>2, <3>3, GuideDepile
    <3>5. p # NULL
      BY <1>0, <2>0
    <3> QED BY <2>1, <2>6, <3>4, <3>5 DEF Chemin
  <2>12. Hauteurs'
    <3>1. Exact(m, p) /\ p # z
      BY <1>0, <2>0, <2>2, Apart
    <3>2. \A n \in A \ {p} : Exact(mem', n)
      BY <1>0, <2>0, <2>2, <2>4, UnParent DEF Equilibree
    <3>3. Presque(mem', p)
      <4> DEFINE o == height(m, z)
                 x == m[p].left
                 y == m[p].right
      <4>1. Grandi(mem', n2, o) /\ mem'[p].height = m[p].height /\ p \notin S[z] /\ o \in Nat
        <5>1. o = m[z].height /\ o \in Nat
          BY <1>0, HauteurNat DEF height
        <5>2. p \notin S[z]
          BY <1>0, <2>0, <2>2, Apart
        <5> QED BY <2>0, <2>4, <5>1, <5>2 DEF Equilibree
      <4>2. /\ mem'[p].left = IF x = z THEN n2 ELSE x
            /\ mem'[p].right = IF y = z THEN n2 ELSE y
        BY <2>0, <2>3, <4>1 DEF Rattache
      <4>3. /\ x \in A \union {NULL} /\ y \in A \union {NULL}
            /\ x = z => y # z /\ y \notin S[z]
            /\ y = z => x # z /\ x \notin S[z]
        <5>1. x \in A \union {NULL} /\ y \in A \union {NULL}
          BY <2>0 DEF EstArbre
        <5>2. /\ x = z => y # z /\ \A d \in S[z] : d \notin Sous(S, y)
              /\ y = z => x # z /\ \A d \in S[z] : d \notin Sous(S, x)
          BY <1>0, <2>0, <2>2, Apart
        <5>3. \A d \in A : d \in Sous(S, d)
          BY <1>0 DEF EstArbre, Sous
        <5>4. NULL \notin S[z]
          BY <1>0 DEF EstArbre
        <5> QED BY <5>1, <5>2, <5>3, <5>4
      <4>4. /\ x = z => height(mem', y) = height(m, y)
            /\ y = z => height(mem', x) = height(m, x)
        <5>1. \A n \in A \ S[z] : mem'[n].height = m[n].height
          BY <2>4 DEF Equilibree
        <5> QED BY <4>3, <5>1 DEF height
      <4>5. /\ m[p].height = maximum(height(m, x), height(m, y)) + 1
            /\ height(m, x) - height(m, y) \in {-1, 0, 1}
        BY <3>1 DEF Exact, Balance
      <4>6. x = z \/ y = z
        BY <2>2 DEF Fils
      <4> HIDE DEF x, y, o
      <4>7. x = z => Presque(mem', p)
        BY <4>1, <4>2, <4>3, <4>4, <4>5 DEF Presque, o
      <4>8. y = z => Presque(mem', p)
        BY <4>1, <4>2, <4>3, <4>4, <4>5 DEF Presque, o
      <4> QED BY <4>6, <4>7, <4>8
    <3> QED BY <2>1, <2>7, <3>2, <3>3 DEF Hauteurs
  <2>13. EstArbre(mem', root', Dessous')
    BY <2>5, <2>6
  <2> QED BY <2>1, <2>7, <2>8, <2>10, <2>11, <2>12, <2>13 DEF AvIInv, Recherche, Arguments
<1> QED BY <1>3, <1>4

(* A call of insert goes on after the one it made has returned. *)
LEMMA PasRemonter ==
  ASSUME AvIInv, Remonter
  PROVE  /\ AvIInv' /\ avPc' \in {"repos", "remonte"} /\ DOMAIN mem' = DOMAIN mem
         /\ \A n \in DOMAIN mem : mem'[n].key = mem[n].key /\ mem'[n].value = mem[n].value
<1>1. avPc = "remonte" /\ FinInsert(mem, node) /\ node # NULL
  BY DEF Remonter, AvIInv, Chemin
<1>2. /\ Formes(mem) /\ EstArbre(mem, root, Dessous)
      /\ Presque(mem, node) /\ \A n \in DOMAIN mem \ {node} : Exact(mem, n)
  BY <1>1 DEF AvIInv, AvTypeOK, Formes, Hauteurs
<1> QED BY <1>1, <1>2, PasFinInsert

(* The value of a key that is there is replaced. *)
LEMMA PasRemplacer ==
  ASSUME AvIInv, Remplacer
  PROVE  /\ AvIInv' /\ avPc' \in {"repos", "remonte"} /\ DOMAIN mem' = DOMAIN mem
         /\ \A n \in DOMAIN mem : /\ mem'[n].key = mem[n].key
                                  /\ mem'[n].value = IF n = node THEN value ELSE mem[n].value
<1> DEFINE m == [mem EXCEPT ![node].value = value]
<1>1. avPc = "insert" /\ node # NULL /\ FinInsert(m, node)
  BY DEF Remplacer
<1>2. /\ node \in DOMAIN mem /\ value \in Valeurs /\ Formes(mem) /\ EstArbre(mem, root, Dessous)
      /\ \A n \in DOMAIN mem : Exact(mem, n)
  BY <1>1, Noeud DEF AvIInv, AvTypeOK, Formes, Hauteurs
<1>3. mem[node] \in [key : Cles, value : Valeurs, left : DOMAIN mem \union {NULL},
                     right : DOMAIN mem \union {NULL}, height : Nat]
  BY <1>2 DEF Formes
<1>4. /\ DOMAIN m = DOMAIN mem /\ \A n \in DOMAIN mem \ {node} : m[n] = mem[n]
      /\ m[node] = [mem[node] EXCEPT !.value = value]
  BY <1>2
<1> HIDE DEF m
<1>5. \A n \in DOMAIN mem : /\ m[n].key = mem[n].key /\ m[n].height = mem[n].height
                            /\ m[n].left = mem[n].left /\ m[n].right = mem[n].right
                            /\ m[n].value = IF n = node THEN value ELSE mem[n].value
  BY <1>3, <1>4
<1>6. Formes(m)
  <2>1. m[node] \in [key : Cles, value : Valeurs, left : DOMAIN mem \union {NULL},
                     right : DOMAIN mem \union {NULL}, height : Nat]
    BY <1>2, <1>3, <1>4
  <2> QED BY <1>2, <1>4, <2>1 DEF Formes
<1>7. EstArbre(m, root, Dessous)
  BY <1>2, <1>4, <1>5, MemeArbre
<1>8. \A n \in DOMAIN m : Exact(m, n)
  BY <1>2, <1>4, <1>5, ExactApres DEF EstArbre
<1>9. Presque(m, node)
  <2>1. height(m, m[node].left) \in Nat
    BY <1>2, <1>4, <1>6, HauteurNat DEF Formes
  <2> QED BY <1>2, <1>4, <1>8, <2>1 DEF Presque, Grandi, Exact, Balance
<1> QED BY <1>1, <1>4, <1>5, <1>6, <1>7, <1>8, <1>9, PasFinInsert

(* A new leaf is returned as it is. *)
LEMMA PasCreerFeuille ==
  ASSUME AvIInv, CreerFeuille
  PROVE  /\ AvIInv' /\ avPc' \in {"repos", "remonte"} /\ \A n \in DOMAIN mem : mem[n].key # key
         /\ \E a : /\ a \notin DOMAIN mem /\ DOMAIN mem' = DOMAIN mem \union {a}
                   /\ mem'[a].key = key /\ mem'[a].value = value
                   /\ \A n \in DOMAIN mem : mem'[n].key = mem[n].key /\ mem'[n].value = mem[n].value
<1> DEFINE A == DOMAIN mem
           S == Dessous
           p == Last(pile)
           l == Len(pile)
<1>1. avPc = "insert" /\ node = NULL
  BY DEF CreerFeuille
<1>2. PICK a \in Noeuds \ A :
        FinInsert([x \in A \union {a} |-> IF x = a THEN newNode(key, value) ELSE mem[x]], a)
  BY DEF CreerFeuille
<1> DEFINE m == [x \in A \union {a} |-> IF x = a THEN newNode(key, value) ELSE mem[x]]
<1>0. /\ NULL \notin A /\ a # NULL /\ a \notin A /\ pile \in Seq(A) /\ root \in A \union {NULL}
      /\ key \in Cles /\ key \in Int /\ value \in Valeurs /\ retour \in Valeurs \union {NULL}
      /\ A \subseteq Noeuds /\ Formes(mem) /\ EstArbre(mem, root, S)
      /\ \A n \in A : Exact(mem, n)
  BY <1>1, <1>2, ArbreAssumption DEF AvIInv, AvTypeOK, EstArbre, Formes, Hauteurs
<1>3. \A n \in A : mem[n].key # key
  BY <1>1 DEF AvIInv, Recherche, Sous
<1>g. Guide(mem, root, avPc, key, pile, NULL, S)
  BY <1>1 DEF AvIInv, Chemin
<1>4. /\ DOMAIN m = A \union {a} /\ (\A n \in A : m[n] = mem[n])
      /\ m[a] = [key |-> key, value |-> value, left |-> NULL, right |-> NULL, height |-> 1]
  BY <1>0 DEF newNode
<1> HIDE DEF m
<1>5. FinInsert(m, a)
  BY <1>2 DEF m
<1>6. /\ m[a].key = key /\ m[a].value = value /\ m[a].left = NULL /\ m[a].right = NULL
      /\ m[a].height = 1 /\ height(m, NULL) = 0 /\ Balance(m, a) = 0
  BY <1>4 DEF height, Balance
<1>7. Equilibrer(m, a) = [tas |-> m, racine |-> a]
  BY <1>6 DEF Equilibrer
<1>8. updateHeight(m, a) = m
  <2>1. updateHeight(m, a) = [m EXCEPT ![a].height = 1]
    BY <1>6 DEF updateHeight, maximum
  <2>2. m = [x \in DOMAIN m |-> m[x]]
    BY DEF m
  <2> QED BY <1>4, <2>1, <2>2
<1>9. Retourner(m, a) /\ retour' = retour
  <2>1. LET e == Equilibrer(m, a)
        IN  Retourner(updateHeight(e.tas, e.racine), e.racine) /\ UNCHANGED retour
    BY <1>5 DEF FinInsert
  <2> QED BY <1>7, <1>8, <2>1
<1>10. CASE pile = <<>>
  <2>1. /\ mem' = m /\ root' = a /\ avPc' = "repos" /\ node' = NULL /\ key' = NULL /\ value' = NULL
        /\ pile' = <<>>
    BY <1>9, <1>10 DEF Retourner
  <2>2. A = {}
    <3>1. root = NULL
      BY <1>10, <1>g DEF Guide
    <3> QED BY <1>0, <3>1 DEF EstArbre, Sous
  <2>3. DOMAIN m = {a}
    BY <1>4, <2>2
  <2>4. EstArbre(mem', root', [n \in {a} |-> {a}])
    BY <1>0, <1>6, <2>1, <2>3, PremierNoeud
  <2>5. EstArbre(mem', root', Dessous')
    BY <2>4, DessousApres
  <2>6. AvTypeOK'
    <3>1. m[a] \in [key : Cles, value : Valeurs, left : {a} \union {NULL},
                    right : {a} \union {NULL}, height : Nat]
      BY <1>0, <1>4
    <3>2. pile' \in Seq({a}) /\ a \in Noeuds
      BY <1>2, <2>1
    <3> QED BY <1>0, <1>9, <2>1, <2>3, <3>1, <3>2 DEF AvTypeOK
  <2>7. Exact(mem', a)
    BY <1>6, <2>1 DEF Exact, maximum
  <2>8. AvIInv'
    BY <2>1, <2>3, <2>5, <2>6, <2>7 DEF AvIInv, Chemin, Recherche, Hauteurs, Arguments
  <2> QED BY <1>0, <1>3, <1>4, <1>6, <2>1, <2>8
<1>11. CASE pile # <<>>
  <2>0. /\ l \in Nat \ {0} /\ p = pile[l] /\ p \in A /\ Front(pile) \in Seq(A) /\ l \in 1..l
    BY <1>0, <1>11, Depiler
  <2>1. /\ mem' = IF AGauche(p) THEN [m EXCEPT ![p].left = a] ELSE [m EXCEPT ![p].right = a]
        /\ node' = p /\ pile' = Front(pile) /\ avPc' = "remonte"
        /\ root' = root /\ key' = key /\ value' = value
    BY <1>1, <1>9, <1>11 DEF Retourner
  <2>2. Enfant(p) = NULL
    BY <1>g, <2>0, EnfantSuite DEF Guide
  <2>3. mem[p].key \in Int /\ mem[p].key # key
    BY <1>0, <1>3, <2>0 DEF EstArbre
  <2>4. \/ AGauche(p) /\ key < mem[p].key /\ mem[p].left = NULL
        \/ ~AGauche(p) /\ mem[p].key < key /\ mem[p].right = NULL
    BY <1>0, <1>1, <2>2, <2>3, EnfantSuite DEF AGauche
  <2>5. m[p] \in [key : Cles, value : Valeurs, left : A \union {NULL},
                  right : A \union {NULL}, height : Nat]
    BY <1>0, <1>4, <2>0 DEF Formes
  <2>6. /\ DOMAIN mem' = A \union {a} /\ p # a
        /\ \A n \in (A \union {a}) \ {p} : mem'[n] = m[n]
        /\ \/ AGauche(p) /\ mem'[p] = [m[p] EXCEPT !.left = a]
           \/ ~AGauche(p) /\ mem'[p] = [m[p] EXCEPT !.right = a]
    BY <1>0, <1>4, <2>0, <2>1
  <2>7. /\ mem'[p].key = mem[p].key /\ mem'[p].value = mem[p].value /\ mem'[p].height = mem[p].height
        /\ \/ AGauche(p) /\ mem'[p].left = a /\ mem'[p].right = mem[p].right
           \/ ~AGauche(p) /\ mem'[p].left = mem[p].left /\ mem'[p].right = a
    BY <1>4, <2>0, <2>5, <2>6
  <2>8. /\ mem'[a] = m[a]
        /\ \A n \in A \ {p} : mem'[n] = mem[n]
        /\ \A n \in A : /\ mem'[n].key = mem[n].key /\ mem'[n].value = mem[n].value
                        /\ mem'[n].height = mem[n].height
    BY <1>0, <1>4, <2>0, <2>6, <2>7
  <2>9. Pousse(mem, mem', p, a, key)
    BY <1>0, <1>6, <2>0, <2>4, <2>6, <2>7, <2>8 DEF Pousse
  <2>10. Situe(mem, S, key, p)
    BY <1>1, <1>11 DEF AvIInv, Recherche
  <2> DEFINE S2 == [n \in A \union {a} |-> IF n = a THEN {a} ELSE IF p \in S[n] THEN S[n] \union {a} ELSE S[n]]
  <2>11. EstArbre(mem', root', S2)
    <3>1. /\ S2 \in [A \union {a} -> SUBSET (A \union {a})] /\ S2[a] = {a}
          /\ \A n \in A : S2[n] = IF p \in S[n] THEN S[n] \union {a} ELSE S[n]
      <4>1. \A n \in A : S[n] \subseteq A
        BY <1>0 DEF EstArbre
      <4> QED BY <1>0, <4>1
    <3>2. DessousPousse(mem, S, p, a, S2)
      BY <3>1 DEF DessousPousse
    <3> HIDE DEF S2
    <3> QED BY <1>0, <1>3, <2>1, <2>9, <2>10, <3>2, Ajout
  <2>12. Dessous' = S2
    <3> HIDE DEF S2
    <3> QED BY <2>11, DessousApres
  <2>13. \A n, x \in A : x \in S2[n] <=> x \in S[n]
    BY <1>0
  <2> HIDE DEF S2
  <2>14. Formes(mem')
    <3>1. mem'[p] \in [key : Cles, value : Valeurs, left : A \union {a, NULL},
                       right : A \union {a, NULL}, height : Nat]
      BY <2>5, <2>6
    <3>2. mem'[a] \in [key : Cles, value : Valeurs, left : A \union {a, NULL},
                       right : A \union {a, NULL}, height : Nat]
      BY <1>0, <1>4, <2>8
    <3>3. A \union {a, NULL} = (A \union {a}) \union {NULL}
      OBVIOUS
    <3> QED BY <1>0, <2>6, <2>8, <3>1, <3>2, <3>3 DEF Formes
  <2>15. AvTypeOK'
    <3>1. pile' \in Seq(A \union {a}) /\ node' \in A
      BY <2>0, <2>1
    <3> QED BY <1>0, <1>9, <2>1, <2>6, <2>14, <3>1 DEF AvTypeOK, Formes
  <2>16. Chemin'
    <3>1. \A i \in 1..l : pile[i] \in A
      BY <1>0
    <3>2. ASSUME NEW i \in 1..l - 1
          PROVE  Suite(mem', "remonte", key, pile[i]) = Suite(mem, avPc, key, pile[i])
      <4>1. i \in 1..l /\ i < l /\ pile[i] \in A
        BY <2>0, <3>1
      <4>2. p \in S[pile[i]] /\ pile[i] \notin S[p]
        BY <1>g, <2>0, <4>1 DEF Guide
      <4>3. pile[i] # p
        BY <1>0, <2>0, <4>2 DEF EstArbre
      <4>4. mem'[pile[i]] = mem[pile[i]]
        BY <2>8, <4>1, <4>3
      <4> QED BY <1>1, <4>4 DEF Suite
    <3>3. \A i, j \in 1..l : pile[j] \in S2[pile[i]] <=> pile[j] \in S[pile[i]]
      BY <2>13, <3>1
    <3>4. Guide(mem', root, "remonte", key, Front(pile), Last(pile), S2)
      BY <1>0, <1>11, <1>g, <3>2, <3>3, GuideDepile
    <3>5. p # NULL
      BY <1>0, <2>0
    <3> QED BY <2>1, <2>12, <3>4, <3>5 DEF Chemin
  <2>17. Hauteurs'
    <3>0. /\ \A n \in A : mem[n].left \in A \union {NULL} /\ mem[n].right \in A \union {NULL}
          /\ \A n \in A \union {NULL} : height(mem', n) = height(mem, n)
      BY <1>0, <2>8 DEF height, EstArbre
    <3>1. ASSUME NEW n \in A \ {p} PROVE Exact(mem', n)
      <4>1. mem'[n] = mem[n] /\ Exact(mem, n)
        BY <1>0, <2>8
      <4> QED BY <3>0, <4>1 DEF Exact, Balance
    <3>2. height(mem', a) = 1 /\ height(mem', NULL) = 0 /\ height(mem, NULL) = 0
      BY <1>0, <1>6, <2>8 DEF height
    <3>3. Exact(mem', a)
      BY <1>6, <2>8, <3>2 DEF Exact, Balance, maximum
    <3>4. Presque(mem', p)
      <4>1. Grandi(mem', a, 0) /\ 0 \in Nat
        BY <3>2 DEF Grandi
      <4>2. /\ mem[p].height = maximum(height(mem, mem[p].left), height(mem, mem[p].right)) + 1
            /\ height(mem, mem[p].left) - height(mem, mem[p].right) \in {-1, 0, 1}
        BY <1>0, <2>0 DEF Exact, Balance
      <4>3. /\ height(mem', mem[p].left) = height(mem, mem[p].left)
            /\ height(mem', mem[p].right) = height(mem, mem[p].right)
        BY <2>0, <3>0
      <4> QED BY <2>4, <2>7, <3>2, <4>1, <4>2, <4>3 DEF Presque
    <3> QED BY <2>1, <2>6, <3>1, <3>3, <3>4 DEF Hauteurs
  <2>18. EstArbre(mem', root', Dessous')
    BY <2>11, <2>12
  <2>19. AvIInv'
    BY <2>1, <2>15, <2>16, <2>17, <2>18 DEF AvIInv, Recherche, Arguments
  <2> QED BY <1>0, <1>3, <1>6, <2>1, <2>6, <2>8, <2>19
<1> QED BY <1>10, <1>11

(* release frees a node that has no child left. *)
LEMMA PasLibererNoeud ==
  ASSUME AvIInv, LibererNoeud
  PROVE  /\ AvIInv' /\ retour' = retour
         /\ (avPc' = "release" \/ (avPc' = "repos" /\ DOMAIN mem' = {}))
<1> DEFINE A == DOMAIN mem
           S == Dessous
           f == node
           m == [n \in A \ {f} |-> mem[n]]
           p == Last(pile)
           l == Len(pile)
<1>1. avPc = "release" /\ Enfant(f) = NULL /\ Retourner(m, NULL) /\ retour' = retour
  BY DEF LibererNoeud
<1>2. f # NULL /\ key = NULL /\ value = NULL /\ Guide(mem, root, avPc, key, pile, f, S)
  BY <1>1 DEF AvIInv, Chemin, Arguments
<1>3. mem[f].left = NULL /\ mem[f].right = NULL
  BY <1>1 DEF Enfant, AGauche
<1>0. /\ NULL \notin A /\ f \in A /\ pile \in Seq(A) /\ root \in A \union {NULL}
      /\ retour \in Valeurs \union {NULL} /\ A \subseteq Noeuds /\ Formes(mem)
      /\ EstArbre(mem, root, S) /\ S[f] = {f} /\ S \in [A -> SUBSET A]
  BY <1>2, <1>3 DEF AvIInv, AvTypeOK, EstArbre, Formes, Sous
<1>4. DOMAIN m = A \ {f} /\ \A n \in A \ {f} : m[n] = mem[n]
  OBVIOUS
<1> HIDE DEF m
<1> DEFINE S2 == [n \in A \ {f} |-> S[n] \ {f}]
<1>5. CASE pile = <<>>
  <2>1. /\ mem' = m /\ root' = NULL /\ avPc' = "repos" /\ node' = NULL /\ key' = NULL /\ value' = NULL
        /\ pile' = <<>>
    BY <1>1, <1>5 DEF Retourner
  <2>2. root = f
    BY <1>2, <1>5 DEF Guide
  <2>3. DOMAIN mem' = {}
    BY <1>0, <1>4, <2>1, <2>2 DEF EstArbre, Sous
  <2>4. EstArbre(mem', root', [n \in {} |-> {}])
    BY <2>1, <2>3, ArbreVide
  <2>5. EstArbre(mem', root', Dessous')
    BY <2>4, DessousApres
  <2>6. AvTypeOK'
    BY <1>0, <1>1, <2>1, <2>3 DEF AvTypeOK
  <2> QED BY <1>1, <2>1, <2>3, <2>5, <2>6 DEF AvIInv, Chemin, Recherche, Hauteurs, Arguments
<1>6. CASE pile # <<>>
  <2>0. /\ l \in Nat \ {0} /\ p = pile[l] /\ p \in A /\ Front(pile) \in Seq(A) /\ l \in 1..l
        /\ Len(Front(pile)) = l - 1 /\ \A i \in 1..l - 1 : Front(pile)[i] = pile[i]
    BY <1>0, <1>6, Depiler
  <2>1. /\ mem' = IF AGauche(p) THEN [m EXCEPT ![p].left = NULL] ELSE [m EXCEPT ![p].right = NULL]
        /\ node' = p /\ pile' = Front(pile) /\ avPc' = "release"
        /\ root' = root /\ key' = key /\ value' = value
    BY <1>1, <1>6 DEF Retourner
  <2>2. \A i \in 1..l : pile[i] \in A \ {f}
    BY <1>0, <1>2 DEF Guide
  <2>3. p \in A \ {f}
    BY <2>0, <2>2
  <2>4. Enfant(p) = f
    BY <1>2, <2>0, EnfantSuite DEF Guide
  <2>5. /\ AGauche(p) => mem[p].left = f /\ mem[p].right # f
        /\ ~AGauche(p) => mem[p].right = f /\ mem[p].left # f
        /\ Fils(mem, p, f)
    <3>1. Fils(mem, p, f) /\ (AGauche(p) => mem[p].left = f) /\ (~AGauche(p) => mem[p].right = f)
      BY <2>4, EnfantSuite DEF Fils
    <3>2. (f = mem[p].left => f # mem[p].right) /\ (f = mem[p].right => f # mem[p].left)
      BY <1>0, <2>3, <3>1, Apart
    <3> QED BY <3>1, <3>2
  <2>6. f # root /\ \A n \in A : Fils(mem, n, f) => n = p
    BY <1>0, <2>3, <2>5, UnParent
  <2>7. m[p] \in [key : Cles, value : Valeurs, left : A \union {NULL},
                  right : A \union {NULL}, height : Nat]
    BY <1>0, <1>4, <2>3 DEF Formes
  <2>8. /\ DOMAIN mem' = A \ {f}
        /\ \A n \in A \ {f, p} : mem'[n] = mem[n]
        /\ \/ AGauche(p) /\ mem'[p] = [m[p] EXCEPT !.left = NULL]
           \/ ~AGauche(p) /\ mem'[p] = [m[p] EXCEPT !.right = NULL]
    BY <1>4, <2>1, <2>3
  <2>9. /\ mem'[p].key = mem[p].key /\ mem'[p].value = mem[p].value /\ mem'[p].height = mem[p].height
        /\ mem'[p].left = (IF mem[p].left = f THEN NULL ELSE mem[p].left)
        /\ mem'[p].right = (IF mem[p].right = f THEN NULL ELSE mem[p].right)
    BY <1>4, <2>3, <2>5, <2>7, <2>8
  <2>10. Coupe(mem, root, mem', root', f)
    <3>1. ASSUME NEW n \in A \ {f}
          PROVE  /\ mem'[n].key = mem[n].key
                 /\ mem'[n].left = IF mem[n].left = f THEN NULL ELSE mem[n].left
                 /\ mem'[n].right = IF mem[n].right = f THEN NULL ELSE mem[n].right
      <4>1. CASE n = p
        BY <2>9, <4>1
      <4>2. CASE n # p
        BY <2>6, <2>8, <4>2 DEF Fils
      <4> QED BY <4>1, <4>2
    <3> QED BY <1>0, <1>3, <2>1, <2>6, <2>8, <3>1 DEF Coupe
  <2>11. EstArbre(mem', root', S2)
    <3>1. /\ S2 \in [A \ {f} -> SUBSET (A \ {f})]
          /\ \A n \in A \ {f} : S2[n] = S[n] \ {f}
      BY <1>0
    <3>2. DessousCoupe(mem, S, f, S2)
      BY <3>1 DEF DessousCoupe
    <3> HIDE DEF S2
    <3> QED BY <1>0, <2>10, <3>2, Retrait
  <2>12. Dessous' = S2
    <3> HIDE DEF S2
    <3> QED BY <2>11, DessousApres
  <2>13. \A n, x \in A \ {f} : x \in S2[n] <=> x \in S[n]
    OBVIOUS
  <2> HIDE DEF S2
  <2>14. Formes(mem')
    <3>1. ASSUME NEW n \in A \ {f}
          PROVE  mem'[n].left \in (A \ {f}) \union {NULL} /\ mem'[n].right \in (A \ {f}) \union {NULL}
      BY <2>8, <2>11 DEF EstArbre
    <3>2. mem'[p] \in [key : Cles, value : Valeurs, left : (A \ {f}) \union {NULL},
                       right : (A \ {f}) \union {NULL}, height : Nat]
      <4>1. \/ mem'[p] = [m[p] EXCEPT !.left = NULL]
            \/ mem'[p] = [m[p] EXCEPT !.right = NULL]
        BY <2>8
      <4> QED BY <2>3, <2>7, <3>1, <4>1
    <3>3. ASSUME NEW n \in A \ {f, p}
          PROVE  mem'[n] \in [key : Cles, value : Valeurs, left : (A \ {f}) \union {NULL},
                              right : (A \ {f}) \union {NULL}, height : Nat]
      <4>1. mem[n] \in [key : Cles, value : Valeurs, left : A \union {NULL},
                        right : A \union {NULL}, height : Nat]
        BY <1>0 DEF Formes
      <4> QED BY <2>8, <3>1, <4>1
    <3> QED BY <2>3, <2>8, <3>2, <3>3 DEF Formes
  <2>15. AvTypeOK'
    <3>1. pile' \in Seq(A \ {f})
      <4>1. \A i \in 1..Len(Front(pile)) : Front(pile)[i] \in A \ {f}
        BY <2>0, <2>2
      <4> QED BY <2>0, <2>1, <4>1
    <3>2. root' \in (A \ {f}) \union {NULL} /\ node' \in A \ {f}
      BY <1>0, <2>1, <2>3, <2>6
    <3> QED BY <1>0, <1>1, <1>2, <2>1, <2>8, <2>14, <3>1, <3>2 DEF AvTypeOK, Formes
  <2>16. Chemin'
    <3>2. ASSUME NEW i \in 1..l - 1
          PROVE  Suite(mem', "release", key, pile[i]) = Suite(mem, avPc, key, pile[i])
      <4>1. i \in 1..l /\ i < l /\ pile[i] \in A \ {f}
        BY <2>0, <2>2
      <4>2. p \in S[pile[i]] /\ pile[i] \notin S[p]
        BY <1>2, <2>0, <4>1 DEF Guide
      <4>3. pile[i] # p
        BY <1>0, <2>0, <4>2 DEF EstArbre
      <4>4. mem'[pile[i]] = mem[pile[i]]
        BY <2>8, <4>1, <4>3
      <4> QED BY <1>1, <4>4 DEF Suite
    <3>3. \A i, j \in 1..l : pile[j] \in S2[pile[i]] <=> pile[j] \in S[pile[i]]
      BY <2>2, <2>13
    <3>4. Guide(mem', root, "release", key, Front(pile), Last(pile), S2)
      BY <1>0, <1>2, <1>6, <3>2, <3>3, GuideDepile
    <3>5. p # NULL
      BY <1>0, <2>0
    <3> QED BY <2>1, <2>12, <3>4, <3>5 DEF Chemin
  <2>17. EstArbre(mem', root', Dessous')
    BY <2>11, <2>12
  <2> QED BY <1>1, <1>2, <2>1, <2>15, <2>16, <2>17 DEF AvIInv, Recherche, Hauteurs, Arguments
<1> QED BY <1>5, <1>6

(* Each step keeps the invariant. *)
LEMMA AvPas == AvIInv /\ [AvNext]_avVars => AvIInv'
<1> SUFFICES ASSUME AvIInv, [AvNext]_avVars PROVE AvIInv'
  OBVIOUS
<1>1. ASSUME NEW k \in Cles, NEW v \in Valeurs, Appeler("insert", k, v) PROVE AvIInv'
  BY <1>1, PasAppeler
<1>2. ASSUME NEW k \in Cles, Appeler("get", k, NULL) PROVE AvIInv'
  BY <1>2, PasAppeler
<1>3. CASE root # NULL /\ Appeler("release", NULL, NULL)
  BY <1>3, PasAppeler
<1>4. CASE UNCHANGED avVars
  <2>1. /\ mem' = mem /\ root' = root /\ avPc' = avPc /\ pile' = pile /\ node' = node
        /\ key' = key /\ value' = value /\ retour' = retour
    BY <1>4 DEF avVars
  <2>2. Dessous' = Dessous /\ EstArbre(mem', root', Dessous')
    BY <2>1, MemeTas
  <2> QED BY <2>1, <2>2 DEF AvIInv, AvTypeOK, Chemin, Recherche, Hauteurs, Arguments
<1> QED BY <1>1, <1>2, <1>3, <1>4, PasDescendre, PasCreerFeuille, PasRemplacer, PasRemonter, PasAvorter,
           PasSuivre, PasRepondre, PasEntrer, PasLibererNoeud DEF AvNext

(* The inductive invariant. *)
THEOREM AvInvariant == AvSpec => []AvIInv
BY Depart, AvPas, PTL DEF AvSpec

(* Whatever the keys and the addresses malloc gives, no rotation and no    *)
(* step of release loses a node, or leads to one that is freed.            *)
THEOREM RienNeSePerd == AvSpec => []SansFuite
<1>1. AvIInv => SansFuite
  BY DEF AvIInv, EstArbre, SansFuite, SousArbre, Sous
<1> QED BY <1>1, AvInvariant, PTL

(* The tree is a search tree at every step, and is balanced, its stored    *)
(* heights exact, whenever no insert is on its way back.                   *)
THEOREM ToujoursAVL == AvSpec => []AVL
<1>1. AvIInv => AVL
  <2> SUFFICES ASSUME AvIInv PROVE AVL
    OBVIOUS
  <2>1. EstArbre(mem, root, Dessous)
    BY DEF AvIInv
  <2>2. AbrOrdonne
    BY <2>1 DEF EstArbre, AbrOrdonne, SousArbre, Sous
  <2>3. ASSUME avPc \notin {"remonte", "release"} PROVE Equilibre
    <3>1. \A n \in DOMAIN mem : Exact(mem, n) /\ mem[n].height \in Nat
      BY <2>3 DEF AvIInv, Hauteurs, AvTypeOK
    <3>2. \A n \in DOMAIN mem : ProfondeurDe(mem)[n] = mem[n].height
      BY <2>1, <3>1, ProfondeurUnique DEF Exact
    <3> QED BY <3>1, <3>2, DessousDeMem DEF Equilibre, Exact
  <2> QED BY <2>2, <2>3 DEF AVL
<1> QED BY <1>1, AvInvariant, PTL

(* What is found under each key. *)
LEMMA Trouve ==
  ASSUME NEW m, NEW r, NEW S, EstArbre(m, r, S), NEW n \in DOMAIN m
  PROVE  (CHOOSE x \in DOMAIN m : m[x].key = m[n].key) = n
<1> DEFINE c == CHOOSE x \in DOMAIN m : m[x].key = m[n].key
<1>1. c \in DOMAIN m /\ m[c].key = m[n].key
  OBVIOUS
<1> QED BY <1>1 DEF EstArbre

(* The dictionary maps a key to the value of its node. *)
LEMMA AssociesDe ==
  ASSUME AvIInv, avPc # "release", NEW k \in Cles
  PROVE  /\ \A n \in DOMAIN mem : mem[n].key = k => Associes[k] = mem[n].value
         /\ (\A n \in DOMAIN mem : mem[n].key # k) => Associes[k] = NULL
<1>1. ASSUME NEW n \in DOMAIN mem, mem[n].key = k PROVE Associes[k] = mem[n].value
  <2>1. (CHOOSE x \in DOMAIN mem : mem[x].key = k) = n
    BY <1>1, Trouve DEF AvIInv
  <2>2. Associes[k] = mem[CHOOSE x \in DOMAIN mem : mem[x].key = k].value
    BY <1>1 DEF Associes
  <2> QED BY <2>1, <2>2
<1>2. (\A n \in DOMAIN mem : mem[n].key # k) => Associes[k] = NULL
  BY DEF Associes
<1> QED BY <1>1, <1>2

(* So it does after a step. *)
LEMMA AssociesApres ==
  ASSUME AvIInv', avPc' # "release", NEW k \in Cles
  PROVE  /\ \A n \in DOMAIN mem' : mem'[n].key = k => Associes'[k] = mem'[n].value
         /\ (\A n \in DOMAIN mem' : mem'[n].key # k) => Associes'[k] = NULL
<1>1. ASSUME NEW n \in DOMAIN mem', mem'[n].key = k PROVE Associes'[k] = mem'[n].value
  <2>1. (CHOOSE x \in DOMAIN mem' : mem'[x].key = k) = n
    BY <1>1, Trouve DEF AvIInv
  <2>2. Associes'[k] = mem'[CHOOSE x \in DOMAIN mem' : mem'[x].key = k].value
    BY <1>1 DEF Associes
  <2> QED BY <2>1, <2>2
<1>2. (\A n \in DOMAIN mem' : mem'[n].key # k) => Associes'[k] = NULL
  BY DEF Associes
<1> QED BY <1>1, <1>2

(* The call that runs, as the dictionary sees it. *)
AppelDe(pc, k, v) ==
  [op    |-> IF pc = "repos" THEN "aucun"
             ELSE IF pc \in {"remonte", "release"} THEN "fait"
             ELSE pc,
   key   |-> k,
   value |-> v]

(* A call of insert returns, to main or to the call that made it. *)
LEMMA ApresFinInsert ==
  ASSUME NEW m, NEW n, FinInsert(m, n), avPc # "release"
  PROVE  /\ retour' = retour
         /\ \/ avPc' = "repos" /\ key' = NULL /\ value' = NULL
            \/ avPc' = "remonte" /\ key' = key /\ value' = value
BY DEF FinInsert, Retourner

(* The step at which insert takes effect. *)
LEMMA Insere ==
  ASSUME AvIInv, AvIInv', avPc = "insert",
         \E m, n : FinInsert(m, n),
         Associes' = [Associes EXCEPT ![key] = value]
  PROVE  Dico!Inserer
<1>1. /\ retour' = retour
      /\ \/ avPc' = "repos" /\ key' = NULL /\ value' = NULL
         \/ avPc' = "remonte" /\ key' = key /\ value' = value
  BY ApresFinInsert
<1> DEFINE a == AppelDe(avPc, key, value)
           b == AppelDe(avPc', key', value')
<1>2. a.op = "insert" /\ a.key = key /\ a.value = value
  BY DEF AppelDe
<1>3. b \in {[a EXCEPT !.op = "fait"], Dico!Aucun}
  BY <1>1 DEF AppelDe, Dico!Aucun
<1> QED BY <1>1, <1>2, <1>3 DEF Dico!Inserer, AppelDe

(* Each step is one of the dictionary, or changes nothing of it. *)
LEMMA PasDico == AvIInv /\ AvIInv' /\ [AvNext]_avVars => [Dico!Next]_(Dico!vars)
<1> SUFFICES ASSUME AvIInv, AvIInv', [AvNext]_avVars PROVE Dico!Next \/ UNCHANGED Dico!vars
  OBVIOUS
<1> DEFINE a == AppelDe(avPc, key, value)
           b == AppelDe(avPc', key', value')
<1>a. mem' = mem /\ avPc # "release" /\ avPc' # "release" => Associes' = Associes
  BY DEF Associes
<1>b. Associes = [k \in Cles |-> Associes[k]] /\ Associes' = [k \in Cles |-> Associes'[k]]
  BY DEF Associes
<1>c. avPc = "release" => Associes = Dico!Vide
  BY DEF Associes, Dico!Vide
<1>d. avPc' = "release" => Associes' = Dico!Vide
  BY DEF Associes, Dico!Vide
<1>e. (\E k \in Cles, v \in Valeurs : Appeler("insert", k, v) \/ Appeler("get", k, NULL)) => Dico!Next
  <2> SUFFICES ASSUME NEW k \in Cles, NEW v \in Valeurs, Appeler("insert", k, v) \/ Appeler("get", k, NULL)
               PROVE  Dico!Next
    OBVIOUS
  <2>1. /\ mem' = mem /\ avPc = "repos" /\ avPc' # "release" /\ retour' = NULL
        /\ key = NULL /\ value = NULL
        /\ \/ avPc' = "insert" /\ key' = k /\ value' = v
           \/ avPc' = "get" /\ key' = k /\ value' = NULL
    BY DEF Appeler, AvIInv, Arguments
  <2>2. a = Dico!Aucun
    BY <2>1 DEF AppelDe, Dico!Aucun
  <2>3. b \in {[op |-> "insert", key |-> k, value |-> v], [op |-> "get", key |-> k, value |-> NULL]}
    BY <2>1 DEF AppelDe
  <2> QED BY <1>a, <2>1, <2>2, <2>3 DEF AppelDe, Dico!Appeler, Dico!Next
<1>f. Appeler("release", NULL, NULL) => Dico!Next
  <2> SUFFICES ASSUME Appeler("release", NULL, NULL) PROVE Dico!Next
    OBVIOUS
  <2>1. /\ avPc = "repos" /\ avPc' = "release" /\ retour' = NULL
        /\ key = NULL /\ value = NULL /\ key' = NULL /\ value' = NULL
    BY DEF Appeler, AvIInv, Arguments
  <2>2. a = Dico!Aucun /\ b = [Dico!Aucun EXCEPT !.op = "fait"]
    BY <2>1 DEF AppelDe, Dico!Aucun
  <2> QED BY <1>d, <2>1, <2>2 DEF AppelDe, Dico!Oublier, Dico!Next
<1>g. CreerFeuille => Dico!Next
  <2> SUFFICES ASSUME CreerFeuille PROVE Dico!Next
    OBVIOUS
  <2>0. avPc = "insert" /\ (\E m, n : FinInsert(m, n)) /\ key \in Cles /\ avPc' # "release"
    BY PasCreerFeuille DEF CreerFeuille, AvIInv, AvTypeOK
  <2>1. PICK n \in DOMAIN mem' :
          /\ n \notin DOMAIN mem /\ DOMAIN mem' = DOMAIN mem \union {n}
          /\ mem'[n].key = key /\ mem'[n].value = value
          /\ \A x \in DOMAIN mem : mem'[x].key = mem[x].key /\ mem'[x].value = mem[x].value
    BY PasCreerFeuille
  <2>2. ASSUME NEW k \in Cles PROVE Associes'[k] = IF k = key THEN value ELSE Associes[k]
    <3>1. CASE k = key
      BY <2>0, <2>1, <3>1, AssociesApres
    <3>2. CASE k # key /\ \E x \in DOMAIN mem : mem[x].key = k
      <4>1. PICK x \in DOMAIN mem : mem[x].key = k
        BY <3>2
      <4>2. x \in DOMAIN mem' /\ mem'[x].key = k /\ mem'[x].value = mem[x].value
        BY <2>1, <4>1
      <4>3. Associes'[k] = mem'[x].value
        BY <2>0, <4>2, AssociesApres
      <4>4. Associes[k] = mem[x].value
        BY <2>0, <4>1, AssociesDe
      <4> QED BY <3>2, <4>2, <4>3, <4>4
    <3>3. CASE k # key /\ \A x \in DOMAIN mem : mem[x].key # k
      <4>1. \A x \in DOMAIN mem' : mem'[x].key # k
        BY <2>1, <3>3
      <4>2. Associes'[k] = NULL /\ Associes[k] = NULL
        BY <2>0, <3>3, <4>1, AssociesApres, AssociesDe
      <4> QED BY <3>3, <4>2
    <3> QED BY <3>1, <3>2, <3>3
  <2>3. Associes' = [Associes EXCEPT ![key] = value]
    BY <1>b, <2>2
  <2> QED BY <2>0, <2>3, Insere DEF Dico!Next
<1>h. Remplacer => Dico!Next
  <2> SUFFICES ASSUME Remplacer PROVE Dico!Next
    OBVIOUS
  <2>0. /\ avPc = "insert" /\ (\E m, n : FinInsert(m, n)) /\ key \in Cles /\ avPc' # "release"
        /\ node \in DOMAIN mem /\ mem[node].key = key
    BY PasRemplacer, Noeud DEF Remplacer, AvIInv, AvTypeOK
  <2>1. /\ DOMAIN mem' = DOMAIN mem
        /\ \A x \in DOMAIN mem : /\ mem'[x].key = mem[x].key
                                 /\ mem'[x].value = IF x = node THEN value ELSE mem[x].value
    BY PasRemplacer
  <2>2. ASSUME NEW k \in Cles PROVE Associes'[k] = IF k = key THEN value ELSE Associes[k]
    <3>1. CASE k = key
      BY <2>0, <2>1, <3>1, AssociesApres
    <3>2. CASE k # key /\ \E x \in DOMAIN mem : mem[x].key = k
      <4>1. PICK x \in DOMAIN mem : mem[x].key = k
        BY <3>2
      <4>2. x \in DOMAIN mem' /\ mem'[x].key = k /\ mem'[x].value = mem[x].value
        BY <2>0, <2>1, <3>2, <4>1
      <4>3. Associes'[k] = mem'[x].value
        BY <2>0, <4>2, AssociesApres
      <4>4. Associes[k] = mem[x].value
        BY <2>0, <4>1, AssociesDe
      <4> QED BY <3>2, <4>2, <4>3, <4>4
    <3>3. CASE k # key /\ \A x \in DOMAIN mem : mem[x].key # k
      <4>1. \A x \in DOMAIN mem' : mem'[x].key # k
        BY <2>1, <3>3
      <4>2. Associes'[k] = NULL /\ Associes[k] = NULL
        BY <2>0, <3>3, <4>1, AssociesApres, AssociesDe
      <4> QED BY <3>3, <4>2
    <3> QED BY <3>1, <3>2, <3>3
  <2>3. Associes' = [Associes EXCEPT ![key] = value]
    BY <1>b, <2>2
  <2> QED BY <2>0, <2>3, Insere DEF Dico!Next
<1>i. Remonter => Dico!Next \/ UNCHANGED Dico!vars
  <2> SUFFICES ASSUME Remonter PROVE Dico!Next \/ UNCHANGED Dico!vars
    OBVIOUS
  <2>1. /\ avPc = "remonte" /\ retour' = retour
        /\ \/ avPc' = "repos" /\ key' = NULL /\ value' = NULL
           \/ avPc' = "remonte" /\ key' = key /\ value' = value
    BY ApresFinInsert DEF Remonter
  <2>2. /\ DOMAIN mem' = DOMAIN mem
        /\ \A x \in DOMAIN mem : mem'[x].key = mem[x].key /\ mem'[x].value = mem[x].value
    BY PasRemonter
  <2>3. ASSUME NEW k \in Cles PROVE Associes'[k] = Associes[k]
    <3>1. CASE \E x \in DOMAIN mem : mem[x].key = k
      <4>1. PICK x \in DOMAIN mem : mem[x].key = k
        BY <3>1
      <4>2. x \in DOMAIN mem' /\ mem'[x].key = k /\ mem'[x].value = mem[x].value
        BY <2>2, <4>1
      <4>3. Associes'[k] = mem'[x].value
        BY <2>1, <4>2, AssociesApres
      <4>4. Associes[k] = mem[x].value
        BY <2>1, <4>1, AssociesDe
      <4> QED BY <4>2, <4>3, <4>4
    <3>2. CASE \A x \in DOMAIN mem : mem[x].key # k
      BY <2>1, <2>2, <3>2, AssociesApres, AssociesDe
    <3> QED BY <3>1, <3>2
  <2>4. Associes' = Associes
    BY <1>b, <2>3
  <2>5. CASE avPc' = "repos"
    <3>1. a.op = "fait" /\ b = Dico!Aucun
      BY <2>1, <2>5 DEF AppelDe, Dico!Aucun
    <3> QED BY <2>1, <2>4, <3>1 DEF AppelDe, Dico!Revenir, Dico!Next
  <2>6. CASE avPc' = "remonte"
    BY <2>1, <2>4, <2>6 DEF Dico!vars
  <2> QED BY <2>1, <2>5, <2>6
<1>j. Avorter => Dico!Next
  <2> SUFFICES ASSUME Avorter PROVE Dico!Next
    OBVIOUS
  <2>1. /\ mem' = mem /\ avPc = "insert" /\ avPc' = "avorte" /\ retour' = retour
        /\ key' = key /\ value' = value
    BY DEF Avorter
  <2>2. a.op = "insert" /\ b = [a EXCEPT !.op = "avorte"]
    BY <2>1 DEF AppelDe
  <2> QED BY <1>a, <2>1, <2>2 DEF AppelDe, Dico!Avorter, Dico!Next
<1>k. Repondre => Dico!Next
  <2> SUFFICES ASSUME Repondre PROVE Dico!Next
    OBVIOUS
  <2>1. /\ mem' = mem /\ avPc = "get" /\ avPc' = "repos" /\ value' = value /\ key' = NULL
        /\ key \in Cles /\ value = NULL
    BY DEF Repondre, AvIInv, AvTypeOK, Arguments
  <2>2. retour' = Associes[key]
    <3>1. CASE node = NULL /\ retour' = NULL
      <4>1. \A n \in DOMAIN mem : mem[n].key # key
        BY <2>1, <3>1 DEF AvIInv, Recherche, Sous
      <4> QED BY <2>1, <3>1, <4>1, AssociesDe
    <3>2. CASE node # NULL /\ key = mem[node].key /\ retour' = mem[node].value
      BY <2>1, <3>2, Noeud, AssociesDe
    <3>3. CASE node # NULL /\ key # mem[node].key /\ Enfant(node) = NULL /\ retour' = NULL
      <4>1. \A n \in DOMAIN mem : mem[n].key # key
        BY <2>1, <3>3, Cherche DEF Sous
      <4> QED BY <2>1, <3>3, <4>1, AssociesDe
    <3> QED BY <3>1, <3>2, <3>3 DEF Repondre
  <2>3. a.op = "get" /\ a.key = key /\ b = Dico!Aucun
    BY <2>1 DEF AppelDe, Dico!Aucun
  <2> QED BY <1>a, <2>1, <2>2, <2>3 DEF AppelDe, Dico!Repondre, Dico!Next
<1>l. LibererNoeud => Dico!Next \/ UNCHANGED Dico!vars
  <2> SUFFICES ASSUME LibererNoeud PROVE Dico!Next \/ UNCHANGED Dico!vars
    OBVIOUS
  <2>1. /\ avPc = "release" /\ retour' = retour /\ key = NULL /\ value = NULL
        /\ (avPc' = "release" \/ (avPc' = "repos" /\ DOMAIN mem' = {}))
        /\ key' = NULL /\ value' = NULL
    BY PasLibererNoeud DEF LibererNoeud, AvIInv, Arguments
  <2>2. CASE avPc' = "release"
    BY <1>c, <1>d, <2>1, <2>2 DEF Dico!vars
  <2>3. CASE avPc' = "repos" /\ DOMAIN mem' = {}
    <3>1. Associes' = Dico!Vide
      BY <2>3 DEF Associes, Dico!Vide
    <3>2. a.op = "fait" /\ b = Dico!Aucun
      BY <2>1, <2>3 DEF AppelDe, Dico!Aucun
    <3> QED BY <1>c, <2>1, <3>1, <3>2 DEF AppelDe, Dico!Revenir, Dico!Next
  <2> QED BY <2>1, <2>2, <2>3
<1>m. Descendre \/ Suivre \/ Entrer \/ UNCHANGED avVars => UNCHANGED Dico!vars
  <2> SUFFICES ASSUME Descendre \/ Suivre \/ Entrer \/ UNCHANGED avVars PROVE UNCHANGED Dico!vars
    OBVIOUS
  <2>1. /\ mem' = mem /\ avPc' = avPc /\ key' = key /\ value' = value /\ retour' = retour
    BY DEF Descendre, Suivre, Entrer, avVars
  <2>2. Associes' = Associes
    BY <2>1 DEF Associes
  <2> QED BY <2>1, <2>2 DEF Dico!vars
<1> QED BY <1>e, <1>f, <1>g, <1>h, <1>i, <1>j, <1>k, <1>l, <1>m DEF AvNext

(* For any keys and values, in any order of calls, the tree is the         *)
(* dictionary of Dictionnaire: get answers what was last inserted.         *)
THEOREM Fidele == AvSpec => DicoSpec
<1>1. AvInit => Dico!Init
  <2> SUFFICES ASSUME AvInit PROVE Dico!Init
    OBVIOUS
  <2>1. Associes = Dico!Vide
    BY DEF AvInit, Associes, Dico!Vide
  <2>2. AppelDe(avPc, key, value) = Dico!Aucun
    BY DEF AvInit, AppelDe, Dico!Aucun
  <2> QED BY <2>1, <2>2 DEF AvInit, AppelDe, Dico!Init
<1> QED BY <1>1, PasDico, AvInvariant, PTL DEF AvSpec, DicoSpec, Dico!Spec

=============================================================================
