-------------------------- MODULE FramedPipeProofs --------------------------
(***************************************************************************)
(* The frames of tube_416.c, for every pool, every number and length of    *)
(* requests, and every capacity of the pipe: the two reads of a handler    *)
(* take the two writes of one message, and the server distributes.         *)
(***************************************************************************)
EXTENDS FramedPipe, FiniteSetTheorems, SequenceTheorems, TLAPS

Places == {"attend", "longueur", "corps", "libere", "teste", "fini"}

SousVerrou == {t \in Traiteurs : tpc[t] \in {"longueur", "corps", "libere"}}

Exclusion == mutex = SousVerrou /\ \A t, u \in SousVerrou : t = u

Morceaux == [corps : BOOLEAN, m : 1..Total, octets : Nat, lng : Nat]

(* The body that is being written in pieces is the last in the pipe. *)
EnCours(i) == i = Len(tube) /\ dpc = "corps" /\ reste < dlng

(* Lengths and bodies alternate, each body after its own length. *)
Alternes == \A i \in 1..Len(tube) - 1 :
  IF tube[i].corps THEN ~tube[i + 1].corps /\ tube[i + 1].m = tube[i].m + 1
  ELSE tube[i + 1].corps /\ tube[i + 1].m = tube[i].m /\ tube[i + 1].lng = tube[i].lng

(* Only the body in progress is not there in full. *)
Entiers == \A i \in 1..Len(tube) : tube[i].corps /\ ~EnCours(i) =>
  tube[i].m <= sent /\ tube[i].octets = tube[i].lng

(* What comes first in the pipe is what the handlers are to read... *)
Tete == tube # <<>> =>
  /\ tube[1].m = taken + 1
  /\ tube[1].corps <=> \E t \in Traiteurs : tpc[t] = "corps"
  /\ \A t \in Traiteurs : tpc[t] = "corps" => tube[1].lng = tlng[t]

(* ... and what comes last what the distributor has written. *)
Queue == LET d == tube[Len(tube)] IN
  IF dpc # "corps"
  THEN IF tube = <<>> THEN taken = sent /\ \A t \in Traiteurs : tpc[t] # "corps"
                      ELSE d.corps /\ d.m = sent
  ELSE IF reste = dlng
  THEN IF tube = <<>> THEN taken = sent /\ \E t \in Traiteurs : tpc[t] = "corps" /\ tlng[t] = dlng
                      ELSE ~d.corps /\ d.m = sent + 1 /\ d.lng = dlng
  ELSE tube # <<>> /\ d.corps /\ d.m = sent + 1 /\ d.lng = dlng /\ d.octets = dlng - reste

Trames == Alternes /\ Entiers /\ Tete /\ Queue

(* A write is split only if it is longer than PIPE_BUF. *)
Ecriture ==
  /\ dpc \in {"longueur", "corps"} => sent < Total /\ dlng > 0
  /\ IF dpc = "corps" THEN reste > 0 /\ (dlng <= TailleMax => reste = dlng) ELSE reste = 0

(* The ranks that the refinement mapping gives. *)
Rangs == \A t \in Traiteurs : tpc[t] \in {"libere", "teste", "fini"} =>
  treq[t] # 0 /\ (tpc[t] = "fini" => ~EstRequete(treq[t]))

IInv ==
  /\ TypeOK /\ Exclusion /\ Trames /\ Ecriture /\ Rangs
  /\ ~vivant => \E t \in Traiteurs : tlng[t] > TailleMax

-----------------------------------------------------------------------------
(* The types every step starts from. *)
LEMMA Bornes ==
  ASSUME TypeOK
  PROVE  /\ N \in Nat /\ NbReq \in Nat /\ Total = NbReq + N /\ Total \in Nat
         /\ TailleMax \in Nat /\ SizeofInt \in Nat /\ SizeofInt > 0
         /\ \A l \in Longueurs : l \in Nat
         /\ sent \in Nat /\ taken \in Nat /\ sent <= Total /\ libre \in Nat
         /\ dlng \in Nat /\ reste \in Nat /\ reste <= dlng
         /\ Len(tube) \in Nat /\ (tube = <<>> <=> Len(tube) = 0)
         /\ \A i \in 1..Len(tube) :
              /\ tube[i] \in Morceaux
              /\ tube[i].corps \in BOOLEAN /\ tube[i].m \in Nat /\ tube[i].m \in 1..Total
              /\ tube[i].octets \in Nat /\ tube[i].lng \in Nat
         /\ tpc \in [Traiteurs -> Places] /\ tlng \in [Traiteurs -> Nat]
<1>1. N \in Nat
  BY FramedPipeAssumption, FS_CardinalityType DEF N
<1>2. NbReq \in Nat /\ TailleMax \in Nat /\ SizeofInt \in Nat /\ SizeofInt > 0 /\ \A l \in Longueurs : l \in Nat
  BY FramedPipeAssumption
<1>3. sent \in Nat /\ sent <= Total /\ Total \in Nat /\ Total = NbReq + N
  BY <1>1, <1>2 DEF TypeOK, Total
<1>4. tube \in Seq(Morceaux)
  BY DEF TypeOK, Morceaux
<1>5. \A i \in 1..Len(tube) : tube[i] \in Morceaux
  BY <1>4
<1>6. \A i \in 1..Len(tube) : /\ tube[i].corps \in BOOLEAN /\ tube[i].m \in Nat /\ tube[i].m \in 1..Total
                              /\ tube[i].octets \in Nat /\ tube[i].lng \in Nat
  BY <1>3, <1>5 DEF Morceaux
<1>7. Len(tube) \in Nat /\ (tube = <<>> <=> Len(tube) = 0)
  BY <1>4, EmptySeq
<1>8. /\ taken \in Nat /\ libre \in Nat /\ dlng \in Nat /\ reste \in Nat /\ reste <= dlng
      /\ tpc \in [Traiteurs -> Places] /\ tlng \in [Traiteurs -> Nat]
  BY DEF TypeOK, Places
<1> QED BY <1>1, <1>2, <1>3, <1>5, <1>6, <1>7, <1>8

LEMMA Initialisation == Init => IInv
<1> SUFFICES ASSUME Init PROVE IInv
  OBVIOUS
<1>1. N \in Nat /\ Total \in Nat
  BY FramedPipeAssumption, FS_CardinalityType DEF N, Total
<1>2. tube = <<>> /\ Len(tube) = 0
  BY EmptySeq DEF Init
<1>3. TypeOK
  BY <1>1, <1>2, FramedPipeAssumption, EmptySeq DEF Init, TypeOK
<1>4. Exclusion /\ Ecriture /\ Rangs
  BY DEF Init, Exclusion, SousVerrou, Ecriture, Rangs
<1>5. Trames
  BY <1>2 DEF Init, Trames, Alternes, Entiers, Tete, Queue
<1> QED BY <1>3, <1>4, <1>5 DEF Init, IInv

(* What is in the pipe does not depend on the handlers but on which reads. *)
LEMMA Immobile ==
  ASSUME Trames, UNCHANGED <<tube, dpc, dlng, reste, sent, taken, tlng>>,
         \A u \in Traiteurs : tpc'[u] = "corps" <=> tpc[u] = "corps"
  PROVE  Trames'
BY DEF Trames, Alternes, Entiers, Tete, Queue, EnCours

(* Requests are received, and the threads joined. *)
LEMMA PasHorsTube == ASSUME IInv, Recevoir \/ Joindre PROVE IInv'
<1> USE DEF IInv
<1>1. /\ dpc = "recoit" /\ dpc' \in {"longueur", "termine"} /\ reste = 0
      /\ UNCHANGED <<tube, libre, mutex, reste, sent, tpc, tlng, treq, taken, treated, vivant>>
  BY DEF Recevoir, Joindre, Ecriture
<1>2. dlng' \in Nat /\ (dpc' = "longueur" => dlng' > 0 /\ sent < Total)
  <2>1. CASE Recevoir
    BY <2>1, Bornes DEF Recevoir
  <2>2. CASE Joindre
    BY <2>2, Bornes DEF Joindre
  <2> QED BY <2>1, <2>2
<1>3. TypeOK'
  <2>1. reste' \in 0..dlng'
    BY <1>1, <1>2
  <2> QED BY <1>1, <1>2, <2>1 DEF TypeOK, Total, N
<1>4. Trames'
  BY <1>1 DEF Trames, Alternes, Entiers, Tete, Queue, EnCours
<1>5. Exclusion' /\ Ecriture' /\ Rangs'
  BY <1>1, <1>2 DEF Exclusion, SousVerrou, Ecriture, Rangs, EstRequete, Total, N
<1> QED BY <1>1, <1>3, <1>4, <1>5

(* The length of the next message comes after the bodies of the others.    *)
LEMMA PasLongueur == ASSUME IInv, EcrireLongueur PROVE IInv'
<1> USE DEF IInv
<1> DEFINE L == Len(tube)
           e == [corps |-> FALSE, m |-> sent + 1, octets |-> SizeofInt, lng |-> dlng]
<1>1. /\ dpc = "longueur" /\ SizeofInt <= libre /\ tube' = Append(tube, e) /\ libre' = libre - SizeofInt
      /\ reste' = dlng /\ dpc' = "corps"
      /\ UNCHANGED <<mutex, dlng, sent, tpc, tlng, treq, taken, treated, vivant>>
  BY DEF EcrireLongueur
<1>2. /\ L \in Nat /\ dlng \in Nat /\ sent \in Nat /\ SizeofInt \in Nat /\ libre \in Nat
      /\ sent < Total /\ dlng > 0 /\ Total \in Nat /\ tube \in Seq(Morceaux)
      /\ (tube = <<>> <=> L = 0)
  BY <1>1, Bornes DEF Ecriture, TypeOK, Morceaux
<1>3. e \in Morceaux /\ ~e.corps /\ e.m = sent + 1 /\ e.lng = dlng
  BY <1>2 DEF Morceaux
<1> HIDE DEF e
<1>4. /\ tube' \in Seq(Morceaux) /\ Len(tube') = L + 1 /\ tube' # <<>>
      /\ \A i \in 1..L : tube'[i] = tube[i]
      /\ tube'[L + 1] = e
  BY <1>1, <1>2, <1>3, AppendProperties
<1>5. TypeOK'
  <2>1. libre' \in Nat /\ reste' \in 0..dlng'
    BY <1>1, <1>2
  <2> QED BY <1>1, <1>4, <2>1 DEF TypeOK, Morceaux, Total, N
<1>6. Alternes'
  <2> SUFFICES ASSUME NEW i \in 1..L
               PROVE  IF tube'[i].corps THEN ~tube'[i + 1].corps /\ tube'[i + 1].m = tube'[i].m + 1
                      ELSE tube'[i + 1].corps /\ tube'[i + 1].m = tube'[i].m /\ tube'[i + 1].lng = tube'[i].lng
    BY <1>2, <1>4 DEF Alternes
  <2>1. CASE i = L
    BY <1>1, <1>2, <1>3, <1>4, <2>1 DEF Trames, Queue
  <2>2. CASE i # L
    <3>1. i \in 1..L - 1 /\ i + 1 \in 1..L
      BY <1>2, <2>2
    <3> QED BY <1>4, <3>1 DEF Trames, Alternes
  <2> QED BY <2>1, <2>2
<1>7. Entiers'
  <2> SUFFICES ASSUME NEW i \in 1..L + 1, tube'[i].corps
               PROVE  tube'[i].m <= sent /\ tube'[i].octets = tube'[i].lng
    BY <1>1, <1>4 DEF Entiers
  <2>1. i # L + 1
    BY <1>3, <1>4
  <2>2. i \in 1..L
    BY <1>2, <2>1
  <2> QED BY <1>1, <1>4, <2>2 DEF Trames, Entiers, EnCours
<1>8. Tete'
  <2>1. CASE L = 0
    BY <1>1, <1>2, <1>3, <1>4, <2>1 DEF Trames, Queue, Tete
  <2>2. CASE L # 0
    <3>1. 1 \in 1..L /\ tube'[1] = tube[1]
      BY <1>2, <1>4, <2>2
    <3> QED BY <1>1, <1>2, <2>2, <3>1 DEF Trames, Tete
  <2> QED BY <2>1, <2>2
<1>9. Queue'
  BY <1>1, <1>3, <1>4 DEF Queue
<1>10. Exclusion' /\ Ecriture' /\ Rangs'
  BY <1>1, <1>2 DEF Exclusion, SousVerrou, Ecriture, Rangs, EstRequete, Total, N
<1> QED BY <1>1, <1>5, <1>6, <1>7, <1>8, <1>9, <1>10 DEF Trames

(* The body follows its length, at once or piece by piece. *)
LEMMA PasCorps == ASSUME IInv, EcrireCorps PROVE IInv'
<1> USE DEF IInv
<1> DEFINE L == Len(tube)
<1>1. PICK k \in {reste, libre} \ {0} :
        /\ k <= libre /\ k <= reste
        /\ dlng <= TailleMax => k = dlng
        /\ Arrive(k)
        /\ reste' = reste - k
        /\ IF k = reste THEN sent' = sent + 1 /\ dpc' = "recoit" ELSE UNCHANGED <<sent, dpc>>
  BY DEF EcrireCorps
<1>2. dpc = "corps" /\ UNCHANGED <<mutex, dlng, tpc, tlng, treq, taken, treated, vivant>>
  BY DEF EcrireCorps
<1>3. /\ L \in Nat /\ dlng \in Nat /\ sent \in Nat /\ libre \in Nat /\ reste \in Nat /\ reste <= dlng
      /\ sent < Total /\ dlng > 0 /\ reste > 0 /\ Total \in Nat /\ tube \in Seq(Morceaux)
      /\ (tube = <<>> <=> L = 0) /\ TailleMax \in Nat
      /\ \A i \in 1..L : tube[i] \in Morceaux
  BY <1>2, Bornes DEF Ecriture, TypeOK, Morceaux
<1>4. k \in Nat /\ k > 0 /\ reste' \in Nat /\ libre' = libre - k /\ libre' \in Nat /\ reste' < dlng
  BY <1>1, <1>3 DEF Arrive
\* the body that is in the pipe after the write
<1>5. /\ tube' \in Seq(Morceaux) /\ Len(tube') \in Nat /\ Len(tube') > 0 /\ tube' # <<>>
      /\ Len(tube') = IF reste = dlng THEN L + 1 ELSE L
      /\ \A i \in 1..Len(tube') - 1 : i \in 1..L /\ tube'[i] = tube[i] /\ (reste # dlng => i < L)
  <2>1. CASE reste = dlng
    <3> DEFINE e == [corps |-> TRUE, m |-> sent + 1, octets |-> k, lng |-> dlng]
    <3>1. e \in Morceaux
      BY <1>3, <1>4 DEF Morceaux
    <3>2. tube' = Append(tube, e)
      BY <1>1, <1>3, <2>1 DEF Arrive
    <3> HIDE DEF e
    <3>3. /\ tube' \in Seq(Morceaux) /\ Len(tube') = L + 1 /\ tube' # <<>>
          /\ \A i \in 1..L : tube'[i] = tube[i]
      BY <1>3, <3>1, <3>2, AppendProperties
    <3> QED BY <1>3, <2>1, <3>3
  <2>2. CASE reste # dlng
    <3> DEFINE e == [tube[L] EXCEPT !.octets = @ + k]
    <3>1. tube # <<>> /\ L \in 1..L
      BY <1>2, <1>3, <2>2 DEF Trames, Queue
    <3>2. tube' = [tube EXCEPT ![L] = e]
      BY <1>1, <1>3, <2>2, <3>1 DEF Arrive
    <3>3. e \in Morceaux
      <4>1. tube[L] \in Morceaux
        BY <1>3, <3>1
      <4>2. tube[L].octets + k \in Nat
        BY <1>4, <4>1 DEF Morceaux
      <4> QED BY <4>1, <4>2 DEF Morceaux
    <3> HIDE DEF e
    <3>4. /\ tube' \in Seq(Morceaux) /\ Len(tube') = L
          /\ \A i \in 1..L : tube'[i] = IF i = L THEN e ELSE tube[i]
      BY <1>3, <3>1, <3>2, <3>3, ExceptSeq
    <3>5. tube' # <<>>
      BY <3>1, <3>4, <1>3, EmptySeq
    <3> QED BY <1>3, <2>2, <3>1, <3>4, <3>5
  <2> QED BY <2>1, <2>2
<1>6. LET d == tube'[Len(tube')] IN d.corps /\ d.m = sent + 1 /\ d.lng = dlng /\ d.octets = dlng - reste'
  <2>1. CASE reste = dlng
    <3> DEFINE e == [corps |-> TRUE, m |-> sent + 1, octets |-> k, lng |-> dlng]
    <3>1. tube' = Append(tube, e)
      BY <1>1, <1>3, <2>1 DEF Arrive
    <3>2. e \in Morceaux
      BY <1>3, <1>4 DEF Morceaux
    <3>3. e.corps /\ e.m = sent + 1 /\ e.lng = dlng /\ e.octets = k
      OBVIOUS
    <3> HIDE DEF e
    <3>4. tube'[L + 1] = e
      BY <1>3, <3>1, <3>2, AppendProperties
    <3>5. k = dlng - reste'
      BY <1>1, <1>3, <1>4, <2>1
    <3> QED BY <1>5, <2>1, <3>3, <3>4, <3>5
  <2>2. CASE reste # dlng
    <3> DEFINE d == tube[L]
               e == [d EXCEPT !.octets = @ + k]
    <3>1. /\ tube # <<>> /\ L \in 1..L
          /\ d.corps /\ d.m = sent + 1 /\ d.lng = dlng /\ d.octets = dlng - reste
      BY <1>2, <1>3, <2>2 DEF Trames, Queue
    <3>2. d \in Morceaux
      BY <1>3, <3>1
    <3>3. tube' = [tube EXCEPT ![L] = e]
      BY <1>1, <1>3, <2>2, <3>1 DEF Arrive
    <3>4. tube'[L] = e
      BY <1>3, <3>1, <3>3
    <3> HIDE DEF d
    <3>5. e.corps /\ e.m = sent + 1 /\ e.lng = dlng /\ e.octets = d.octets + k
      BY <3>1, <3>2 DEF Morceaux
    <3>6. d.octets + k = dlng - reste'
      BY <1>1, <1>3, <1>4, <3>1
    <3> QED BY <1>5, <2>2, <3>4, <3>5, <3>6
  <2> QED BY <2>1, <2>2
<1>7. sent' \in Nat /\ sent' <= Total /\ dpc' \in {"corps", "recoit"}
      /\ (dpc' = "corps" => sent' = sent /\ reste' > 0) /\ (dpc' = "recoit" => sent' = sent + 1 /\ reste' = 0)
  BY <1>1, <1>2, <1>3, <1>4
<1>8. TypeOK'
  <2>1. sent' \in 0..Total /\ reste' \in 0..dlng'
    BY <1>2, <1>3, <1>4, <1>7
  <2> QED BY <1>2, <1>4, <1>5, <1>7, <2>1 DEF TypeOK, Morceaux, Total, N
<1>9. Alternes'
  <2> SUFFICES ASSUME NEW i \in 1..Len(tube') - 1
               PROVE  IF tube'[i].corps THEN ~tube'[i + 1].corps /\ tube'[i + 1].m = tube'[i].m + 1
                      ELSE tube'[i + 1].corps /\ tube'[i + 1].m = tube'[i].m /\ tube'[i + 1].lng = tube'[i].lng
    BY DEF Alternes
  <2>0. i \in 1..L /\ tube'[i] = tube[i]
    BY <1>5
  <2>1. CASE i + 1 = Len(tube') /\ reste = dlng
    <3>1. i = L /\ tube # <<>>
      BY <1>3, <1>5, <2>0, <2>1
    <3>2. ~tube[L].corps /\ tube[L].m = sent + 1 /\ tube[L].lng = dlng
      BY <1>2, <2>1, <3>1 DEF Trames, Queue
    <3> QED BY <1>6, <2>0, <2>1, <3>1, <3>2
  <2>2. CASE i + 1 = Len(tube') /\ reste # dlng
    <3>1. i + 1 = L /\ i \in 1..L - 1
      BY <1>3, <1>5, <2>0, <2>2
    <3>2. tube[L].corps /\ tube[L].m = sent + 1 /\ tube[L].lng = dlng
      BY <1>2, <2>2 DEF Trames, Queue
    <3> QED BY <1>6, <2>0, <2>2, <3>1, <3>2 DEF Trames, Alternes
  <2>3. CASE i + 1 # Len(tube')
    <3>1. i + 1 \in 1..Len(tube') - 1
      BY <1>5, <2>3
    <3>2. i + 1 \in 1..L /\ tube'[i + 1] = tube[i + 1] /\ i \in 1..L - 1
      BY <1>3, <1>5, <3>1
    <3> QED BY <2>0, <3>2 DEF Trames, Alternes
  <2> QED BY <2>1, <2>2, <2>3
<1>10. Entiers'
  <2> SUFFICES ASSUME NEW i \in 1..Len(tube'), tube'[i].corps, ~EnCours(i)'
               PROVE  tube'[i].m <= sent' /\ tube'[i].octets = tube'[i].lng
    BY DEF Entiers
  <2>1. CASE i = Len(tube')
    <3>1. dpc' # "corps"
      BY <1>2, <1>4, <2>1 DEF EnCours
    <3> QED BY <1>3, <1>6, <1>7, <2>1, <3>1
  <2>2. CASE i # Len(tube')
    <3>1. i \in 1..L /\ tube'[i] = tube[i] /\ (reste # dlng => i < L)
      BY <1>5, <2>2
    <3>2. ~EnCours(i)
      BY <1>3, <3>1 DEF EnCours
    <3>3. tube[i].m <= sent /\ tube[i].octets = tube[i].lng
      BY <3>1, <3>2 DEF Trames, Entiers
    <3>4. tube[i].m \in Nat
      BY <3>1, Bornes
    <3> QED BY <1>3, <1>7, <3>1, <3>3, <3>4
  <2> QED BY <2>1, <2>2
<1>11. Tete'
  <2>1. CASE Len(tube') = 1 /\ reste = dlng
    <3>1. tube = <<>>
      BY <1>3, <1>5, <2>1
    <3>2. taken = sent /\ \E t \in Traiteurs : tpc[t] = "corps" /\ tlng[t] = dlng
      BY <1>2, <2>1, <3>1 DEF Trames, Queue
    <3>3. \A t \in Traiteurs : tpc[t] = "corps" => tlng[t] = dlng
      BY <3>2 DEF Exclusion, SousVerrou
    <3> QED BY <1>2, <1>6, <2>1, <3>2, <3>3 DEF Tete
  <2>2. CASE Len(tube') = 1 /\ reste # dlng
    <3>1. L = 1 /\ tube # <<>>
      <4>1. L = 1
        BY <1>5, <2>2
      <4>2. tube = <<>> => L = 0
        BY <1>3
      <4> QED BY <4>1, <4>2
    <3>2. tube[1].corps /\ tube[1].m = sent + 1 /\ tube[1].lng = dlng
      BY <1>2, <2>2, <3>1 DEF Trames, Queue
    <3> QED BY <1>2, <1>6, <2>2, <3>1, <3>2 DEF Trames, Tete
  <2>3. CASE Len(tube') # 1
    <3>1. tube'[1] = tube[1] /\ tube # <<>>
      <4>0. Len(tube') \in Nat /\ Len(tube') > 0 /\ L \in Nat /\ (tube = <<>> => L = 0)
        BY <1>3, <1>5
      <4>1. 1 \in 1..Len(tube') - 1
        BY ONLY <4>0, <2>3
      <4>2. 1 \in 1..L /\ tube'[1] = tube[1]
        BY <1>5, <4>1
      <4>3. L # 0
        BY ONLY <4>0, <4>2
      <4> QED BY <4>0, <4>2, <4>3
    <3> QED BY <1>2, <3>1 DEF Trames, Tete
  <2> QED BY <2>1, <2>2, <2>3
<1>12. Queue'
  BY <1>2, <1>4, <1>5, <1>6, <1>7 DEF Queue
<1>13. Ecriture'
  <2>1. CASE dpc' = "corps"
    <3>1. k # reste
      BY <1>1, <2>1
    <3>2. dlng > TailleMax
      BY <1>1, <1>2, <1>3, <3>1 DEF Ecriture
    <3> QED BY <1>2, <1>3, <1>7, <2>1, <3>2 DEF Ecriture, Total, N
  <2>2. CASE dpc' = "recoit"
    BY <1>7, <2>2 DEF Ecriture
  <2> QED BY <1>7, <2>1, <2>2
<1>14. Exclusion' /\ Rangs'
  BY <1>2 DEF Exclusion, SousVerrou, Rangs, EstRequete
<1> QED BY <1>2, <1>8, <1>9, <1>10, <1>11, <1>12, <1>13, <1>14 DEF Trames

(* What a read finds, and what it leaves. *)
LEMMA Lecture ==
  ASSUME TypeOK, tube # <<>>
  PROVE  /\ Len(tube) \in Nat /\ Len(tube) > 0 /\ 1 \in 1..Len(tube) /\ Head(tube) = tube[1]
         /\ tube[1] \in Morceaux
         /\ Tail(tube) \in Seq(Morceaux) /\ Len(Tail(tube)) = Len(tube) - 1
         /\ (Tail(tube) = <<>> <=> Len(tube) = 1)
         /\ \A i \in 1..Len(tube) - 1 : i + 1 \in 1..Len(tube) /\ Tail(tube)[i] = tube[i + 1]
<1>1. tube \in Seq(Morceaux)
  BY DEF TypeOK, Morceaux
<1>2. Len(tube) \in Nat /\ Len(tube) # 0
  BY <1>1, EmptySeq
<1>3. /\ Tail(tube) \in Seq(Morceaux) /\ Len(Tail(tube)) = Len(tube) - 1
      /\ \A i \in 1..Len(Tail(tube)) : Tail(tube)[i] = tube[i + 1]
  BY <1>1, HeadTailProperties
<1>4. Tail(tube) = <<>> <=> Len(tube) = 1
  <2>1. Tail(tube) = <<>> <=> Len(Tail(tube)) = 0
    BY <1>3, EmptySeq
  <2> QED BY <1>2, <1>3, <2>1
<1>5. Head(tube) = tube[1] /\ tube[1] \in Morceaux
  BY <1>1, <1>2
<1> QED BY <1>2, <1>3, <1>4, <1>5

(* One handler at a time is between its two reads. *)
LEMMA Seul ==
  ASSUME IInv, NEW t \in Traiteurs, tpc[t] \in {"longueur", "corps"}
  PROVE  \A u \in Traiteurs : tpc[u] = "corps" => u = t /\ tpc[t] = "corps"
BY DEF IInv, Exclusion, SousVerrou

LEMMA PasLireLongueur == ASSUME IInv, vivant, NEW t \in Traiteurs, LireLongueur(t) PROVE IInv'
<1> USE DEF IInv
<1> DEFINE L == Len(tube)
<1>1. /\ tpc[t] = "longueur" /\ tube # <<>> /\ tlng' = [tlng EXCEPT ![t] = tube[1].lng]
      /\ tube' = Tail(tube) /\ libre' = libre + tube[1].octets /\ tpc' = [tpc EXCEPT ![t] = "corps"]
      /\ UNCHANGED <<mutex, dpc, dlng, reste, sent, treq, taken, treated, vivant>>
  BY Lecture DEF LireLongueur
<1>2. /\ L \in Nat /\ L > 0 /\ 1 \in 1..L /\ tube' \in Seq(Morceaux) /\ Len(tube') = L - 1
      /\ (tube' = <<>> <=> L = 1) /\ tube[1] \in Morceaux
      /\ \A i \in 1..L - 1 : i + 1 \in 1..L /\ tube'[i] = tube[i + 1]
  BY <1>1, Lecture
<1>3. ~tube[1].corps /\ tube[1].m = taken + 1 /\ tube[1].lng \in Nat /\ tube[1].octets \in Nat
  BY <1>1, <1>2, Seul DEF Trames, Tete, Morceaux
<1>4. \A u \in Traiteurs : /\ tpc'[u] = IF u = t THEN "corps" ELSE tpc[u]
                           /\ tlng'[u] = IF u = t THEN tube[1].lng ELSE tlng[u]
                           /\ tpc'[u] = "corps" => u = t
  BY <1>1, Seul DEF TypeOK
<1>5. taken \in Nat /\ sent \in Nat /\ libre \in Nat /\ reste \in Nat /\ dlng \in Nat
  BY Bornes
<1>6. TypeOK'
  <2>1. libre' \in Nat /\ tlng' \in [Traiteurs -> Nat]
    <3>1. libre' \in Nat
      BY <1>1, <1>3, <1>5
    <3>2. tlng \in [Traiteurs -> Nat]
      BY DEF TypeOK
    <3> QED BY <1>1, <1>3, <3>1, <3>2
  <2> QED BY <1>1, <1>2, <2>1 DEF TypeOK, Morceaux, Total, N
<1>7. Alternes'
  <2> SUFFICES ASSUME NEW i \in 1..L - 2
               PROVE  IF tube'[i].corps THEN ~tube'[i + 1].corps /\ tube'[i + 1].m = tube'[i].m + 1
                      ELSE tube'[i + 1].corps /\ tube'[i + 1].m = tube'[i].m /\ tube'[i + 1].lng = tube'[i].lng
    BY <1>2 DEF Alternes
  <2>1. i + 1 \in 1..L - 1 /\ i \in 1..L - 1
    BY <1>2
  <2>2. tube'[i] = tube[i + 1] /\ tube'[i + 1] = tube[i + 1 + 1]
    BY <1>2, <2>1
  <2>3. IF tube[i + 1].corps THEN ~tube[i + 1 + 1].corps /\ tube[i + 1 + 1].m = tube[i + 1].m + 1
        ELSE tube[i + 1 + 1].corps /\ tube[i + 1 + 1].m = tube[i + 1].m /\ tube[i + 1 + 1].lng = tube[i + 1].lng
    BY <2>1 DEF Trames, Alternes
  <2> QED BY <2>2, <2>3
<1>8. Entiers'
  <2> SUFFICES ASSUME NEW i \in 1..L - 1, tube'[i].corps, ~EnCours(i)'
               PROVE  tube'[i].m <= sent /\ tube'[i].octets = tube'[i].lng
    BY <1>1, <1>2 DEF Entiers
  <2>1. ~EnCours(i + 1)
    <3>1. i = Len(tube') <=> i + 1 = L
      BY <1>2
    <3> QED BY <1>1, <3>1 DEF EnCours
  <2> QED BY <1>2, <2>1 DEF Trames, Entiers
<1>9. Tete'
  <2> SUFFICES ASSUME L # 1
               PROVE  tube'[1].m = taken + 1 /\ tube'[1].corps /\ tube'[1].lng = tube[1].lng
    BY <1>1, <1>2, <1>4 DEF Tete
  <2>1. 1 \in 1..L - 1
    BY <1>2
  <2> QED BY <1>2, <1>3, <2>1 DEF Trames, Alternes
<1>10. Queue'
  <2>1. CASE L = 1
    <3>1. dpc = "corps" /\ reste = dlng /\ tube[1].m = sent + 1 /\ tube[1].lng = dlng
      BY <1>1, <1>3, <2>1 DEF Trames, Queue
    <3>2. taken = sent
      BY <1>3, <1>5, <3>1
    <3> QED BY <1>1, <1>2, <1>4, <2>1, <3>1, <3>2 DEF Queue
  <2>2. CASE L # 1
    <3>1. tube'[Len(tube')] = tube[L] /\ tube' # <<>>
      BY <1>2, <2>2
    <3> QED BY <1>1, <3>1 DEF Trames, Queue
  <2> QED BY <2>1, <2>2
<1>11. Exclusion'
  <2>1. SousVerrou' = SousVerrou
    BY <1>1, <1>4 DEF SousVerrou
  <2> QED BY <1>1, <2>1 DEF Exclusion
<1>12. Ecriture' /\ Rangs'
  BY <1>1, <1>4 DEF Ecriture, Rangs, EstRequete, Total, N
<1> QED BY <1>1, <1>6, <1>7, <1>8, <1>9, <1>10, <1>11, <1>12 DEF Trames

(* The body whose length was just read: it is complete, and was sent. *)
LEMMA CorpsAttendu ==
  ASSUME IInv, NEW t \in Traiteurs, tpc[t] = "corps", tube # <<>>
  PROVE  /\ tube[1].corps /\ tube[1].m = taken + 1 /\ tube[1].lng = tlng[t]
         /\ EnCours(1) => tube[1].octets < tlng[t] /\ tlng[t] > TailleMax
         /\ ~EnCours(1) => tube[1].m <= sent /\ tube[1].octets = tlng[t]
<1> USE DEF IInv
<1>1. 1 \in 1..Len(tube)
  BY Lecture
<1>2. tube[1].corps /\ tube[1].m = taken + 1 /\ tube[1].lng = tlng[t]
  BY DEF Trames, Tete
<1>3. ASSUME EnCours(1) PROVE tube[1].octets < tlng[t] /\ tlng[t] > TailleMax
  <2>1. dpc = "corps" /\ reste < dlng /\ 1 = Len(tube)
    BY <1>3 DEF EnCours
  <2>2. tube[1].lng = dlng /\ tube[1].octets = dlng - reste
    <3>1. reste # dlng
      BY <2>1, Bornes
    <3> QED BY <2>1, <3>1 DEF Trames, Queue
  <2>3. reste > 0 /\ ~(dlng <= TailleMax)
    BY <2>1, Bornes DEF Ecriture
  <2>4. reste \in Nat /\ dlng \in Nat /\ TailleMax \in Nat
    BY Bornes
  <2> QED BY <1>2, <2>2, <2>3, <2>4
<1>4. ASSUME ~EnCours(1) PROVE tube[1].m <= sent /\ tube[1].octets = tlng[t]
  BY <1>1, <1>2, <1>4 DEF Trames, Entiers
<1> QED BY <1>2, <1>3, <1>4

LEMMA PasLireCorps == ASSUME IInv, vivant, NEW t \in Traiteurs, LireCorps(t) PROVE IInv'
<1> USE DEF IInv
<1> DEFINE L == Len(tube)
<1>1. /\ tpc[t] = "corps" /\ tube # <<>> /\ tube[1].octets >= tlng[t]
      /\ treq' = [treq EXCEPT ![t] = tube[1].m] /\ taken' = taken + 1
      /\ tube' = Tail(tube) /\ libre' = libre + tube[1].octets /\ tpc' = [tpc EXCEPT ![t] = "libere"]
      /\ vivant' \in BOOLEAN /\ (~vivant' => tlng[t] > TailleMax)
      /\ UNCHANGED <<mutex, dpc, dlng, reste, sent, tlng, treated>>
  BY Lecture DEF LireCorps
<1>2. /\ L \in Nat /\ L > 0 /\ 1 \in 1..L /\ tube' \in Seq(Morceaux) /\ Len(tube') = L - 1
      /\ (tube' = <<>> <=> L = 1) /\ tube[1] \in Morceaux
      /\ \A i \in 1..L - 1 : i + 1 \in 1..L /\ tube'[i] = tube[i + 1]
  BY <1>1, Lecture
<1>3. taken \in Nat /\ sent \in Nat /\ libre \in Nat /\ reste \in Nat /\ dlng \in Nat /\ sent <= Total /\ Total \in Nat
      /\ tlng[t] \in Nat /\ tube[1].octets \in Nat
  BY <1>2, Bornes
<1>4. /\ tube[1].corps /\ tube[1].m = taken + 1 /\ ~EnCours(1) /\ tube[1].m <= sent
  BY <1>1, <1>3, CorpsAttendu
<1>5. \A u \in Traiteurs : /\ tpc'[u] = IF u = t THEN "libere" ELSE tpc[u]
                           /\ treq'[u] = IF u = t THEN tube[1].m ELSE treq[u]
                           /\ tpc'[u] # "corps"
  BY <1>1, Seul DEF TypeOK
<1>6. TypeOK'
  <2>1. libre' \in Nat /\ taken' \in Nat /\ treq' \in [Traiteurs -> 0..Total]
    <3>1. tube[1].m \in 0..Total
      BY <1>3, <1>4
    <3>2. libre' \in Nat /\ taken' \in Nat
      BY <1>1, <1>3
    <3>3. treq \in [Traiteurs -> 0..Total]
      BY DEF TypeOK
    <3> QED BY <1>1, <3>1, <3>2, <3>3
  <2> QED BY <1>1, <1>2, <2>1 DEF TypeOK, Morceaux, Total, N
<1>7. Alternes'
  <2> SUFFICES ASSUME NEW i \in 1..L - 2
               PROVE  IF tube'[i].corps THEN ~tube'[i + 1].corps /\ tube'[i + 1].m = tube'[i].m + 1
                      ELSE tube'[i + 1].corps /\ tube'[i + 1].m = tube'[i].m /\ tube'[i + 1].lng = tube'[i].lng
    BY <1>2 DEF Alternes
  <2>1. i + 1 \in 1..L - 1 /\ i \in 1..L - 1
    BY <1>2
  <2>2. tube'[i] = tube[i + 1] /\ tube'[i + 1] = tube[i + 1 + 1]
    BY <1>2, <2>1
  <2>3. IF tube[i + 1].corps THEN ~tube[i + 1 + 1].corps /\ tube[i + 1 + 1].m = tube[i + 1].m + 1
        ELSE tube[i + 1 + 1].corps /\ tube[i + 1 + 1].m = tube[i + 1].m /\ tube[i + 1 + 1].lng = tube[i + 1].lng
    BY <2>1 DEF Trames, Alternes
  <2> QED BY <2>2, <2>3
<1>8. Entiers'
  <2> SUFFICES ASSUME NEW i \in 1..L - 1, tube'[i].corps, ~EnCours(i)'
               PROVE  tube'[i].m <= sent /\ tube'[i].octets = tube'[i].lng
    BY <1>1, <1>2 DEF Entiers
  <2>1. ~EnCours(i + 1)
    <3>1. i = Len(tube') <=> i + 1 = L
      BY <1>2
    <3> QED BY <1>1, <3>1 DEF EnCours
  <2> QED BY <1>2, <2>1 DEF Trames, Entiers
<1>9. Tete'
  <2> SUFFICES ASSUME L # 1
               PROVE  tube'[1].m = taken' + 1 /\ ~tube'[1].corps
    BY <1>2, <1>5 DEF Tete
  <2>1. 1 \in 1..L - 1
    BY <1>2
  <2> QED BY <1>1, <1>2, <1>3, <1>4, <2>1 DEF Trames, Alternes
<1>10. Queue'
  <2>1. CASE L = 1
    <3>1. dpc # "corps" /\ tube[1].m = sent
      BY <1>1, <1>3, <1>4, <2>1, Bornes DEF Trames, Queue, EnCours
    <3> QED BY <1>1, <1>2, <1>4, <1>5, <2>1, <3>1 DEF Queue
  <2>2. CASE L # 1
    <3>1. tube'[Len(tube')] = tube[L] /\ tube' # <<>>
      BY <1>2, <2>2
    <3> QED BY <1>1, <3>1 DEF Trames, Queue
  <2> QED BY <2>1, <2>2
<1>11. Exclusion'
  <2>1. SousVerrou' = SousVerrou
    BY <1>1, <1>5 DEF SousVerrou
  <2> QED BY <1>1, <2>1 DEF Exclusion
<1>12. Ecriture' /\ Rangs'
  BY <1>1, <1>3, <1>4, <1>5 DEF Ecriture, Rangs, EstRequete, Total, N
<1>13. ~vivant' => \E u \in Traiteurs : tlng'[u] > TailleMax
  BY <1>1
<1> QED BY <1>6, <1>7, <1>8, <1>9, <1>10, <1>11, <1>12, <1>13 DEF Trames

(* The steps that read nothing, and a read that comes back short. *)
LEMMA PasSansLire ==
  ASSUME IInv, vivant, NEW t \in Traiteurs,
         Verrouiller(t) \/ Deverrouiller(t) \/ Arreter(t) \/ Traiter(t) \/ LectureCourte(t)
  PROVE  IInv'
<1> USE DEF IInv
<1>1. UNCHANGED <<tube, libre, dpc, dlng, reste, sent, tlng, treq, taken>>
  BY DEF Verrouiller, Deverrouiller, Arreter, Traiter, LectureCourte
<1>2. PICK p \in Places : tpc' = [tpc EXCEPT ![t] = p] /\ (p = "corps" <=> tpc[t] = "corps")
  BY DEF Verrouiller, Deverrouiller, Arreter, Traiter, LectureCourte, TypeOK, Places
<1>3. \A u \in Traiteurs : tpc'[u] = IF u = t THEN p ELSE tpc[u]
  BY <1>2 DEF TypeOK
<1>4. TypeOK'
  <2>1. tpc' \in [Traiteurs -> Places] /\ mutex' \subseteq Traiteurs /\ vivant' \in BOOLEAN
    BY <1>2 DEF Verrouiller, Deverrouiller, Arreter, Traiter, LectureCourte, TypeOK, Places
  <2>2. treated' \subseteq 1..NbReq
    BY DEF Verrouiller, Deverrouiller, Arreter, Traiter, LectureCourte, TypeOK, EstRequete
  <2> QED BY <1>1, <2>1, <2>2 DEF TypeOK, Places, Total, N
<1>5. Trames'
  BY <1>1, <1>2, <1>3, Immobile
<1>6. Exclusion'
  <2>1. CASE Verrouiller(t)
    <3>1. SousVerrou = {} /\ mutex' = {t} /\ tpc' = [tpc EXCEPT ![t] = "longueur"]
      BY <2>1 DEF Verrouiller, Exclusion
    <3>2. SousVerrou' = {t}
      BY <3>1 DEF SousVerrou, TypeOK
    <3> QED BY <3>1, <3>2 DEF Exclusion
  <2>2. CASE Deverrouiller(t)
    <3>1. SousVerrou' = SousVerrou \ {t} /\ mutex' = mutex \ {t}
      BY <2>2 DEF Deverrouiller, SousVerrou, TypeOK
    <3> QED BY <3>1 DEF Exclusion
  <2>3. CASE Arreter(t) \/ Traiter(t) \/ LectureCourte(t)
    <3>1. SousVerrou' = SousVerrou /\ mutex' = mutex
      BY <2>3 DEF Arreter, Traiter, LectureCourte, SousVerrou, TypeOK
    <3> QED BY <3>1 DEF Exclusion
  <2> QED BY <2>1, <2>2, <2>3
<1>7. Ecriture'
  BY <1>1 DEF Ecriture, Total, N
<1>8. Rangs'
  BY <1>1 DEF Verrouiller, Deverrouiller, Arreter, Traiter, LectureCourte, Rangs, EstRequete, TypeOK
<1>9. ~vivant' => \E u \in Traiteurs : tlng'[u] > TailleMax
  <2>1. CASE LectureCourte(t)
    <3>1. tpc[t] = "corps" /\ tube # <<>> /\ tube[1].octets < tlng[t]
      BY <2>1, Lecture DEF LectureCourte
    <3>2. EnCours(1)
      BY <3>1, CorpsAttendu, Bornes
    <3> QED BY <1>1, <3>1, <3>2, CorpsAttendu
  <2>2. CASE ~LectureCourte(t)
    BY <2>2 DEF Verrouiller, Deverrouiller, Arreter, Traiter
  <2> QED BY <2>1, <2>2
<1> QED BY <1>4, <1>5, <1>6, <1>7, <1>8, <1>9

LEMMA Pas == IInv /\ [Next]_vars => IInv'
<1> SUFFICES ASSUME IInv, [Next]_vars PROVE IInv'
  OBVIOUS
<1>1. CASE Distributeur
  <2>1. UNCHANGED vivant /\ UNCHANGED tlng
    BY <1>1 DEF Distributeur, Recevoir, EcrireLongueur, EcrireCorps, Joindre
  <2> QED BY <1>1, PasHorsTube, PasLongueur, PasCorps DEF Distributeur
<1>2. ASSUME NEW t \in Traiteurs, Traiteur(t) PROVE IInv'
  BY <1>2, PasLireLongueur, PasLireCorps, PasSansLire DEF Traiteur
<1>3. CASE UNCHANGED vars
  BY <1>3, Immobile DEF vars, IInv, TypeOK, Exclusion, SousVerrou, Ecriture, Rangs, EstRequete, Total, N
<1> QED BY <1>1, <1>2, <1>3 DEF Next, Termine

LEMMA Invariance == Spec => []IInv
BY Initialisation, Pas, PTL DEF Spec

(* A read of a length finds a length, a read of a body the body that goes  *)
(* with it, split or not; the server dies only of a message that is longer *)
(* than PIPE_BUF.  For any pool, lengths, and size of the pipe.            *)
THEOREM LecturesAlignees == Spec => []Aligne
<1>1. ASSUME IInv PROVE Aligne
  <2> USE <1>1 DEF IInv
  <2>1. ASSUME NEW t \in Traiteurs, tpc[t] = "longueur", tube # <<>> PROVE ~Head(tube).corps
    BY <2>1, Seul, Lecture DEF Trames, Tete
  <2>2. ASSUME NEW t \in Traiteurs, tpc[t] = "corps", tube # <<>>
        PROVE  Head(tube).corps /\ Head(tube).lng = tlng[t]
    BY <2>2, Lecture, CorpsAttendu
  <2> QED BY <2>1, <2>2 DEF Aligne
<1> QED BY <1>1, Invariance, PTL

-----------------------------------------------------------------------------
(* Refinement. *)

(* A body written in full is a message sent, a body read a message taken.  *)
LEMMA PasRaffine == IInv /\ [Next]_vars => [D!Next]_(D!vars)
<1> SUFFICES ASSUME IInv, [Next]_vars PROVE [D!Next]_(D!vars)
  OBVIOUS
<1> USE DEF IInv
<1> DEFINE rang == [t \in Traiteurs |-> IF tpc[t] \in {"libere", "teste", "fini"} THEN treq[t] ELSE 0]
<1>0. /\ D!Total = Total /\ N \in Nat /\ NbReq \in Nat /\ Total \in Nat
      /\ sent \in Nat /\ taken \in Nat /\ tpc \in [Traiteurs -> Places] /\ treq \in [Traiteurs -> 0..Total]
  <2>1. D!Total = Total
    BY DEF D!Total, D!N, D!Cardinality, Total, N, Cardinality
  <2> QED BY <2>1, Bornes DEF TypeOK
<1>1. CASE Recevoir \/ EcrireLongueur
  BY <1>1 DEF Recevoir, EcrireLongueur, D!vars, En
<1>2. CASE EcrireCorps
  <2>1. /\ sent < Total /\ dpc = "corps" /\ dpc' \in {"corps", "recoit"}
        /\ UNCHANGED <<tpc, treq, taken, treated>> /\ sent' \in {sent, sent + 1}
    BY <1>2 DEF EcrireCorps, Ecriture
  <2>2. CASE sent' = sent
    BY <2>1, <2>2 DEF D!vars, En
  <2>3. CASE sent' = sent + 1
    BY <1>0, <2>1, <2>3 DEF D!Next, D!Send, En
  <2> QED BY <2>1, <2>2, <2>3
<1>3. CASE Joindre
  <2>1. En({"fini"}) = Traiteurs
    BY <1>3 DEF Joindre, En
  <2> QED BY <1>0, <1>3, <2>1 DEF Joindre, D!Next, D!Join, En
<1>4. ASSUME NEW t \in Traiteurs, Traiteur(t) PROVE [D!Next]_(D!vars)
  <2>1. CASE Verrouiller(t) \/ LireLongueur(t) \/ Deverrouiller(t) \/ LectureCourte(t)
    <3>1. UNCHANGED <<dpc, sent, taken, treated>> /\ rang' = rang /\ En({"fini"})' = En({"fini"})
      BY <1>0, <2>1 DEF Verrouiller, LireLongueur, Deverrouiller, LectureCourte, En
    <3> QED BY <3>1 DEF D!vars
  <2>2. CASE LireCorps(t)
    <3>1. /\ tpc[t] = "corps" /\ tube # <<>> /\ tube[1].octets >= tlng[t]
          /\ treq' = [treq EXCEPT ![t] = tube[1].m] /\ taken' = taken + 1
          /\ tpc' = [tpc EXCEPT ![t] = "libere"] /\ UNCHANGED <<dpc, sent, treated>>
      BY <2>2, Lecture DEF LireCorps
    <3>2. tube[1].m = taken + 1 /\ taken < sent
      <4>1. tube[1].octets \in Nat /\ tlng[t] \in Nat
        BY <3>1, Lecture, Bornes
      <4> QED BY <1>0, <3>1, <4>1, CorpsAttendu
    <3>3. rang[t] = 0 /\ rang' = [rang EXCEPT ![t] = taken + 1] /\ En({"fini"})' = En({"fini"})
      BY <1>0, <3>1, <3>2 DEF En
    <3> QED BY <3>1, <3>2, <3>3 DEF D!Next, D!Take
  <2>3. CASE Arreter(t)
    <3>1. tpc[t] = "teste" /\ ~EstRequete(treq[t]) /\ tpc' = [tpc EXCEPT ![t] = "fini"]
          /\ UNCHANGED <<dpc, sent, taken, treated, treq>>
      BY <2>3 DEF Arreter
    <3>2. rang[t] > NbReq
      BY <1>0, <3>1 DEF Rangs, EstRequete
    <3>3. rang' = rang /\ t \notin En({"fini"}) /\ En({"fini"})' = En({"fini"}) \union {t}
      BY <1>0, <3>1 DEF En
    <3> QED BY <3>1, <3>2, <3>3 DEF D!Next, D!Stop
  <2>4. CASE Traiter(t)
    <3>1. tpc[t] = "teste" /\ EstRequete(treq[t]) /\ tpc' = [tpc EXCEPT ![t] = "attend"]
          /\ treated' = treated \union {treq[t]} /\ UNCHANGED <<dpc, sent, taken, treq>>
      BY <2>4 DEF Traiter
    <3>2. rang[t] = treq[t] /\ rang' = [rang EXCEPT ![t] = 0] /\ En({"fini"})' = En({"fini"})
      BY <1>0, <3>1 DEF En
    <3> QED BY <3>1, <3>2 DEF D!Next, D!Treat, D!IsRequest, EstRequete
  <2> QED BY <1>4, <2>1, <2>2, <2>3, <2>4 DEF Traiteur
<1>5. CASE UNCHANGED vars
  BY <1>5 DEF vars, D!vars, En
<1> QED BY <1>1, <1>2, <1>3, <1>4, <1>5 DEF Next, Distributeur, Termine

(* Whatever lengths are drawn and however writes are split, the server of  *)
(* frames distributes each request once, in order, as long as it lives.    *)
THEOREM Raffinement == Spec => DSpec
<1>1. Init => D!Init
  BY DEF Init, D!Init, En
<1> QED BY <1>1, PasRaffine, Invariance, PTL DEF Spec, DSpec, D!Spec

Promesse == INSTANCE DistributionProofs WITH
       current <- [t \in Traiteurs |->
                     IF tpc[t] \in {"libere", "teste", "fini"} THEN treq[t] ELSE 0],
       stopped <- En({"fini"}),
       over    <- dpc = "termine"

(* When the program ends every request was handled, whatever the lengths   *)
(* of the frames and wherever the pipe split them.                         *)
THEOREM ToutEstTraite == Spec => [](dpc = "termine" => treated = 1..NbReq)
<1>0. Promesse!IsFiniteSet(Traiteurs) /\ Traiteurs # {} /\ NbReq \in Nat
  BY FramedPipeAssumption DEF Promesse!IsFiniteSet, IsFiniteSet
<1>1. Init => Promesse!DInv
  <2>1. Init => Promesse!Init
    BY DEF Init, Promesse!Init, En
  <2> QED BY <1>0, <2>1, Promesse!Initiale
<1>2. IInv /\ Promesse!DInv /\ [Next]_vars => Promesse!DInv'
  <2>1. D!Total = Promesse!Total
    BY DEF D!Total, D!N, Promesse!Total, Promesse!N, D!Cardinality, Promesse!Cardinality
  <2>2. [D!Next]_(D!vars) => [Promesse!Next]_(Promesse!vars)
    <3>1. D!vars = Promesse!vars /\ (UNCHANGED D!vars => UNCHANGED Promesse!vars)
      BY DEF D!vars, Promesse!vars
    <3>2. D!Send => Promesse!Send
      BY <2>1 DEF D!Send, Promesse!Send
    <3>3. D!Join => Promesse!Join
      BY <2>1 DEF D!Join, Promesse!Join
    <3>4. \A t \in Traiteurs : D!Take(t) => Promesse!Take(t)
      BY DEF D!Take, Promesse!Take
    <3>5. \A t \in Traiteurs : D!Treat(t) => Promesse!Treat(t)
      BY DEF D!Treat, Promesse!Treat, D!IsRequest, Promesse!IsRequest
    <3>6. \A t \in Traiteurs : D!Stop(t) => Promesse!Stop(t)
      BY DEF D!Stop, Promesse!Stop
    <3> QED BY <3>1, <3>2, <3>3, <3>4, <3>5, <3>6 DEF D!Next, Promesse!Next
  <2> QED BY <1>0, <2>2, PasRaffine, Promesse!Pas
<1>3. Promesse!DInv => (dpc = "termine" => treated = 1..NbReq)
  BY <1>0, Promesse!Fin
<1> QED BY <1>1, <1>2, <1>3, Invariance, PTL DEF Spec

=============================================================================
