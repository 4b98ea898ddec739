----------------------------- MODULE FramedPipe -----------------------------
(***************************************************************************)
(* benchmark/tube_416.c: a message goes through a pipe as its length and   *)
(* then its body, two writes that two reads under a mutex must take.       *)
(*                                                                         *)
(* The pipe is the sequence of what was written and not read: lengths, and *)
(* bodies with the number of their bytes that have arrived. POSIX makes a  *)
(* write atomic up to PIPE_BUF bytes; a longer one fills the pipe and goes *)
(* on when there is room again. A read returns what has arrived, up to     *)
(* what was asked.                                                         *)
(***************************************************************************)
EXTENDS Integers, FiniteSets, Sequences

CONSTANTS
  Traiteurs,   \* the handler threads of the pool
  NbReq,       \* nbReq, the number of requests to simulate
  TailleMax,   \* TAILLE_MAX_REQUETE: the size of req, and of PIPE_BUF
  SizeofInt,   \* sizeof(lngReq), which is also sizeof('\0') in C
  Longueurs,   \* the values of strlen(req) the simulator draws from
  Capacite     \* the bytes the pipe can hold

ASSUME FramedPipeAssumption ==
  /\ IsFiniteSet(Traiteurs) /\ Traiteurs # {}
  /\ NbReq \in Nat
  /\ TailleMax \in Nat /\ SizeofInt \in 1..TailleMax
  /\ Longueurs # {} /\ Longueurs \subseteq 1..TailleMax-1
  /\ Capacite \in Nat /\ Capacite >= TailleMax

VARIABLES
  tube,     \* what is in the pipe
  libre,    \* the bytes of room left in it
  mutex,    \* the handlers holding the mutex
  dpc,      \* where the distributor (the main thread) is
  dlng,     \* the distributor's lngReq
  reste,    \* the bytes of the body still to be written
  sent,     \* how many messages were written in full
  tpc,      \* where each handler is
  tlng,     \* each handler's lngReq
  treq,     \* the message each handler read last
  taken,    \* how many messages were read (history)
  treated,  \* the requests given to the simulator (history)
  vivant    \* no thread has called exit(EXIT_FAILURE)

vars == <<tube, libre, mutex, dpc, dlng, reste, sent, tpc, tlng, treq, taken, treated, vivant>>

N     == Cardinality(Traiteurs)
Total == NbReq + N

EstRequete(m) == m \in 1..NbReq

En(etats) == {t \in Traiteurs : tpc[t] \in etats}

Init ==
  /\ tube = <<>> /\ libre = Capacite
  /\ mutex = {}
  /\ dpc = "recoit"
  /\ dlng = 0 /\ reste = 0 /\ sent = 0
  /\ tpc = [t \in Traiteurs |-> "attend"]
  /\ tlng = [t \in Traiteurs |-> 0]
  /\ treq = [t \in Traiteurs |-> 0]
  /\ taken = 0
  /\ treated = {}
  /\ vivant = TRUE

-----------------------------------------------------------------------------
(* The distributor. *)

(* A request of some length, or an end message of length 0; lngReq counts  *)
(* sizeof('\0') bytes for the final zero.                                  *)
Recevoir ==
  /\ dpc = "recoit" /\ sent < Total
  /\ \E l \in IF sent < NbReq THEN Longueurs ELSE {0} : dlng' = l + SizeofInt
  /\ dpc' = "longueur"
  /\ UNCHANGED <<tube, libre, mutex, reste, sent, tpc, tlng, treq, taken, treated, vivant>>

(* mutant: the write does not wait for room in the pipe. *)
EcrireLongueurSansPlace ==
  /\ dpc = "longueur"
  /\ tube' = Append(tube, [corps |-> FALSE, m |-> sent + 1, octets |-> SizeofInt, lng |-> dlng])
  /\ libre' = libre - SizeofInt
  /\ reste' = dlng
  /\ dpc' = "corps"
  /\ UNCHANGED <<mutex, dlng, sent, tpc, tlng, treq, taken, treated, vivant>>

EcrireLongueur ==
  /\ dpc = "longueur"
  /\ SizeofInt <= libre
  /\ tube' = Append(tube, [corps |-> FALSE, m |-> sent + 1, octets |-> SizeofInt, lng |-> dlng])
  /\ libre' = libre - SizeofInt
  /\ reste' = dlng
  /\ dpc' = "corps"
  /\ UNCHANGED <<mutex, dlng, sent, tpc, tlng, treq, taken, treated, vivant>>

(* k bytes of the body reach the pipe. *)
Arrive(k) ==
  /\ tube' = IF reste < dlng /\ tube # <<>>
               THEN [tube EXCEPT ![Len(tube)].octets = @ + k]
               ELSE Append(tube, [corps |-> TRUE, m |-> sent + 1, octets |-> k, lng |-> dlng])
  /\ libre' = libre - k

(* mutant: a short write is split as well. *)
EcrireCorpsParMorceaux ==
  /\ dpc = "corps"
  /\ \E k \in 1..reste :
       /\ k <= libre
       /\ Arrive(k)
       /\ reste' = reste - k
       /\ IF k = reste THEN sent' = sent + 1 /\ dpc' = "recoit" ELSE UNCHANGED <<sent, dpc>>
  /\ UNCHANGED <<mutex, dlng, tpc, tlng, treq, taken, treated, vivant>>

EcrireCorps ==
  /\ dpc = "corps"
  /\ \E k \in {reste, libre} \ {0} :
       /\ k <= libre /\ k <= reste
       /\ dlng <= TailleMax => k = dlng
       /\ Arrive(k)
       /\ reste' = reste - k
       /\ IF k = reste THEN sent' = sent + 1 /\ dpc' = "recoit" ELSE UNCHANGED <<sent, dpc>>
  /\ UNCHANGED <<mutex, dlng, tpc, tlng, treq, taken, treated, vivant>>

Joindre ==
  /\ dpc = "recoit" /\ sent = Total
  /\ \A t \in Traiteurs : tpc[t] = "fini"
  /\ dpc' = "termine"
  /\ UNCHANGED <<tube, libre, mutex, dlng, reste, sent, tpc, tlng, treq, taken, treated, vivant>>

-----------------------------------------------------------------------------
(* The handlers. *)

(* mutant: the two reads are not made under the mutex. *)
VerrouillerSansExclusion(t) ==
  /\ tpc[t] = "attend"
  /\ mutex' = mutex \union {t}
  /\ tpc' = [tpc EXCEPT ![t] = "longueur"]
  /\ UNCHANGED <<tube, libre, dpc, dlng, reste, sent, tlng, treq, taken, treated, vivant>>

Verrouiller(t) ==
  /\ tpc[t] = "attend"
  /\ mutex = {}
  /\ mutex' = {t}
  /\ tpc' = [tpc EXCEPT ![t] = "longueur"]
  /\ UNCHANGED <<tube, libre, dpc, dlng, reste, sent, tlng, treq, taken, treated, vivant>>

(* The reads take what comes first in the pipe for what they expect.       *)
LireLongueur(t) ==
  /\ tpc[t] = "longueur"
  /\ tube # <<>>
  /\ tlng' = [tlng EXCEPT ![t] = Head(tube).lng]
  /\ tube' = Tail(tube) /\ libre' = libre + Head(tube).octets
  /\ tpc' = [tpc EXCEPT ![t] = "corps"]
  /\ UNCHANGED <<mutex, dpc, dlng, reste, sent, treq, taken, treated, vivant>>

(* All the bytes asked for were there. Those beyond the end of req overrun *)
(* it, and the process may or may not survive.                             *)
LireCorps(t) ==
  /\ tpc[t] = "corps"
  /\ tube # <<>>
  /\ Head(tube).octets >= tlng[t]
  /\ treq' = [treq EXCEPT ![t] = Head(tube).m]
  /\ taken' = taken + 1
  /\ tube' = Tail(tube) /\ libre' = libre + Head(tube).octets
  /\ tpc' = [tpc EXCEPT ![t] = "libere"]
  /\ vivant' \in IF tlng[t] > TailleMax THEN BOOLEAN ELSE {TRUE}
  /\ UNCHANGED <<mutex, dpc, dlng, reste, sent, tlng, treated>>

(* Fewer bytes had arrived: "read2" and exit(EXIT_FAILURE). *)
LectureCourte(t) ==
  /\ tpc[t] = "corps"
  /\ tube # <<>>
  /\ Head(tube).octets < tlng[t]
  /\ vivant' = FALSE
  /\ UNCHANGED <<tube, libre, mutex, dpc, dlng, reste, sent, tpc, tlng, treq, taken, treated>>

Deverrouiller(t) ==
  /\ tpc[t] = "libere"
  /\ mutex' = mutex \ {t}
  /\ tpc' = [tpc EXCEPT ![t] = "teste"]
  /\ UNCHANGED <<tube, libre, dpc, dlng, reste, sent, tlng, treq, taken, treated, vivant>>

(* mutant: `continue' for `break'. *)
ArreterReboucle(t) ==
  /\ tpc[t] = "teste"
  /\ ~EstRequete(treq[t])
  /\ tpc' = [tpc EXCEPT ![t] = "attend"]
  /\ UNCHANGED <<tube, libre, mutex, dpc, dlng, reste, sent, tlng, treq, taken, treated, vivant>>

Arreter(t) ==
  /\ tpc[t] = "teste"
  /\ ~EstRequete(treq[t])
  /\ tpc' = [tpc EXCEPT ![t] = "fini"]
  /\ UNCHANGED <<tube, libre, mutex, dpc, dlng, reste, sent, tlng, treq, taken, treated, vivant>>

Traiter(t) ==
  /\ tpc[t] = "teste"
  /\ EstRequete(treq[t])
  /\ treated' = treated \union {treq[t]}
  /\ tpc' = [tpc EXCEPT ![t] = "attend"]
  /\ UNCHANGED <<tube, libre, mutex, dpc, dlng, reste, sent, tlng, treq, taken, vivant>>

-----------------------------------------------------------------------------
Distributeur ==
  vivant /\ (Recevoir \/ EcrireLongueur \/ EcrireCorps \/ Joindre)

Traiteur(t) ==
  /\ vivant
  /\ \/ Verrouiller(t) \/ LireLongueur(t) \/ LireCorps(t) \/ LectureCourte(t)
     \/ Deverrouiller(t) \/ Arreter(t) \/ Traiter(t)

(* The process has exited. *)
Termine == (dpc = "termine" \/ ~vivant) /\ UNCHANGED vars

Next == Distributeur \/ (\E t \in Traiteurs : Traiteur(t)) \/ Termine

Spec == Init /\ [][Next]_vars

FairSpec ==
  /\ Spec
  /\ WF_vars(Distributeur)
  /\ \A t \in Traiteurs : WF_vars(Traiteur(t))

-----------------------------------------------------------------------------
TypeOK ==
  /\ tube \in Seq([corps : BOOLEAN, m : 1..Total, octets : Nat, lng : Nat])
  /\ libre \in Nat
  /\ mutex \subseteq Traiteurs
  /\ dpc \in {"recoit", "longueur", "corps", "termine"}
  /\ dlng \in Nat /\ reste \in 0..dlng
  /\ sent \in 0..Total /\ taken \in Nat
  /\ tpc \in [Traiteurs -> {"attend", "longueur", "corps", "libere", "teste", "fini"}]
  /\ tlng \in [Traiteurs -> Nat]
  /\ treq \in [Traiteurs -> 0..Total]
  /\ treated \subseteq 1..NbReq
  /\ vivant \in BOOLEAN

(* The comment of traiteur: nobody slips in between the two reads, so that *)
(* a read of a length finds a length, and a read of a body finds the body  *)
(* whose length was read; and only a message that does not fit in PIPE_BUF *)
(* makes a handler give up.  With the types.                               *)
Aligne ==
  /\ TypeOK
  /\ IF vivant
     THEN \A t \in Traiteurs :
            /\ tpc[t] = "longueur" /\ tube # <<>> => ~Head(tube).corps
            /\ tpc[t] = "corps" /\ tube # <<>> =>
                 Head(tube).corps /\ Head(tube).lng = tlng[t]
     ELSE \E t \in Traiteurs : tlng[t] > TailleMax

(* The server handles every request of at most TAILLE_MAX_REQUETE bytes,   *)
(* final zero included: no such request makes it exit.                     *)
PasDEchec == vivant

(* The framed pipe implements the distribution, as long as it lives. *)
D == INSTANCE Distribution WITH
       current <- [t \in Traiteurs |->
                     IF tpc[t] \in {"libere", "teste", "fini"} THEN treq[t] ELSE 0],
       stopped <- En({"fini"}),
       over    <- dpc = "termine"

DSpec == D!Spec

(* The program ends, with every request handled unless it exited on an     *)
(* error.                                                                  *)
Termination == <>(vivant => dpc = "termine" /\ treated = 1..NbReq)

=============================================================================
