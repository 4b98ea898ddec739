------------------------------ MODULE SemTable ------------------------------
(***************************************************************************)
(* benchmark/tableau_semaphore.c: the distributor and the handler threads  *)
(* share a circular table of TAILLE_TAB slots, guarded by two counting     *)
(* semaphores (placeDispo, infoPrete); the handlers share the extraction   *)
(* index under a mutex.                                                    *)
(*                                                                         *)
(* A slot is written (memset of a request) and read (strncpy) in several   *)
(* machine steps: the write lasts while dpc is "recevoir" or "fin", the    *)
(* read while tpc[t] is "copie", so that a race on a slot is a state.      *)
(* The threads exist from the start: pthread_create only lets them reach   *)
(* the sem_wait they block on before the distributor starts.               *)
(***************************************************************************)
EXTENDS Naturals, FiniteSets

CONSTANTS
  Traiteurs,  \* the handler threads of the pool
  NbReq       \* nbReq, the number of requests to simulate

ASSUME SemTableAssumption ==
  /\ IsFiniteSet(Traiteurs)
  /\ Traiteurs # {}
  /\ NbReq \in Nat

VARIABLES
  placeDispo,  \* semaphore: free slots
  infoPrete,   \* semaphore: filled slots
  mutex,       \* the handlers holding the mutex
  iDepot, iExtrait,
  tab,         \* tab_distr_traite
  dpc,         \* where the distributor (the main thread) is
  dreq,        \* the slot the distributor's req points to
  sent,        \* how many messages it has posted
  tpc,         \* where each handler is
  treq,        \* each handler's own copy, req
  taken,       \* how many messages were extracted (history)
  treated      \* the requests given to the simulator (history)

dvars == <<dpc, dreq, sent, iDepot>>
tvars == <<tpc, treq, taken, treated, mutex, iExtrait>>
vars  == <<placeDispo, infoPrete, tab, dvars, tvars>>

N         == Cardinality(Traiteurs)
TailleTab == 2 * N
Total     == NbReq + N

(* A message is named by its rank. 0 is the zero the table starts with.    *)
(* req[0] == '\0' holds of the end messages, and of that zero.             *)
EstRequete(m) == m \in 1..NbReq

(* mutant: the index is not brought back to 0. *)
SuivantSansModulo(i) == i + 1

Suivant(i) == (i + 1) % TailleTab

Init ==
  /\ placeDispo = TailleTab
  /\ infoPrete = 0
  /\ mutex = {}
  /\ iDepot = 0
  /\ iExtrait = 0
  /\ tab = [i \in 0..TailleTab-1 |-> 0]
  /\ dpc = "alloue"
  /\ dreq = 0
  /\ sent = 0
  /\ tpc = [t \in Traiteurs |-> "attend"]
  /\ treq = [t \in Traiteurs |-> 0]
  /\ taken = 0
  /\ treated = {}

-----------------------------------------------------------------------------
(* The distributor. *)

(* mutant: sem_trywait whose failure is ignored. *)
AllouerRequeteSansAttendre ==
  /\ dpc = "alloue" /\ sent < NbReq
  /\ placeDispo' = IF placeDispo > 0 THEN placeDispo - 1 ELSE 0
  /\ dreq' = iDepot
  /\ iDepot' = Suivant(iDepot)
  /\ dpc' = "recevoir"
  /\ UNCHANGED <<infoPrete, tab, sent, tvars>>

(* sem_wait(placeDispo), then the slot of iDepot is reserved. *)
AllouerRequete ==
  /\ dpc = "alloue" /\ sent < NbReq
  /\ placeDispo > 0
  /\ placeDispo' = placeDispo - 1
  /\ dreq' = iDepot
  /\ iDepot' = Suivant(iDepot)
  /\ dpc' = "recevoir"
  /\ UNCHANGED <<infoPrete, tab, sent, tvars>>

(* simulerReceptionRequeteDeClient(req) has filled the slot. *)
RecevoirRequete ==
  /\ dpc = "recevoir"
  /\ tab' = [tab EXCEPT ![dreq] = sent + 1]
  /\ dpc' = "envoie"
  /\ UNCHANGED <<placeDispo, infoPrete, dreq, sent, iDepot, tvars>>

(* mutant: the end messages are deposited without waiting for a slot. *)
AllouerFinSansAttendre ==
  /\ dpc = "alloue" /\ sent >= NbReq /\ sent < Total
  /\ placeDispo' = IF placeDispo > 0 THEN placeDispo - 1 ELSE 0
  /\ dpc' = "fin"
  /\ UNCHANGED <<infoPrete, tab, dreq, sent, iDepot, tvars>>

AllouerFin ==
  /\ dpc = "alloue" /\ sent >= NbReq /\ sent < Total
  /\ placeDispo > 0
  /\ placeDispo' = placeDispo - 1
  /\ dpc' = "fin"
  /\ UNCHANGED <<infoPrete, tab, dreq, sent, iDepot, tvars>>

DeposerFin ==
  /\ dpc = "fin"
  /\ tab' = [tab EXCEPT ![iDepot] = sent + 1]
  /\ iDepot' = Suivant(iDepot)
  /\ dpc' = "envoie"
  /\ UNCHANGED <<placeDispo, infoPrete, dreq, sent, tvars>>

EnvoyerVersThreadTraiteur ==
  /\ dpc = "envoie"
  /\ infoPrete' = infoPrete + 1
  /\ sent' = sent + 1
  /\ dpc' = "alloue"
  /\ UNCHANGED <<placeDispo, tab, dreq, iDepot, tvars>>

(* pthread_join of every handler, then the medium is destroyed. *)
Joindre ==
  /\ dpc = "alloue" /\ sent = Total
  /\ \A t \in Traiteurs : tpc[t] = "fini"
  /\ dpc' = "termine"
  /\ UNCHANGED <<placeDispo, infoPrete, tab, dreq, sent, iDepot, tvars>>

-----------------------------------------------------------------------------
(* The handlers. *)

AttendreInfo(t) ==
  /\ tpc[t] = "attend"
  /\ infoPrete > 0
  /\ infoPrete' = infoPrete - 1
  /\ tpc' = [tpc EXCEPT ![t] = "verrouille"]
  /\ UNCHANGED <<placeDispo, tab, dvars, treq, taken, treated, mutex, iExtrait>>

(* mutant: the handlers do not exclude each other. *)
VerrouillerSansExclusion(t) ==
  /\ tpc[t] = "verrouille"
  /\ mutex' = mutex \union {t}
  /\ tpc' = [tpc EXCEPT ![t] = "copie"]
  /\ UNCHANGED <<placeDispo, infoPrete, tab, dvars, treq, taken, treated, iExtrait>>

Verrouiller(t) ==
  /\ tpc[t] = "verrouille"
  /\ mutex = {}
  /\ mutex' = {t}
  /\ tpc' = [tpc EXCEPT ![t] = "copie"]
  /\ UNCHANGED <<placeDispo, infoPrete, tab, dvars, treq, taken, treated, iExtrait>>

(* The strncpy has copied the slot of iExtrait. *)
Copier(t) ==
  /\ tpc[t] = "copie"
  /\ treq' = [treq EXCEPT ![t] = tab[iExtrait]]
  /\ taken' = taken + 1
  /\ tpc' = [tpc EXCEPT ![t] = "avance"]
  /\ UNCHANGED <<placeDispo, infoPrete, tab, dvars, treated, mutex, iExtrait>>

(* iExtrait moves on and the mutex is released. *)
Deverrouiller(t) ==
  /\ tpc[t] = "avance"
  /\ iExtrait' = Suivant(iExtrait)
  /\ mutex' = mutex \ {t}
  /\ tpc' = [tpc EXCEPT ![t] = "rend"]
  /\ UNCHANGED <<placeDispo, infoPrete, tab, dvars, treq, taken, treated>>

RendrePlace(t) ==
  /\ tpc[t] = "rend"
  /\ placeDispo' = placeDispo + 1
  /\ tpc' = [tpc EXCEPT ![t] = "teste"]
  /\ UNCHANGED <<infoPrete, tab, dvars, treq, taken, treated, mutex, iExtrait>>

(* mutant: an end message gives no slot back a second time. *)
ArreterSansRendre(t) ==
  /\ tpc[t] = "teste"
  /\ ~EstRequete(treq[t])
  /\ tpc' = [tpc EXCEPT ![t] = "fini"]
  /\ UNCHANGED <<placeDispo, infoPrete, tab, dvars, treq, taken, treated, mutex, iExtrait>>

(* mutant: `continue' for `break'. *)
ArreterReboucle(t) ==
  /\ tpc[t] = "teste"
  /\ ~EstRequete(treq[t])
  /\ placeDispo' = placeDispo + 1
  /\ tpc' = [tpc EXCEPT ![t] = "attend"]
  /\ UNCHANGED <<infoPrete, tab, dvars, treq, taken, treated, mutex, iExtrait>>

(* An end message: the thread posts placeDispo a second time and leaves. *)
Arreter(t) ==
  /\ tpc[t] = "teste"
  /\ ~EstRequete(treq[t])
  /\ placeDispo' = placeDispo + 1
  /\ tpc' = [tpc EXCEPT ![t] = "fini"]
  /\ UNCHANGED <<infoPrete, tab, dvars, treq, taken, treated, mutex, iExtrait>>

Traiter(t) ==
  /\ tpc[t] = "teste"
  /\ EstRequete(treq[t])
  /\ treated' = treated \union {treq[t]}
  /\ tpc' = [tpc EXCEPT ![t] = "attend"]
  /\ UNCHANGED <<placeDispo, infoPrete, tab, dvars, treq, taken, mutex, iExtrait>>

-----------------------------------------------------------------------------
Distributeur ==
  \/ AllouerRequete \/ RecevoirRequete
  \/ AllouerFin \/ DeposerFin
  \/ EnvoyerVersThreadTraiteur
  \/ Joindre

Traiteur(t) ==
  \/ AttendreInfo(t) \/ Verrouiller(t) \/ Copier(t) \/ Deverrouiller(t)
  \/ RendrePlace(t) \/ Arreter(t) \/ Traiter(t)

(* The process has exited. *)
Termine == dpc = "termine" /\ UNCHANGED vars

Next == Distributeur \/ (\E t \in Traiteurs : Traiteur(t)) \/ Termine

Spec == Init /\ [][Next]_vars

(* The kernel schedules every thread that can run. *)
FairSpec ==
  /\ Spec
  /\ WF_vars(Distributeur)
  /\ \A t \in Traiteurs : WF_vars(Traiteur(t))

-----------------------------------------------------------------------------
En(etats) == {t \in Traiteurs : tpc[t] \in etats}
Nb(etats) == Cardinality(En(etats))

Entres   == {"verrouille", "copie"}  \* let in by infoPrete
Rendeurs == {"avance", "rend"}       \* have a slot to give back
Finis    == {"fini"}

(* The slots taken from placeDispo: those of the messages posted, and the  *)
(* one being filled.                                                       *)
Alloues == IF dpc \in {"recevoir", "fin", "envoie"} THEN sent + 1 ELSE sent

(* The slot the distributor is writing. *)
Ecrits ==
  CASE dpc = "recevoir" -> {dreq}
    [] dpc = "fin"      -> {iDepot}
    [] OTHER            -> {}

TypeOK ==
  /\ placeDispo \in Nat /\ infoPrete \in Nat
  /\ mutex \subseteq Traiteurs
  /\ iDepot \in 0..TailleTab-1 /\ iExtrait \in 0..TailleTab-1
  /\ dreq \in 0..TailleTab-1
  /\ tab \in [0..TailleTab-1 -> 0..Total]
  /\ dpc \in {"alloue", "recevoir", "fin", "envoie", "termine"}
  /\ sent \in 0..Total /\ taken \in Nat
  /\ tpc \in [Traiteurs -> {"attend", "verrouille", "copie", "avance", "rend", "teste", "fini"}]
  /\ treq \in [Traiteurs -> 0..Total]
  /\ treated \subseteq 1..NbReq

(* No data race on the table: while the distributor fills a slot, no       *)
(* handler is copying it, although the two sides share no lock.            *)
PasDeCourse == \A t \in En({"copie"}) : iExtrait \notin Ecrits

(* The distributor fills only slots whose message was extracted, although  *)
(* stopping handlers post placeDispo once more than they extract: every    *)
(* message posted and not yet extracted is still in its slot.              *)
RienDEcrase ==
  /\ \A k \in taken+1 .. sent : tab[(k - 1) % TailleTab] = k
  /\ \A k \in taken+1 .. sent : (k - 1) % TailleTab \notin Ecrits

(* The table is safe on both sides.                                        *)
AccesSurs == PasDeCourse /\ RienDEcrase

(* The two semaphores count the slots exactly: infoPrete the messages no   *)
(* handler has been let in for, placeDispo the free slots not announced    *)
(* yet, plus one for each handler that has stopped.                        *)
Comptes ==
  /\ infoPrete + Nb(Entres) = sent - taken
  /\ placeDispo + Alloues + Nb(Rendeurs) = TailleTab + taken + Nb(Finis)

(* The table implements the distribution: a message is taken when it is    *)
(* copied, in the order of sending, by one handler.                        *)
D == INSTANCE Distribution WITH
       current <- [t \in Traiteurs |->
                     IF tpc[t] \in {"avance", "rend", "teste", "fini"} THEN treq[t] ELSE 0],
       stopped <- En({"fini"}),
       over    <- dpc = "termine"

(* It keeps its promises: every message is sent, taken in order and        *)
(* handled once, and the program goes on until every request is handled    *)
(* and every handler has stopped.                                          *)
DSpec == D!FairSpec

=============================================================================
