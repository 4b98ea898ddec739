----------------------------- MODULE CondTable -----------------------------
(***************************************************************************)
(* benchmark/cond.c: the circular table of tableau_semaphore.c, guarded by *)
(* one mutex and two condition variables instead of semaphores.            *)
(*                                                                         *)
(* The distributor's critical sections are single steps; the handlers' are *)
(* cut in three, because the distributor fills its slot (dpc "recevoir")   *)
(* outside the mutex while a handler may be copying (tpc "copie") inside.  *)
(* A thread in pthread_cond_wait is "dort"; once woken it is about to lock *)
(* the mutex and test its `while' again, which is where it came from.      *)
(* pthread_cond_signal wakes at least one waiter if there is one, and a    *)
(* waiter may wake up without a signal, as POSIX allows.                   *)
(***************************************************************************)
EXTENDS Naturals, FiniteSets

CONSTANTS
  Traiteurs,  \* the handler threads of the pool
  NbReq       \* nbReq, the number of requests to simulate

ASSUME CondTableAssumption ==
  /\ IsFiniteSet(Traiteurs)
  /\ Traiteurs # {}
  /\ NbReq \in Nat

VARIABLES
  placeDispo, infoPrete,  \* free and filled slots, plain ints
  mutex,                  \* the handlers holding the mutex
  iDepot, iExtrait,
  tab,                    \* tab_distr_traite
  dpc,                    \* where the distributor (the main thread) is
  dreq,                   \* the slot the distributor's req points to
  sent,                   \* how many messages it has announced
  tpc,                    \* where each handler is
  treq,                   \* each handler's own copy, req
  taken,                  \* how many messages were extracted (history)
  treated                 \* the requests given to the simulator (history)

vars == <<placeDispo, infoPrete, mutex, iDepot, iExtrait, tab,
          dpc, dreq, sent, tpc, treq, taken, treated>>

N         == Cardinality(Traiteurs)
TailleTab == 2 * N
Total     == NbReq + N

(* A message is named by its rank. 0 is the zero the table starts with.    *)
EstRequete(m) == m \in 1..NbReq

(* mutant: the index is not brought back to 0. *)
SuivantSansModulo(i) == i + 1

Suivant(i) == (i + 1) % TailleTab

En(etats) == {t \in Traiteurs : tpc[t] \in etats}

Init ==
  /\ placeDispo = TailleTab
  /\ infoPrete = 0
  /\ mutex = {}
  /\ iDepot = 0
  /\ iExtrait = 0
  /\ tab = [i \in 0..TailleTab-1 |-> 0]
  /\ dpc = "alloue"
  /\ dreq = 0
  /\ sent = 0
  /\ tpc = [t \in Traiteurs |-> "prend"]
  /\ treq = [t \in Traiteurs |-> 0]
  /\ taken = 0
  /\ treated = {}

-----------------------------------------------------------------------------
(* The distributor. *)

(* placeDispo is 0: pthread_cond_wait(condPlaceDispo). *)
AttendrePlace ==
  /\ dpc = "alloue" /\ sent < Total
  /\ mutex = {}
  /\ placeDispo = 0
  /\ dpc' = "dort"
  /\ UNCHANGED <<placeDispo, infoPrete, mutex, iDepot, iExtrait, tab,
                 dreq, sent, tpc, treq, taken, treated>>

(* The slot of iDepot is reserved. *)
AllouerRequete ==
  /\ dpc = "alloue" /\ sent < NbReq
  /\ mutex = {}
  /\ placeDispo # 0
  /\ dreq' = iDepot
  /\ iDepot' = Suivant(iDepot)
  /\ placeDispo' = placeDispo - 1
  /\ dpc' = "recevoir"
  /\ UNCHANGED <<infoPrete, mutex, iExtrait, tab, sent, tpc, treq, taken, treated>>

(* simulerReceptionRequeteDeClient(req) has filled the slot, unlocked. *)
RecevoirRequete ==
  /\ dpc = "recevoir"
  /\ tab' = [tab EXCEPT ![dreq] = sent + 1]
  /\ dpc' = "envoie"
  /\ UNCHANGED <<placeDispo, infoPrete, mutex, iDepot, iExtrait,
                 dreq, sent, tpc, treq, taken, treated>>

(* mutant: the end messages are deposited without looking at placeDispo. *)
DeposerFinSansTest ==
  /\ dpc = "alloue" /\ sent >= NbReq /\ sent < Total
  /\ mutex = {}
  /\ tab' = [tab EXCEPT ![iDepot] = sent + 1]
  /\ iDepot' = Suivant(iDepot)
  /\ placeDispo' = IF placeDispo > 0 THEN placeDispo - 1 ELSE 0
  /\ dpc' = "envoie"
  /\ UNCHANGED <<infoPrete, mutex, iExtrait, dreq, sent, tpc, treq, taken, treated>>

(* An end message is written under the mutex. *)
DeposerFin ==
  /\ dpc = "alloue" /\ sent >= NbReq /\ sent < Total
  /\ mutex = {}
  /\ placeDispo # 0
  /\ tab' = [tab EXCEPT ![iDepot] = sent + 1]
  /\ iDepot' = Suivant(iDepot)
  /\ placeDispo' = placeDispo - 1
  /\ dpc' = "envoie"
  /\ UNCHANGED <<infoPrete, mutex, iExtrait, dreq, sent, tpc, treq, taken, treated>>

(* pthread_cond_signal(condInfoPrete). *)
SignalerInfoPrete ==
  \E S \in SUBSET En({"dort"}) :
    /\ En({"dort"}) # {} => S # {}
    /\ tpc' = [t \in Traiteurs |-> IF t \in S THEN "prend" ELSE tpc[t]]

(* mutant: the signal is sent only when the table was empty. *)
EnvoyerSiVide ==
  /\ dpc = "envoie"
  /\ mutex = {}
  /\ infoPrete' = infoPrete + 1
  /\ IF infoPrete = 0 THEN SignalerInfoPrete ELSE tpc' = tpc
  /\ sent' = sent + 1
  /\ dpc' = "alloue"
  /\ UNCHANGED <<placeDispo, mutex, iDepot, iExtrait, tab, dreq, treq, taken, treated>>

EnvoyerVersThreadTraiteur ==
  /\ dpc = "envoie"
  /\ mutex = {}
  /\ infoPrete' = infoPrete + 1
  /\ SignalerInfoPrete
  /\ sent' = sent + 1
  /\ dpc' = "alloue"
  /\ UNCHANGED <<placeDispo, mutex, iDepot, iExtrait, tab, dreq, treq, taken, treated>>

Joindre ==
  /\ dpc = "alloue" /\ sent = Total
  /\ \A t \in Traiteurs : tpc[t] = "fini"
  /\ dpc' = "termine"
  /\ UNCHANGED <<placeDispo, infoPrete, mutex, iDepot, iExtrait, tab,
                 dreq, sent, tpc, treq, taken, treated>>

-----------------------------------------------------------------------------
(* The handlers. *)

(* infoPrete is 0: pthread_cond_wait(condInfoPrete). *)
AttendreInfo(t) ==
  /\ tpc[t] = "prend"
  /\ mutex = {}
  /\ infoPrete = 0
  /\ tpc' = [tpc EXCEPT ![t] = "dort"]
  /\ UNCHANGED <<placeDispo, infoPrete, mutex, iDepot, iExtrait, tab,
                 dpc, dreq, sent, treq, taken, treated>>

(* mutant: the mutex is not taken. *)
VerrouillerSansExclusion(t) ==
  /\ tpc[t] = "prend"
  /\ infoPrete # 0
  /\ mutex' = mutex \union {t}
  /\ tpc' = [tpc EXCEPT ![t] = "copie"]
  /\ UNCHANGED <<placeDispo, infoPrete, iDepot, iExtrait, tab,
                 dpc, dreq, sent, treq, taken, treated>>

Verrouiller(t) ==
  /\ tpc[t] = "prend"
  /\ mutex = {}
  /\ infoPrete # 0
  /\ mutex' = {t}
  /\ tpc' = [tpc EXCEPT ![t] = "copie"]
  /\ UNCHANGED <<placeDispo, infoPrete, iDepot, iExtrait, tab,
                 dpc, dreq, sent, treq, taken, treated>>

(* The strncpy has copied the slot of iExtrait. *)
Copier(t) ==
  /\ tpc[t] = "copie"
  /\ treq' = [treq EXCEPT ![t] = tab[iExtrait]]
  /\ taken' = taken + 1
  /\ tpc' = [tpc EXCEPT ![t] = "avance"]
  /\ UNCHANGED <<placeDispo, infoPrete, mutex, iDepot, iExtrait, tab,
                 dpc, dreq, sent, treated>>

(* mutant: the distributor is not signalled. *)
ExtraireSansSignal(t) ==
  /\ tpc[t] = "avance"
  /\ iExtrait' = Suivant(iExtrait)
  /\ infoPrete' = infoPrete - 1
  /\ placeDispo' = placeDispo + 1
  /\ mutex' = mutex \ {t}
  /\ tpc' = [tpc EXCEPT ![t] = "teste"]
  /\ UNCHANGED <<iDepot, tab, dpc, dreq, sent, treq, taken, treated>>

(* The counters, the signal of condPlaceDispo (the distributor alone waits *)
(* on it) and the unlock.                                                  *)
Extraire(t) ==
  /\ tpc[t] = "avance"
  /\ iExtrait' = Suivant(iExtrait)
  /\ infoPrete' = infoPrete - 1
  /\ placeDispo' = placeDispo + 1
  /\ dpc' = IF dpc = "dort" THEN "alloue" ELSE dpc
  /\ mutex' = mutex \ {t}
  /\ tpc' = [tpc EXCEPT ![t] = "teste"]
  /\ UNCHANGED <<iDepot, tab, dreq, sent, treq, taken, treated>>

Arreter(t) ==
  /\ tpc[t] = "teste"
  /\ ~EstRequete(treq[t])
  /\ tpc' = [tpc EXCEPT ![t] = "fini"]
  /\ UNCHANGED <<placeDispo, infoPrete, mutex, iDepot, iExtrait, tab,
                 dpc, dreq, sent, treq, taken, treated>>

Traiter(t) ==
  /\ tpc[t] = "teste"
  /\ EstRequete(treq[t])
  /\ treated' = treated \union {treq[t]}
  /\ tpc' = [tpc EXCEPT ![t] = "prend"]
  /\ UNCHANGED <<placeDispo, infoPrete, mutex, iDepot, iExtrait, tab,
                 dpc, dreq, sent, treq, taken>>

-----------------------------------------------------------------------------
(* pthread_cond_wait returns without a signal. *)
ReveilDistributeur ==
  /\ dpc = "dort"
  /\ dpc' = "alloue"
  /\ UNCHANGED <<placeDispo, infoPrete, mutex, iDepot, iExtrait, tab,
                 dreq, sent, tpc, treq, taken, treated>>

ReveilTraiteur(t) ==
  /\ tpc[t] = "dort"
  /\ tpc' = [tpc EXCEPT ![t] = "prend"]
  /\ UNCHANGED <<placeDispo, infoPrete, mutex, iDepot, iExtrait, tab,
                 dpc, dreq, sent, treq, taken, treated>>

Distributeur ==
  \/ AttendrePlace
  \/ AllouerRequete \/ RecevoirRequete
  \/ DeposerFin
  \/ EnvoyerVersThreadTraiteur
  \/ Joindre

Traiteur(t) ==
  \/ AttendreInfo(t) \/ Verrouiller(t) \/ Copier(t) \/ Extraire(t)
  \/ Arreter(t) \/ Traiter(t)

Reveil == ReveilDistributeur \/ \E t \in Traiteurs : ReveilTraiteur(t)

(* The process has exited. *)
Termine == dpc = "termine" /\ UNCHANGED vars

Next == Distributeur \/ (\E t \in Traiteurs : Traiteur(t)) \/ Reveil \/ Termine

Spec == Init /\ [][Next]_vars

(* The kernel schedules every thread that can run. Nothing makes a sleeper *)
(* wake up but a signal: Reveil may happen and need not.                   *)
Equite ==
  /\ WF_vars(Distributeur)
  /\ \A t \in Traiteurs : WF_vars(Traiteur(t))

FairSpec == Spec /\ Equite

-----------------------------------------------------------------------------
(* The slots in use: those announced, and the one reserved. *)
Alloues == IF dpc \in {"recevoir", "envoie"} THEN sent + 1 ELSE sent

TypeOK ==
  /\ placeDispo \in 0..TailleTab /\ infoPrete \in 0..TailleTab
  /\ mutex \subseteq Traiteurs
  /\ iDepot \in 0..TailleTab-1 /\ iExtrait \in 0..TailleTab-1
  /\ dreq \in 0..TailleTab-1
  /\ tab \in [0..TailleTab-1 -> 0..Total]
  /\ dpc \in {"alloue", "dort", "recevoir", "envoie", "termine"}
  /\ sent \in 0..Total /\ taken \in Nat
  /\ tpc \in [Traiteurs -> {"prend", "dort", "copie", "avance", "teste", "fini"}]
  /\ treq \in [Traiteurs -> 0..Total]
  /\ treated \subseteq 1..NbReq

(* The slot the distributor fills without the mutex holds no message still *)
(* to be extracted, so that no handler copies it meanwhile; and a message  *)
(* is in its slot until it is extracted.  With the types.                  *)
AccesExclusif ==
  /\ TypeOK
  /\ \A k \in taken+1 .. sent : tab[(k - 1) % TailleTab] = k
  /\ dpc = "recevoir" =>
       /\ \A t \in En({"copie"}) : iExtrait # dreq
       /\ \A k \in taken+1 .. sent : (k - 1) % TailleTab # dreq

(* No wake-up is lost: while a handler sleeps, there is for every message  *)
(* announced a handler awake that will take it; and the distributor sleeps *)
(* only while the table is full.                                           *)
PasDeReveilPerdu ==
  /\ En({"dort"}) # {} => infoPrete <= Cardinality(En({"prend", "copie", "avance"}))
  /\ dpc = "dort" => placeDispo = 0

(* The table implements the distribution. *)
D == INSTANCE Distribution WITH
       current <- [t \in Traiteurs |->
                     IF tpc[t] \in {"avance", "teste", "fini"} THEN treq[t] ELSE 0],
       stopped <- En({"fini"}),
       over    <- dpc = "termine"

(* It keeps its promises: every message is sent, taken in order and        *)
(* handled once, and the program goes on until every request is handled    *)
(* and every handler has stopped.                                          *)
DSpec == D!FairSpec

=============================================================================
