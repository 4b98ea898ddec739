----------------------------- MODULE QueueServer -----------------------------
(***************************************************************************)
(* The servers of benchmark/ whose medium takes a whole request at a time: *)
(* tube_4096.c (a pipe, requests of TAILLE_MAX_REQUETE = PIPE_BUF bytes),  *)
(* file_messages.c (a System V queue) and file_messages_posix.c (a POSIX   *)
(* queue). Their threads differ only in the calls that send and receive.   *)
(*                                                                         *)
(* A queue is opened with O_CREAT or IPC_CREAT alone and removed at the    *)
(* end of main: an invocation that is killed leaves its messages to the    *)
(* next one. A pipe dies with its process: tube_4096.c is the case of one  *)
(* invocation.                                                             *)
(***************************************************************************)
EXTENDS Naturals, FiniteSets, Sequences

CONSTANTS
  Traiteurs,      \* the handler threads of the pool
  NbReq,          \* nbReq, the number of requests to simulate
  Capacite,       \* how many messages the medium holds
  MaxInvocations  \* bound: how many times the server is started

ASSUME QueueServerAssumption ==
  /\ IsFiniteSet(Traiteurs) /\ Traiteurs # {}
  /\ NbReq \in Nat
  /\ Capacite \in Nat \ {0}
  /\ MaxInvocations \in Nat \ {0}

VARIABLES
  file,     \* the messages in the medium
  inv,      \* which invocation this is
  herite,   \* the medium was not empty when it started (history)
  dpc,      \* where its main thread is
  sent,     \* how many messages it sent
  tpc,      \* where each handler is
  treq,     \* the message each handler received last
  taken,    \* how many messages its handlers received (history)
  treated   \* the requests given to the simulator (history)

vars == <<file, inv, herite, dpc, sent, tpc, treq, taken, treated>>

N     == Cardinality(Traiteurs)
Total == NbReq + N

(* A message: the invocation that sent it, and its rank there. *)
Messages == (1..MaxInvocations) \X (0..Total)

(* mutant: the first request is empty, which is how an end message looks. *)
EstRequeteNonVide(msg) == msg[2] \in 2..NbReq

EstRequete(msg) == msg[2] \in 1..NbReq

Arretes == {t \in Traiteurs : tpc[t] = "fini"}

Init ==
  /\ file = <<>>
  /\ inv = 1
  /\ herite = FALSE
  /\ dpc = "envoie" /\ sent = 0
  /\ tpc = [t \in Traiteurs |-> "attend"]
  /\ treq = [t \in Traiteurs |-> <<1, 0>>]
  /\ taken = 0
  /\ treated = {}

-----------------------------------------------------------------------------
(* mutant: a priority or a type lets the end messages overtake. *)
EnvoyerEnTete ==
  /\ dpc = "envoie" /\ sent < Total
  /\ Len(file) < Capacite
  /\ file' = IF sent < NbReq THEN Append(file, <<inv, sent + 1>>) ELSE <<<<inv, sent + 1>>>> \o file
  /\ sent' = sent + 1
  /\ UNCHANGED <<inv, herite, dpc, tpc, treq, taken, treated>>

(* mutant: the medium takes more than it holds. *)
EnvoyerSansPlace ==
  /\ dpc = "envoie" /\ sent < Total
  /\ file' = Append(file, <<inv, sent + 1>>)
  /\ sent' = sent + 1
  /\ UNCHANGED <<inv, herite, dpc, tpc, treq, taken, treated>>

EnvoyerVersThreadTraiteur ==
  /\ dpc = "envoie" /\ sent < Total
  /\ Len(file) < Capacite
  /\ file' = Append(file, <<inv, sent + 1>>)
  /\ sent' = sent + 1
  /\ UNCHANGED <<inv, herite, dpc, tpc, treq, taken, treated>>

Joindre ==
  /\ dpc = "envoie" /\ sent = Total
  /\ Arretes = Traiteurs
  /\ dpc' = "libere"
  /\ UNCHANGED <<file, inv, herite, sent, tpc, treq, taken, treated>>

(* mutant: mq_close without mq_unlink. *)
LibererSansDetruire ==
  /\ dpc = "libere"
  /\ dpc' = "termine"
  /\ UNCHANGED <<file, inv, herite, sent, tpc, treq, taken, treated>>

(* The medium is closed and removed with what it still holds. *)
LibererMedium ==
  /\ dpc = "libere"
  /\ file' = <<>>
  /\ dpc' = "termine"
  /\ UNCHANGED <<inv, herite, sent, tpc, treq, taken, treated>>

-----------------------------------------------------------------------------
(* mutant: the message stays in the medium. *)
RecevoirSansRetirer(t) ==
  /\ tpc[t] = "attend"
  /\ file # <<>>
  /\ treq' = [treq EXCEPT ![t] = Head(file)]
  /\ file' = IF Len(file) = Capacite THEN Tail(file) ELSE file
  /\ tpc' = [tpc EXCEPT ![t] = "teste"]
  /\ taken' = taken + 1
  /\ UNCHANGED <<inv, herite, dpc, sent, treated>>

Recevoir(t) ==
  /\ tpc[t] = "attend"
  /\ file # <<>>
  /\ treq' = [treq EXCEPT ![t] = Head(file)]
  /\ file' = Tail(file)
  /\ tpc' = [tpc EXCEPT ![t] = "teste"]
  /\ taken' = taken + 1
  /\ UNCHANGED <<inv, herite, dpc, sent, treated>>

(* mutant: `continue' for `break'. *)
ArreterReboucle(t) ==
  /\ tpc[t] = "teste"
  /\ ~EstRequete(treq[t])
  /\ tpc' = [tpc EXCEPT ![t] = "attend"]
  /\ UNCHANGED <<file, inv, herite, dpc, sent, treq, taken, treated>>

Arreter(t) ==
  /\ tpc[t] = "teste"
  /\ ~EstRequete(treq[t])
  /\ tpc' = [tpc EXCEPT ![t] = "fini"]
  /\ UNCHANGED <<file, inv, herite, dpc, sent, treq, taken, treated>>

Traiter(t) ==
  /\ tpc[t] = "teste"
  /\ EstRequete(treq[t])
  /\ treated' = treated \union {treq[t]}
  /\ tpc' = [tpc EXCEPT ![t] = "attend"]
  /\ UNCHANGED <<file, inv, herite, dpc, sent, treq, taken>>

-----------------------------------------------------------------------------
(* The process is killed, and its threads with it; the queue remains. *)
Tuer ==
  /\ dpc \in {"envoie", "libere"}
  /\ dpc' = "tue"
  /\ UNCHANGED <<file, inv, herite, sent, tpc, treq, taken, treated>>

(* The server is started again, on the queue it finds. *)
Lancer ==
  /\ dpc \in {"termine", "tue"}
  /\ inv < MaxInvocations
  /\ inv' = inv + 1
  /\ herite' = (file # <<>>)
  /\ dpc' = "envoie" /\ sent' = 0
  /\ tpc' = [t \in Traiteurs |-> "attend"]
  /\ treq' = [t \in Traiteurs |-> <<inv', 0>>]
  /\ taken' = 0
  /\ UNCHANGED <<file, treated>>

Distributeur == EnvoyerVersThreadTraiteur \/ Joindre \/ LibererMedium

Traiteur(t) == dpc \in {"envoie", "libere"} /\ (Recevoir(t) \/ Arreter(t) \/ Traiter(t))

(* Nobody starts the server any more. *)
Termine == dpc \in {"termine", "tue"} /\ UNCHANGED vars

Next ==
  \/ Distributeur
  \/ \E t \in Traiteurs : Traiteur(t)
  \/ Tuer
  \/ Lancer
  \/ Termine

Spec == Init /\ [][Next]_vars

(* Nobody has to kill the server, nor to start it again. *)
FairSpec ==
  /\ Spec
  /\ WF_vars(Distributeur)
  /\ \A t \in Traiteurs : WF_vars(Traiteur(t))

-----------------------------------------------------------------------------
TypeOK ==
  /\ file \in Seq(Messages) /\ Len(file) <= Capacite
  /\ inv \in 1..MaxInvocations
  /\ herite \in BOOLEAN
  /\ dpc \in {"envoie", "libere", "termine", "tue"}
  /\ sent \in 0..Total /\ taken \in Nat
  /\ tpc \in [Traiteurs -> {"attend", "teste", "fini"}]
  /\ treq \in [Traiteurs -> Messages]
  /\ treated \subseteq Messages

(* An invocation that found an empty medium handles its own requests, all  *)
(* of them before it removes the medium, and removes nothing unread; and   *)
(* its distributor never sends to a pool that has stopped: that takes the  *)
(* end messages of a killed invocation.  With the types.                   *)
InvocationPropre ==
  /\ TypeOK
  /\ ~herite =>
       /\ \A t \in Traiteurs : treq[t][1] = inv
       /\ dpc \in {"libere", "termine"} =>
            file = <<>> /\ \A m \in 1..NbReq : <<inv, m>> \in treated
       /\ dpc = "envoie" /\ sent < Total => Arretes # Traiteurs

(* A queue that is not empty is inherited only from a killed invocation.   *)
HeriteDUnTue == [][inv' # inv /\ herite' => dpc = "tue"]_vars

(* Whoever starts on an empty medium ends, or is killed.                   *)
TerminePropre == (dpc = "envoie" /\ ~herite) ~> (dpc \in {"termine", "tue"})

(* An invocation that finds an empty medium implements the distribution,   *)
(* until it is killed. The last one is observed: before it, the            *)
(* distribution has not begun.                                             *)
Observee == inv = MaxInvocations /\ ~herite

D == INSTANCE Distribution WITH
       sent    <- IF Observee THEN sent ELSE 0,
       taken   <- IF Observee THEN taken ELSE 0,
       current <- [t \in Traiteurs |->
                     IF Observee /\ tpc[t] \in {"teste", "fini"} THEN treq[t][2] ELSE 0],
       treated <- {m \in 1..NbReq : Observee /\ <<inv, m>> \in treated},
       stopped <- IF Observee THEN Arretes ELSE {},
       over    <- Observee /\ dpc = "termine"

DSpec == D!Spec

=============================================================================
