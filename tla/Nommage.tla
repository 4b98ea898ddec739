------------------------------ MODULE Nommage ------------------------------
(***************************************************************************)
(* The three answers to the exercise of Cours8, Exo: a server receives     *)
(* names through a queue, and threads look them up and answer through the  *)
(* queue of the client.  Q1 starts a thread per request, all on the one    *)
(* buffer; Q2 allocates a buffer per request and sends its address to      *)
(* three threads through a pipe; Q3 has a pipe and a thread per letter.    *)
(***************************************************************************)
EXTENDS Naturals, Sequences, SequencesExt

CONSTANTS
  NoClients,      \* each runs client.c once, for a name of its own
  Lettre,         \* the first letter of each name
  Ouvriers,       \* threads of Q2
  Inconnu         \* no client; "Desole, je ne le connais pas"

Lettres == {Lettre[c] : c \in NoClients}

ASSUME NommageAssumption ==
  /\ DOMAIN Lettre = NoClients /\ Inconnu \notin NoClients
  /\ NoClients \cap (Ouvriers \cup Lettres) = {} /\ Ouvriers \cap Lettres = {}

VARIABLES
  question,       \* the program
  noVivant,       \* FALSE once the server has exited
  requete,        \* Q1: the buffer of main
  mqRequetes,     \* requests in the queue; a request is known by its client
  descripteurTube, \* addresses in the pipe of Q2, in all those of Q3
  nopc, pRequete, \* threads, and the request each was given
  contenu,        \* the answer each has computed
  mqReponses,     \* the client whose queue each has opened
  nocpc, reponses, \* clients, and the answers in their queues
  obtenu,         \* the answer each has read
  recouvert       \* history: a request was received while a thread of Q1 worked

noServeur == <<requete, mqRequetes, descripteurTube, recouvert>>
noClient == <<nocpc, reponses, obtenu>>
noVars == <<question, noVivant, noServeur, nopc, pRequete, contenu, mqReponses, noClient>>

\* the thread that Q1 starts for a request is named after it
NoFils == CASE question = "Q1" -> NoClients [] question = "Q2" -> Ouvriers
            [] question = "Q3" -> Lettres

NoInit ==
  /\ question \in {"Q1", "Q2", "Q3"} /\ noVivant = TRUE
  /\ requete = Inconnu /\ mqRequetes = <<>> /\ descripteurTube = <<>> /\ recouvert = FALSE
  /\ nopc = [t \in NoFils |-> "absent"] /\ pRequete = [t \in NoFils |-> Inconnu]
  /\ contenu = [t \in NoFils |-> Inconnu] /\ mqReponses = [t \in NoFils |-> Inconnu]
  /\ nocpc = [c \in NoClients |-> "debut"] /\ reponses = [c \in NoClients |-> <<>>]
  /\ obtenu = [c \in NoClients |-> {}]

\* client.c: its queue, then its request
NoDemander(c) ==
  /\ nocpc[c] = "debut" /\ nocpc' = [nocpc EXCEPT ![c] = "attend"]
  /\ mqRequetes' = Append(mqRequetes, c)
  /\ UNCHANGED <<question, noVivant, requete, descripteurTube, recouvert, nopc, pRequete,
                 contenu, mqReponses, reponses, obtenu>>

\* its answer, then mq_unlink
NoLire(c) ==
  /\ nocpc[c] = "attend" /\ reponses[c] # <<>>
  /\ obtenu' = [obtenu EXCEPT ![c] = {Head(reponses[c])}]
  /\ nocpc' = [nocpc EXCEPT ![c] = "fini"] /\ reponses' = [reponses EXCEPT ![c] = Tail(@)]
  /\ UNCHANGED <<question, noVivant, noServeur, nopc, pRequete, contenu, mqReponses>>

\* mutant: the address that was given to the thread before is given again
DonnerAncienne(t, c) ==
  /\ nopc' = [nopc EXCEPT ![t] = "chercher"]
  /\ pRequete' = [pRequete EXCEPT ![t] = IF @ = Inconnu THEN c ELSE @]

Donner(t, c) == nopc' = [nopc EXCEPT ![t] = "chercher"] /\ pRequete' = [pRequete EXCEPT ![t] = c]

\* the loop of main: mq_receive, then pthread_create or write to the pipe
NoRecevoir ==
  /\ noVivant /\ mqRequetes # <<>> /\ mqRequetes' = Tail(mqRequetes)
  /\ \/ /\ question = "Q1" /\ requete' = Head(mqRequetes)
        /\ Donner(Head(mqRequetes), Head(mqRequetes))
        /\ recouvert' = (recouvert \/ \E t \in NoFils : nopc[t] # "absent")
        /\ UNCHANGED descripteurTube
     \/ /\ question # "Q1" /\ descripteurTube' = Append(descripteurTube, Head(mqRequetes))
        /\ UNCHANGED <<requete, recouvert, nopc, pRequete>>
  /\ UNCHANGED <<question, noVivant, contenu, mqReponses, noClient>>

\* a thread of Q2 or Q3 reads an address
Prendre(t) ==
  LET siens == {i \in DOMAIN descripteurTube : question = "Q2" \/ Lettre[descripteurTube[i]] = t}
  IN /\ noVivant /\ question # "Q1" /\ nopc[t] = "absent"
     /\ \E i \in siens : /\ \A j \in siens : i <= j
                         /\ Donner(t, descripteurTube[i])
                         /\ descripteurTube' = RemoveAt(descripteurTube, i)
     /\ UNCHANGED <<question, noVivant, requete, mqRequetes, recouvert, contenu, mqReponses, noClient>>

\* what *pRequete holds now
Pointe(t) == IF question = "Q1" THEN requete ELSE pRequete[t]

\* the file is searched for pRequete->contenu, read again at each line
Chercher(t) ==
  /\ noVivant /\ nopc[t] = "chercher" /\ nopc' = [nopc EXCEPT ![t] = "ouvrir"]
  /\ \E r \in {pRequete[t], Pointe(t)} \cup (IF Pointe(t) = pRequete[t] THEN {} ELSE {Inconnu}) :
       contenu' = [contenu EXCEPT ![t] = r]
  /\ UNCHANGED <<question, noVivant, noServeur, pRequete, mqReponses, noClient>>

\* mq_open of pRequete->pointAccesClient: the server exits when that client has
\* unlinked its queue
Ouvrir(t) ==
  /\ noVivant /\ nopc[t] = "ouvrir"
  /\ \/ nocpc[Pointe(t)] = "fini" /\ noVivant' = FALSE /\ UNCHANGED <<nopc, mqReponses>>
     \/ /\ nocpc[Pointe(t)] # "fini" /\ nopc' = [nopc EXCEPT ![t] = "repondre"]
        /\ mqReponses' = [mqReponses EXCEPT ![t] = Pointe(t)] /\ UNCHANGED noVivant
  /\ UNCHANGED <<question, noServeur, pRequete, contenu, noClient>>

\* mutant: the threads do not loop
NoRepondreUnique(t) ==
  /\ noVivant /\ nopc[t] = "repondre" /\ nopc' = [nopc EXCEPT ![t] = "fini"]
  /\ reponses' = [reponses EXCEPT ![mqReponses[t]] = Append(@, contenu[t])]
  /\ UNCHANGED <<question, noVivant, noServeur, pRequete, contenu, mqReponses, nocpc, obtenu>>

\* mq_send, and free in Q2 and Q3
NoRepondre(t) ==
  /\ noVivant /\ nopc[t] = "repondre" /\ nopc' = [nopc EXCEPT ![t] = "absent"]
  /\ reponses' = [reponses EXCEPT ![mqReponses[t]] = Append(@, contenu[t])]
  /\ UNCHANGED <<question, noVivant, noServeur, pRequete, contenu, mqReponses, nocpc, obtenu>>

-----------------------------------------------------------------------------
TraiterRequete(t) == Prendre(t) \/ Chercher(t) \/ Ouvrir(t) \/ NoRepondre(t)

NoTravail == NoRecevoir \/ (\E t \in NoFils : TraiterRequete(t)) \/ (\E c \in NoClients : NoLire(c))

\* main, the threads and the clients run, and nobody has to start a client.  As a
\* client asks once, it is enough that one of those that can move does
NoFairness == WF_noVars(NoTravail)

NoNext == NoTravail \/ \E c \in NoClients : NoDemander(c)

NoSpec == NoInit /\ [][NoNext]_noVars /\ NoFairness

-----------------------------------------------------------------------------
(* Properties *)

\* What the buffer per request is for: in Q2 and Q3, and in Q1 as long as no
\* request is received while a thread works, the server lives and nobody gets
\* the answer to another
BonneReponse == question # "Q1" \/ ~recouvert =>
  noVivant /\ \A c \in NoClients : obtenu[c] \subseteq {c}

\* Liveness: NoAttend(c) ~> NoServi(c).  A client that asks gets an answer, with
\* the same exception
NoAttend(c) == nocpc[c] = "attend"
NoServi(c) == nocpc[c] = "fini" \/ (question = "Q1" /\ recouvert)
=============================================================================
