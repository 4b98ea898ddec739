----------------------------- MODULE MsgServer -----------------------------
(***************************************************************************)
(* The echo servers of msg_queue/: example_msg_server.c reads its queue in *)
(* a loop ("boucle"); example_msg_server_notify.c sleeps and has the       *)
(* kernel start a thread when a message arrives in an empty queue          *)
(* ("notify").  Both use the same two named queues and the same client.    *)
(* A queue outlives its name: whoever opened it before mq_unlink keeps it, *)
(* so queues are numbered by the launch that creates them.                 *)
(***************************************************************************)
EXTENDS Naturals, Sequences, FiniteSets, Functions

CONSTANTS
  Clients,        \* each runs example_msg_client once; its request is its own name
  Fin,            \* the clients whose request starts with '@'
  Threads,        \* threads the kernel may start for handle_request
  Main,           \* the server's main thread
  Adieu,          \* the reply "Terminating the server"
  Programmes,     \* the servers the user may launch
  MaxMsg,         \* mq_maxmsg
  MaxLancements   \* bound: number of server launches

ASSUME MsgAssumption ==
  /\ Fin \subseteq Clients
  /\ Adieu \notin Clients /\ Main \notin Threads
  /\ Cardinality(Threads) >= 2
  /\ Programmes \subseteq {"boucle", "notify"}
  /\ MaxMsg \in Nat /\ MaxMsg >= 1
  /\ MaxLancements \in Nat \ {0}

VARIABLES
  requetes, reponses,   \* content of every queue
  nomReq, nomRep,       \* the queue each name designates, 0: no such name
  lances,               \* launches so far
  prog,                 \* the server running, "aucun" if none
  sreq, srep,           \* the server's descriptors
  arme,                 \* a notification is registered
  pc, msg,              \* threads of the server, and the request each holds
  cpc, creq, crep,      \* clients and their descriptors
  recu,                 \* the reply each client got
  attendu               \* history: the answer a client is about to read, see Envoyer

files == <<requetes, reponses, nomReq, nomRep>>
serveur == <<lances, prog, sreq, srep, arme, pc, msg>>
client == <<cpc, creq, crep, recu>>
mqVars == <<files, serveur, client, attendu>>

Files == 1 .. MaxLancements
Fils == Threads \cup {Main}

MqInit ==
  /\ requetes = [f \in Files |-> <<>>] /\ reponses = [f \in Files |-> <<>>]
  /\ nomReq = 0 /\ nomRep = 0
  /\ lances = 0 /\ prog = "aucun" /\ sreq = 0 /\ srep = 0 /\ arme = FALSE
  /\ pc = [t \in Fils |-> "aucun"] /\ msg = [t \in Fils |-> Adieu]
  /\ cpc = [c \in Clients |-> "debut"]
  /\ creq = [c \in Clients |-> 0] /\ crep = [c \in Clients |-> 0]
  /\ recu = [c \in Clients |-> {}] /\ attendu = [c \in Clients |-> {}]

-----------------------------------------------------------------------------
(* The server *)

\* exit, or a signal: the threads die with the process and the kernel drops
\* its registration; the queues stay.  Who has no reply yet expects nothing more
Quitter ==
  /\ prog' = "aucun" /\ arme' = FALSE
  /\ pc' = [t \in Fils |-> "aucun"] /\ msg' = [t \in Fils |-> Adieu]
  /\ attendu' = [c \in Clients |-> IF cpc[c] = "attendre" /\ crep[c] \in Files /\ reponses[crep[c]] = <<>>
                                   THEN {} ELSE attendu[c]]
  /\ UNCHANGED <<lances, sreq, srep>>

\* mq_open of the requests: creates the queue unless the name exists
LancerServeur ==
  /\ prog = "aucun" /\ lances < MaxLancements
  /\ \E p \in Programmes : prog' = p
  /\ lances' = lances + 1
  /\ nomReq' = IF nomReq = 0 THEN lances' ELSE nomReq
  /\ sreq' = nomReq' /\ srep' = 0
  /\ pc' = [pc EXCEPT ![Main] = "ouvrir_rep"]
  /\ UNCHANGED <<requetes, reponses, nomRep, arme, msg, client, attendu>>

OuvrirReponses ==
  /\ pc[Main] = "ouvrir_rep"
  /\ nomRep' = IF nomRep = 0 THEN lances ELSE nomRep
  /\ srep' = nomRep'
  /\ pc' = [pc EXCEPT ![Main] = IF prog = "notify" THEN "rearmer" ELSE "recevoir"]
  /\ UNCHANGED <<requetes, reponses, nomReq, lances, prog, sreq, arme, msg, client, attendu>>

\* mutant: handle_request does not register again
DemanderUneFois(t) ==
  /\ pc[t] = "rearmer"
  /\ arme' = (t = Main)
  /\ pc' = [pc EXCEPT ![t] = IF t = Main THEN "veille" ELSE "aucun"]
  /\ UNCHANGED <<files, lances, prog, sreq, srep, msg, client, attendu>>

\* ask_for_notification, by main and at the end of handle_request; a second
\* registration is refused with EBUSY and the server exits
DemanderNotification(t) ==
  /\ pc[t] = "rearmer"
  /\ IF arme THEN Quitter
     ELSE /\ arme' = TRUE
          /\ pc' = [pc EXCEPT ![t] = IF t = Main THEN "veille" ELSE "aucun"]
          /\ UNCHANGED <<lances, prog, sreq, srep, msg, attendu>>
  /\ UNCHANGED <<files, client>>

\* mutant: handle_request registers again before it has read the queue
RecevoirRearme(t) ==
  /\ pc[t] = "recevoir" /\ requetes[sreq] # <<>>
  /\ msg' = [msg EXCEPT ![t] = Head(requetes[sreq])]
  /\ requetes' = [requetes EXCEPT ![sreq] = Tail(@)]
  /\ pc' = [pc EXCEPT ![t] = "repondre"] /\ arme' = (t # Main)
  /\ UNCHANGED <<reponses, nomReq, nomRep, lances, prog, sreq, srep, client, attendu>>

\* mutant: the main thread reads too, instead of sleeping
RecevoirEnVeille(t) ==
  /\ pc[t] \in {"recevoir", "veille"} /\ requetes[sreq] # <<>>
  /\ msg' = [msg EXCEPT ![t] = Head(requetes[sreq])]
  /\ requetes' = [requetes EXCEPT ![sreq] = Tail(@)]
  /\ pc' = [pc EXCEPT ![t] = "repondre"]
  /\ UNCHANGED <<reponses, nomReq, nomRep, lances, prog, sreq, srep, arme, client, attendu>>

\* mutant: the request is read into another buffer than the one answered
RecevoirSansCopier(t) ==
  /\ pc[t] = "recevoir" /\ requetes[sreq] # <<>>
  /\ requetes' = [requetes EXCEPT ![sreq] = Tail(@)]
  /\ pc' = [pc EXCEPT ![t] = "repondre"]
  /\ UNCHANGED <<reponses, nomReq, nomRep, lances, prog, sreq, srep, arme, msg, client, attendu>>

RecevoirMessage(t) ==
  /\ pc[t] = "recevoir" /\ requetes[sreq] # <<>>
  /\ msg' = [msg EXCEPT ![t] = Head(requetes[sreq])]
  /\ requetes' = [requetes EXCEPT ![sreq] = Tail(@)]
  /\ pc' = [pc EXCEPT ![t] = "repondre"]
  /\ UNCHANGED <<reponses, nomReq, nomRep, lances, prog, sreq, srep, arme, client, attendu>>

Reponse(m) == IF m \in Fin THEN Adieu ELSE m

\* mutant: the reply is sent before the previous ones were read
RepondreSansPlace(t) ==
  /\ pc[t] = "repondre"
  /\ reponses' = [reponses EXCEPT ![srep] = Append(@, Reponse(msg[t]))]
  /\ pc' = [pc EXCEPT ![t] = IF msg[t] \in Fin THEN "detruire_req"
                             ELSE IF t = Main THEN "recevoir" ELSE "rearmer"]
  /\ msg' = [msg EXCEPT ![t] = Adieu]
  /\ UNCHANGED <<requetes, nomReq, nomRep, lances, prog, sreq, srep, arme, client, attendu>>

\* blocks while the queue of replies is full; the request is dead afterwards
Repondre(t) ==
  /\ pc[t] = "repondre" /\ Len(reponses[srep]) < MaxMsg
  /\ reponses' = [reponses EXCEPT ![srep] = Append(@, Reponse(msg[t]))]
  /\ pc' = [pc EXCEPT ![t] = IF msg[t] \in Fin THEN "detruire_req"
                             ELSE IF t = Main THEN "recevoir" ELSE "rearmer"]
  /\ msg' = [msg EXCEPT ![t] = Adieu]
  /\ UNCHANGED <<requetes, nomReq, nomRep, lances, prog, sreq, srep, arme, client, attendu>>

DetruireRequetes(t) ==
  /\ pc[t] = "detruire_req"
  /\ nomReq' = 0
  /\ pc' = [pc EXCEPT ![t] = "detruire_rep"]
  /\ UNCHANGED <<requetes, reponses, nomRep, lances, prog, sreq, srep, arme, msg, client, attendu>>

DetruireReponses(t) ==
  /\ pc[t] = "detruire_rep"
  /\ nomRep' = 0
  /\ Quitter
  /\ UNCHANGED <<requetes, reponses, nomReq, client>>

\* external: the user kills the server
TuerServeur == prog # "aucun" /\ Quitter /\ UNCHANGED <<files, client>>

-----------------------------------------------------------------------------
(* The clients *)

\* no O_CREAT: the client exits when no server has created the queue
OuvrirRequete(c) ==
  /\ cpc[c] = "debut"
  /\ creq' = [creq EXCEPT ![c] = nomReq]
  /\ cpc' = [cpc EXCEPT ![c] = IF nomReq = 0 THEN "echec" ELSE "ouvrir_rep"]
  /\ UNCHANGED <<files, serveur, crep, recu, attendu>>

\* the test that follows reads "requests" again: a failure goes unseen
OuvrirReponse(c) ==
  /\ cpc[c] = "ouvrir_rep"
  /\ crep' = [crep EXCEPT ![c] = nomRep]
  /\ cpc' = [cpc EXCEPT ![c] = "envoyer"]
  /\ UNCHANGED <<files, serveur, creq, recu, attendu>>

\* external: the kernel starts handle_request when a message arrives in the
\* empty queue of a registered process, and drops the registration
Notifier(f) ==
  IF arme /\ f = sreq /\ requetes[f] = <<>>
    THEN /\ arme' = FALSE
         /\ \E t \in Threads : pc[t] = "aucun" /\ pc' = [pc EXCEPT ![t] = "recevoir"]
    ELSE UNCHANGED <<arme, pc>>

\* the answers still due by the server, oldest first: replies that wait, the
\* request in hand, requests that wait.  The first of them, c's own request last
PlusAncienne(c) ==
  LET enMain == {t \in Fils : pc[t] = "repondre"}
  IN IF reponses[srep] # <<>> THEN {Head(reponses[srep])}
     ELSE IF enMain # {} THEN {Reponse(msg[t]) : t \in enMain}
     ELSE {Reponse(Head(requetes[sreq] \o <<c>>))}

\* c has the queues of the server that runs
Relie(c) == prog # "aucun" /\ srep # 0 /\ creq[c] = sreq /\ crep[c] = srep

\* blocks while the queue of requests is full
Envoyer(c) ==
  /\ cpc[c] = "envoyer" /\ Len(requetes[creq[c]]) < MaxMsg
  /\ requetes' = [requetes EXCEPT ![creq[c]] = Append(@, c)]
  /\ Notifier(creq[c])
  /\ cpc' = [cpc EXCEPT ![c] = "attendre"]
  /\ attendu' = [attendu EXCEPT ![c] = IF Relie(c) THEN PlusAncienne(c) ELSE {}]
  /\ UNCHANGED <<reponses, nomReq, nomRep, lances, prog, sreq, srep, msg, creq, crep, recu>>

\* the process ends
Fermer(c) == creq' = [creq EXCEPT ![c] = 0] /\ crep' = [crep EXCEPT ![c] = 0]

RecevoirReponse(c) ==
  /\ cpc[c] = "attendre"
  /\ \/ crep[c] = 0 /\ cpc' = [cpc EXCEPT ![c] = "echec"] /\ UNCHANGED <<reponses, recu, attendu>>
     \/ /\ crep[c] # 0 /\ reponses[crep[c]] # <<>>
        /\ recu' = [recu EXCEPT ![c] = {Head(reponses[crep[c]])}]
        /\ reponses' = [reponses EXCEPT ![crep[c]] = Tail(@)]
        /\ cpc' = [cpc EXCEPT ![c] = "fini"]
        /\ attendu' = [d \in Clients |-> IF d # c /\ cpc[d] = "attendre" /\ crep[d] = crep[c]
                                         THEN {} ELSE attendu[d]]
  /\ Fermer(c)
  /\ UNCHANGED <<requetes, nomReq, nomRep, serveur>>

\* external: the user gives up a client that waits
Interrompre(c) ==
  /\ cpc[c] = "attendre"
  /\ cpc' = [cpc EXCEPT ![c] = "tue"]
  /\ Fermer(c)
  /\ UNCHANGED <<files, serveur, recu, attendu>>

-----------------------------------------------------------------------------
TraiterMessage(t) ==
  DemanderNotification(t) \/ RecevoirMessage(t) \/ Repondre(t)
    \/ DetruireRequetes(t) \/ DetruireReponses(t)

Client(c) == OuvrirReponse(c) \/ Envoyer(c) \/ RecevoirReponse(c)

MqNext ==
  \/ LancerServeur \/ OuvrirReponses \/ TuerServeur
  \/ \E t \in Fils : TraiterMessage(t)
  \/ \E c \in Clients : OuvrirRequete(c) \/ Client(c) \/ Interrompre(c)

MqSpec == MqInit /\ [][MqNext]_mqVars

\* A process that runs goes on; nobody has to launch or kill anything
MqFairness ==
  /\ WF_mqVars(OuvrirReponses)
  /\ \A t \in Fils : WF_mqVars(TraiterMessage(t))
  /\ \A c \in Clients : WF_mqVars(Client(c))

MqFairSpec == MqSpec /\ MqFairness

-----------------------------------------------------------------------------
(* Properties *)

EtatsServeur == {"aucun", "ouvrir_rep", "rearmer", "veille", "recevoir", "repondre",
                 "detruire_req", "detruire_rep"}
EtatsClient == {"debut", "ouvrir_rep", "envoyer", "attendre", "fini", "echec", "tue"}

\* Types, and no queue holds more than mq_maxmsg messages
MqTypeOK ==
  /\ \A f \in Files : /\ requetes[f] \in Seq(Clients) /\ Len(requetes[f]) <= MaxMsg
                      /\ reponses[f] \in Seq(Clients \cup {Adieu}) /\ Len(reponses[f]) <= MaxMsg
  /\ {nomReq, nomRep, lances, sreq, srep} \subseteq 0 .. MaxLancements
  /\ prog \in Programmes \cup {"aucun"} /\ arme \in BOOLEAN
  /\ pc \in [Fils -> EtatsServeur] /\ msg \in [Fils -> Clients \cup {Adieu}]
  /\ cpc \in [Clients -> EtatsClient]
  /\ creq \in [Clients -> 0 .. MaxLancements] /\ crep \in [Clients -> 0 .. MaxLancements]
  /\ recu \in [Clients -> SUBSET (Clients \cup {Adieu})] 
  /\ attendu \in [Clients -> SUBSET (Clients \cup {Adieu})]

Actifs == {t \in Threads : pc[t] # "aucun"}

\* handle_request is not reentrant, and never needs to be: at most one thread
\* runs it, and no registration is left while it runs, so that its own
\* mq_notify is never refused.  With the types
UnSeulTraitement ==
  /\ MqTypeOK
  /\ Cardinality(Actifs) <= 1
  /\ arme => Actifs = {}

\* What a client reads when nobody reads before it and the server lives on until
\* its reply is there: the oldest answer that was due when it sent.  So it is its own
\* exactly when nothing was due; each reply or request that an interrupted client
\* left, in a full queue or through a restart, shifts all the later ones by one
ReponseDue == \A c \in Clients :
  attendu[c] # {} /\ cpc[c] = "fini" => recu[c] = attendu[c]

\* The server is registered, no thread reads, and requests wait
Sourd == prog = "notify" /\ arme /\ requetes[sreq] # <<>> /\ Actifs = {}

\* Messages that arrive while the queue is not empty notify nobody: once deaf,
\* the server stays so until it is killed
SourdPourToujours == [][Sourd => Sourd' \/ prog' = "aucun"]_mqVars

\* A thread waits for a place in the queue of replies, and nobody to make one
Bloque ==
  /\ \E t \in Fils : pc[t] = "repondre" /\ Len(reponses[srep]) = MaxMsg
  /\ \A c \in Clients : cpc[c] = "attendre" => crep[c] # srep

\* A request in the queue of a running server is read in the end, unless the
\* server dies, is deaf, or is blocked by replies that nobody reads
Servie == \A c \in Clients :
  (prog # "aucun" /\ c \in Range(requetes[sreq]))
    ~> (prog = "aucun" \/ Sourd \/ Bloque \/ c \notin Range(requetes[sreq]))

\* With the first server, a client that waits for its reply gets one, unless
\* the server is deaf or dies
AttenteBornee == \A c \in Clients :
  (lances = 1 /\ prog # "aucun" /\ cpc[c] = "attendre")
    ~> (prog = "aucun" \/ Sourd \/ cpc[c] # "attendre")

\* What the header of example_msg_server_notify.c says: the server stops when a
\* client sends a message starting with @
ArretSurDemande == \A c \in Fin :
  (prog = "notify" /\ c \in Range(requetes[sreq])) ~> prog = "aucun"
=============================================================================
