---------------------------- MODULE ServeursTCP ----------------------------
(***************************************************************************)
(* The four TCP servers of Cours8 and their client.  They differ in how    *)
(* many connections they serve at once: one ("seul"), all in one loop of   *)
(* libevent ("event"), all with a thread each ("fils"), or as many as the  *)
(* pool has threads ("pool").  A client waits for each answer before it    *)
(* sends the next request, until REQUETE_KO.                               *)
(***************************************************************************)
EXTENDS Naturals, Sequences, FiniteSets

CONSTANTS TcpClients, NB_MAX_REPONSES, NB_THREADS_DANS_POOL

ASSUME TcpAssumption == {NB_MAX_REPONSES, NB_THREADS_DANS_POOL} \subseteq Nat \ {0}

VARIABLES
  forme,              \* the program
  tcpVivant,          \* FALSE after SIGPIPE
  fileAcces,          \* connections that accept has not taken
  gerees,             \* connections being served
  nbReponsesAuClient, \* counter of each service
  requis, rendu,      \* a request, an answer in transit: its number, 0 if none
  tcppc, tcpLien,     \* clients; "ouvert", "clos" (FIN), "rompu" (RST)
  nbReponsesOK

tcpVars == <<forme, tcpVivant, fileAcces, gerees, nbReponsesAuClient, requis, rendu,
             tcppc, tcpLien, nbReponsesOK>>

KO == NB_MAX_REPONSES + 1

TcpInit ==
  /\ forme \in {"seul", "event", "fils", "pool"} /\ tcpVivant = TRUE
  /\ fileAcces = <<>> /\ gerees = {} /\ nbReponsesAuClient = [c \in TcpClients |-> 0]
  /\ requis = [c \in TcpClients |-> FALSE] /\ rendu = [c \in TcpClients |-> 0]
  /\ tcppc = [c \in TcpClients |-> "dehors"] /\ tcpLien = [c \in TcpClients |-> "ouvert"]
  /\ nbReponsesOK = [c \in TcpClients |-> 0]

Capacite == CASE forme = "seul" -> 1 [] forme = "pool" -> NB_THREADS_DANS_POOL
              [] OTHER -> Cardinality(TcpClients)

-----------------------------------------------------------------------------
(* clientTCP.c *)

TcpConnecter(c) ==
  /\ tcpVivant /\ tcppc[c] = "dehors" /\ tcppc' = [tcppc EXCEPT ![c] = "envoyer"]
  /\ fileAcces' = Append(fileAcces, c)
  /\ UNCHANGED <<forme, tcpVivant, gerees, nbReponsesAuClient, requis, rendu, tcpLien, nbReponsesOK>>

\* mutant: a client sends without waiting for the answers
TcpEnvoyerSansAttendre(c) ==
  /\ tcpVivant /\ tcppc[c] \in {"envoyer", "lire"} /\ tcppc' = [tcppc EXCEPT ![c] = "lire"]
  /\ requis' = [requis EXCEPT ![c] = TRUE]
  /\ UNCHANGED <<forme, tcpVivant, fileAcces, gerees, nbReponsesAuClient, rendu, tcpLien, nbReponsesOK>>

TcpEnvoyer(c) ==
  /\ tcpVivant /\ tcppc[c] = "envoyer" /\ tcppc' = [tcppc EXCEPT ![c] = "lire"]
  /\ requis' = [requis EXCEPT ![c] = TRUE]
  /\ UNCHANGED <<forme, tcpVivant, fileAcces, gerees, nbReponsesAuClient, rendu, tcpLien, nbReponsesOK>>

\* an answer that has not the number expected stops the client, REQUETE_KO ends it
TcpLire(c) ==
  /\ tcpVivant /\ tcppc[c] = "lire" /\ rendu[c] # 0 /\ rendu' = [rendu EXCEPT ![c] = 0]
  /\ \/ /\ rendu[c] = nbReponsesOK[c] + 1 /\ rendu[c] # KO
        /\ nbReponsesOK' = [nbReponsesOK EXCEPT ![c] = @ + 1]
        /\ tcppc' = [tcppc EXCEPT ![c] = "envoyer"] /\ UNCHANGED tcpLien
     \/ /\ rendu[c] # nbReponsesOK[c] + 1 \/ rendu[c] = KO
        /\ tcppc' = [tcppc EXCEPT ![c] = IF rendu[c] = KO THEN "fini" ELSE "echec"]
        /\ tcpLien' = [tcpLien EXCEPT ![c] = "clos"] /\ UNCHANGED nbReponsesOK
  /\ UNCHANGED <<forme, tcpVivant, fileAcces, gerees, nbReponsesAuClient, requis>>

\* a client is killed; an answer it has not read becomes a reset
TcpTuer(c) ==
  /\ tcpVivant /\ tcppc[c] \in {"envoyer", "lire"} /\ tcppc' = [tcppc EXCEPT ![c] = "tue"]
  /\ tcpLien' = [tcpLien EXCEPT ![c] = IF rendu[c] # 0 THEN "rompu" ELSE "clos"]
  /\ rendu' = [rendu EXCEPT ![c] = 0]
  /\ UNCHANGED <<forme, tcpVivant, fileAcces, gerees, nbReponsesAuClient, requis, nbReponsesOK>>

-----------------------------------------------------------------------------
(* The servers *)

TcpAccepter ==
  /\ tcpVivant /\ fileAcces # <<>> /\ Cardinality(gerees) < Capacite
  /\ gerees' = gerees \cup {Head(fileAcces)} /\ fileAcces' = Tail(fileAcces)
  /\ UNCHANGED <<forme, tcpVivant, nbReponsesAuClient, requis, rendu, tcppc, tcpLien, nbReponsesOK>>

\* A write to a client that left is answered with a reset, one after a reset raises
\* SIGPIPE; nbWrite < sizeof compares without a sign, and an error goes unnoticed
TcpRepondre(c) ==
  LET nb == nbReponsesAuClient[c]
  IN /\ tcpVivant /\ c \in gerees /\ requis[c] /\ requis' = [requis EXCEPT ![c] = FALSE]
     /\ nbReponsesAuClient' = [nbReponsesAuClient EXCEPT ![c] = IF nb < NB_MAX_REPONSES THEN nb + 1 ELSE nb]
     /\ tcpVivant' = (tcpLien[c] # "rompu")
     /\ tcpLien' = [tcpLien EXCEPT ![c] = IF @ = "ouvert" THEN @ ELSE "rompu"]
     /\ rendu' = [rendu EXCEPT ![c] = IF tcpLien[c] # "ouvert" THEN 0
                                      ELSE IF nb < NB_MAX_REPONSES THEN nb + 1 ELSE KO]
     /\ UNCHANGED <<forme, fileAcces, gerees, tcppc, nbReponsesOK>>

\* mutant: the thread of the pool ends with its connection
TcpFinirFil(c) ==
  /\ tcpVivant /\ c \in gerees /\ ~requis[c] /\ tcpLien[c] # "ouvert"
  /\ gerees' = IF forme = "pool" THEN gerees ELSE gerees \ {c}
  /\ UNCHANGED <<forme, tcpVivant, fileAcces, nbReponsesAuClient, requis, rendu, tcppc, tcpLien, nbReponsesOK>>

\* read returns something else than a request: close
TcpFermer(c) ==
  /\ tcpVivant /\ c \in gerees /\ ~requis[c] /\ tcpLien[c] # "ouvert" /\ gerees' = gerees \ {c}
  /\ UNCHANGED <<forme, tcpVivant, fileAcces, nbReponsesAuClient, requis, rendu, tcppc, tcpLien, nbReponsesOK>>

-----------------------------------------------------------------------------
TcpTravail ==
  TcpAccepter \/ \E c \in TcpClients : TcpEnvoyer(c) \/ TcpLire(c) \/ TcpRepondre(c) \/ TcpFermer(c)

TcpNext == TcpTravail \/ \E c \in TcpClients : TcpConnecter(c) \/ TcpTuer(c)

\* The server and the clients that were started run.  As a client asks a finite
\* number of times, it is enough that one of those that can move does
TcpFairness == WF_tcpVars(TcpTravail)

TcpSpec == TcpInit /\ [][TcpNext]_tcpVars /\ TcpFairness

-----------------------------------------------------------------------------
(* Properties *)

\* No departure of a client ends the server, since a client has one request at most
\* in transit; and the answers to a client, whatever thread serves it, carry the
\* numbers it expects
Survit ==
  /\ tcpVivant
  /\ \A c \in TcpClients : tcppc[c] # "echec" /\
       (tcppc[c] = "fini" => nbReponsesOK[c] = NB_MAX_REPONSES)

\* Liveness: TcpAttend(c) ~> TcpServi(c).  A client gets all its answers, however
\* many clients there are and however many were killed before, unless it is killed
TcpAttend(c) == tcppc[c] = "envoyer"
TcpServi(c) == tcppc[c] \in {"fini", "tue"} \/ ~tcpVivant
=============================================================================
