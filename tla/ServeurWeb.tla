----------------------------- MODULE ServeurWeb ----------------------------
(***************************************************************************)
(* DM2, ServeurWeb: one detached thread per connection reads a request up  *)
(* to its blank line and answers; all increment compteurReponse, without a *)
(* lock.  A request comes in segments: "tout" is all of it, "debut" all    *)
(* but the end, "suite" an end that one read shows, "coupe" an end that    *)
(* two reads split inside the blank line.                                  *)
(***************************************************************************)
EXTENDS Naturals, Sequences, FiniteSets, SequencesExt

CONSTANTS
  WbClients,      \* connections
  MaxFd           \* descriptors the server may have open

ASSUME WebAssumption == MaxFd \in Nat \ {0}

VARIABLES
  wbVivant,       \* FALSE once the server has exited
  wbpc,           \* threads
  flux,           \* segments sent and not yet read
  wbLien,         \* "ouvert", "clos" (FIN), "rompu" (RST)
  ouverts,        \* connections whose descriptor is open in the server
  compteurReponse,
  charge,         \* the value each thread increments
  numero,         \* the number in each answer, 0 before
  croise          \* history: two threads were in gestion_compteurReponse at once

compteur == <<compteurReponse, charge, numero, croise>>
wbVars == <<wbVivant, wbpc, flux, wbLien, ouverts, compteur>>

WbInit ==
  /\ wbVivant = TRUE /\ wbpc = [c \in WbClients |-> "dehors"]
  /\ flux = [c \in WbClients |-> <<>>]
  /\ wbLien = [c \in WbClients |-> "ouvert"] /\ ouverts = {}
  /\ compteurReponse = 0 /\ charge = [c \in WbClients |-> 0]
  /\ numero = [c \in WbClients |-> 0] /\ croise = FALSE

Passe(c, p) == wbpc' = [wbpc EXCEPT ![c] = p]

-----------------------------------------------------------------------------
(* External: the clients *)

\* accept fails when no descriptor is left, and the server exits
WbConnecter(c) ==
  /\ wbVivant /\ wbpc[c] = "dehors"
  /\ \/ /\ Cardinality(ouverts) = MaxFd /\ wbVivant' = FALSE /\ UNCHANGED <<wbpc, ouverts>>
     \/ /\ Cardinality(ouverts) < MaxFd /\ ouverts' = ouverts \cup {c} /\ Passe(c, "lire")
        /\ UNCHANGED wbVivant
  /\ UNCHANGED <<flux, wbLien, compteur>>

WbEnvoyer(c) ==
  /\ wbVivant /\ wbLien[c] = "ouvert"
  /\ \E s \in {"tout", "debut", "suite", "coupe"} :
       /\ IF s \in {"tout", "debut"} THEN wbpc[c] = "lire" /\ flux[c] = <<>>
          ELSE (wbpc[c] = "entete" /\ flux[c] = <<>>) \/ flux[c] = <<"debut">>
       /\ flux' = [flux EXCEPT ![c] = Append(@, s)]
  /\ UNCHANGED <<wbVivant, wbpc, wbLien, ouverts, compteur>>

WbPartir(c) ==
  /\ wbVivant /\ wbpc[c] \notin {"dehors", "fini"} /\ wbLien[c] = "ouvert"
  /\ \E l \in {"clos", "rompu"} : wbLien' = [wbLien EXCEPT ![c] = l]
  /\ UNCHANGED <<wbVivant, wbpc, flux, ouverts, compteur>>

-----------------------------------------------------------------------------
(* The thread of a connection *)

\* the first read; an error ends the server, the end of the stream the thread
LireRequete(c) ==
  /\ wbVivant /\ wbpc[c] = "lire"
  /\ \/ /\ flux[c] # <<>> /\ flux' = [flux EXCEPT ![c] = Tail(@)]
        /\ Passe(c, IF Head(flux[c]) = "tout" THEN "traiter" ELSE "entete") /\ UNCHANGED wbVivant
     \/ flux[c] = <<>> /\ wbLien[c] = "clos" /\ Passe(c, "fini") /\ UNCHANGED <<flux, wbVivant>>
     \/ flux[c] = <<>> /\ wbLien[c] = "rompu" /\ wbVivant' = FALSE /\ UNCHANGED <<wbpc, flux>>
  /\ UNCHANGED <<wbLien, ouverts, compteur>>

\* mutant: the blank line is looked for in the first read only
LireEnteteSansFin(c) ==
  /\ wbVivant /\ wbpc[c] \in {"entete", "manque"}
  /\ \/ /\ flux[c] # <<>> /\ flux' = [flux EXCEPT ![c] = Tail(@)] /\ UNCHANGED <<wbpc, ouverts>>
     \/ flux[c] = <<>> /\ wbLien[c] = "rompu" /\ Passe(c, "fini") /\ ouverts' = ouverts \ {c}
        /\ UNCHANGED flux
  /\ UNCHANGED <<wbVivant, wbLien, compteur>>

\* the loop up to the blank line; the end of the stream is not tested, and the
\* thread then spins on read: no step.  What a read leaves of the one before may
\* complete a blank line that two reads split; otherwise that line is "manque", missed
LireEntete(c) ==
  /\ wbVivant /\ wbpc[c] \in {"entete", "manque"}
  /\ \/ /\ flux[c] # <<>> /\ flux' = [flux EXCEPT ![c] = Tail(@)] /\ UNCHANGED ouverts
        /\ \/ Passe(c, "traiter")
           \/ Head(flux[c]) = "coupe" /\ Passe(c, "manque")
     \/ flux[c] = <<>> /\ wbLien[c] = "rompu" /\ Passe(c, "fini") /\ ouverts' = ouverts \ {c}
        /\ UNCHANGED flux
  /\ UNCHANGED <<wbVivant, wbLien, compteur>>

\* a write to a client that left may raise SIGPIPE
Ecrivant(c, suite) ==
  \/ Passe(c, suite) /\ UNCHANGED wbVivant
  \/ wbLien[c] # "ouvert" /\ wbVivant' = FALSE /\ UNCHANGED wbpc

\* the start of the page, or a refusal, whose connection stays open
Traiter(c) ==
  /\ wbVivant /\ wbpc[c] = "traiter"
  /\ Ecrivant(c, "charger") \/ Ecrivant(c, "fini")
  /\ UNCHANGED <<flux, wbLien, ouverts, compteur>>

\* compteurReponse += 1 reads and writes in two accesses, return reads again
Charger(c) ==
  /\ wbVivant /\ wbpc[c] = "charger" /\ Passe(c, "ranger")
  /\ charge' = [charge EXCEPT ![c] = compteurReponse]
  /\ croise' = (croise \/ \E b \in WbClients : wbpc[b] \in {"ranger", "relire"})
  /\ UNCHANGED <<wbVivant, flux, wbLien, ouverts, compteurReponse, numero>>

Ranger(c) ==
  /\ wbVivant /\ wbpc[c] = "ranger" /\ Passe(c, "relire")
  /\ compteurReponse' = charge[c] + 1
  /\ UNCHANGED <<wbVivant, flux, wbLien, ouverts, charge, numero, croise>>

\* mutant: the number is the one before the increment
RelireAvant(c) ==
  /\ wbVivant /\ wbpc[c] = "relire" /\ Passe(c, "fermer")
  /\ numero' = [numero EXCEPT ![c] = charge[c]] /\ charge' = [charge EXCEPT ![c] = 0]
  /\ UNCHANGED <<wbVivant, flux, wbLien, ouverts, compteurReponse, croise>>

Relire(c) ==
  /\ wbVivant /\ wbpc[c] = "relire" /\ Passe(c, "fermer")
  /\ numero' = [numero EXCEPT ![c] = compteurReponse] /\ charge' = [charge EXCEPT ![c] = 0]
  /\ UNCHANGED <<wbVivant, flux, wbLien, ouverts, compteurReponse, croise>>

\* the end of the page, close
WbFermer(c) ==
  /\ wbVivant /\ wbpc[c] = "fermer" /\ Ecrivant(c, "fini")
  /\ ouverts' = IF wbVivant' THEN ouverts \ {c} ELSE ouverts
  /\ UNCHANGED <<flux, wbLien, compteur>>

-----------------------------------------------------------------------------
HandleConnection(c) ==
  \/ LireRequete(c) \/ LireEntete(c) \/ Traiter(c)
  \/ Charger(c) \/ Ranger(c) \/ Relire(c) \/ WbFermer(c)

WbNext == \E c \in WbClients :
  WbConnecter(c) \/ WbEnvoyer(c) \/ WbPartir(c) \/ HandleConnection(c)

\* The threads run; clients owe nothing.  As a connection is finite, it is enough
\* that one of the threads that can move does
WbFairness == WF_wbVars(\E c \in WbClients : HandleConnection(c))

WbSpec == WbInit /\ [][WbNext]_wbVars /\ WbFairness

-----------------------------------------------------------------------------
(* Properties *)

\* As long as no two threads are in gestion_compteurReponse at once, the answers
\* carry different numbers, and the counter is the number of increments
NumerosJustes == ~croise =>
  /\ \A b, c \in WbClients : numero[b] = numero[c] /\ numero[b] # 0 => b = c
  /\ compteurReponse =
       Cardinality({c \in WbClients : wbpc[c] = "relire" \/ numero[c] # 0})

\* Liveness: WbAttend(c) ~> WbServi(c).  A request whose blank line comes in one
\* piece is answered, and its connection closed if that gave it a number, unless the client
\* leaves or the server exits
WbAttend(c) == flux[c] # <<>> /\ Last(flux[c]) \in {"tout", "suite"}
WbServi(c) == ~wbVivant \/ wbLien[c] # "ouvert" \/
              (wbpc[c] = "fini" /\ (numero[c] # 0 => c \notin ouverts))
=============================================================================
