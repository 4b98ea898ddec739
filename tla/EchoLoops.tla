----------------------------- MODULE EchoLoops -----------------------------
(***************************************************************************)
(* The echo servers of NET4102 that serve every connection in one loop:    *)
(* echoSelect_serverMsgLen.c ("select"), echoPoll_serverMsgLen.c ("poll")  *)
(* and TP4/server.c ("tp4", on select too).  Each keeps its connections in *)
(* a structure of its own.  The cost that answers carry is left out.       *)
(***************************************************************************)
EXTENDS Naturals, Sequences, FiniteSets, FiniteSetsExt, SequencesExt

CONSTANTS
  EcClients,      \* connections
  Muet,           \* the one that sends and never reads
  Personne,       \* -1, in ufds and in clientList
  MAXFDS,         \* size of ufds, standard input and listening socket included
  Cases           \* size of clientList, without the listening socket

ASSUME EchoAssumption ==
  /\ IsFiniteSet(EcClients) /\ Muet \in EcClients /\ Personne \notin EcClients
  /\ MAXFDS \in Nat /\ MAXFDS > 2 /\ Cases \in Nat \ {0}

VARIABLES
  version,        \* the program
  etape,          \* "attendre", "passer", "clavier" (in scanf), "bloque" (in send),
                  \* "arrete" (quit#), "mort" (SIGPIPE)
  prets,          \* connections that the last select or poll reported, not yet served
  arrivee,        \* it reported the listening socket
  master, fdmax,  \* select: read_fds_master, without the two first descriptors
  fd,             \* descriptors, 0 when closed
  ufds, squeeze,  \* poll: the entries after the two first
  clientList,     \* tp4
  ecFile,         \* connections that accept has not taken
  jetes,          \* connections that the server closed or forgot, with the client there
  ecLien,         \* "hors", "ouvert", "clos" (FIN), "rompu" (RST)
  demande,        \* what each client sent, not yet read
  voisins         \* history: two neighbours of ufds left in the same pass

acces == <<master, fdmax, fd, ufds, squeeze, clientList>>
ecVars == <<version, etape, prets, arrivee, acces, ecFile, jetes, ecLien,
            demande, voisins>>

Listening == 3            \* socket_desc

EcInit ==
  /\ version \in {"select", "poll", "tp4"}
  /\ etape = "attendre" /\ prets = {} /\ arrivee = FALSE
  /\ master = {} /\ fdmax = Listening /\ fd = [c \in EcClients |-> 0]
  /\ ufds = <<>> /\ squeeze = FALSE /\ clientList = [i \in 1 .. Cases |-> Personne]
  /\ ecFile = <<>> /\ jetes = {}
  /\ ecLien = [c \in EcClients |-> "hors"] /\ demande = [c \in EcClients |-> "rien"]
  /\ voisins = FALSE

-----------------------------------------------------------------------------
(* External: the users and the network.  What a client does once the       *)
(* server has closed or forgotten its connection reaches nobody.           *)

Vivant == etape \notin {"arrete", "mort"}

EcConnecter(c) ==
  /\ Vivant /\ ecLien[c] = "hors"
  /\ ecLien' = [ecLien EXCEPT ![c] = "ouvert"] /\ ecFile' = Append(ecFile, c)
  /\ UNCHANGED <<version, etape, prets, arrivee, acces, jetes, demande, voisins>>

\* "quit#" means something to tp4 only
Demander(c) ==
  /\ Vivant /\ ecLien[c] = "ouvert" /\ c \notin jetes /\ demande[c] = "rien"
  /\ \E m \in {"echo"} \cup (IF version = "tp4" THEN {"quit#"} ELSE {}) :
       demande' = [demande EXCEPT ![c] = m]
  /\ UNCHANGED <<version, etape, prets, arrivee, acces, ecFile, jetes, ecLien, voisins>>

EcPartir(c) ==
  /\ Vivant /\ ecLien[c] = "ouvert" /\ c \notin jetes
  /\ \E l \in {"clos", "rompu"} : ecLien' = [ecLien EXCEPT ![c] = l]
  /\ UNCHANGED <<version, etape, prets, arrivee, acces, ecFile, jetes, demande, voisins>>

-----------------------------------------------------------------------------
(* The loop *)

\* where the structure has a connection, and whether select or poll is told of it
Place(c) ==
  CASE version = "select" -> {fd[c]} \cap master
    [] version = "poll" -> {i \in DOMAIN ufds : ufds[i] = c}
    [] version = "tp4" -> {i \in DOMAIN clientList : clientList[i] = c}

\* mutant: the loop stops below fdmax
SuivieDessous(c) == Place(c) # {} /\ (version = "select" => fd[c] < fdmax)

Suivie(c) == Place(c) # {} /\ (version = "select" => fd[c] <= fdmax)

Lisibles == {c \in EcClients : Suivie(c) /\ (demande[c] # "rien" \/ ecLien[c] # "ouvert")}

\* select or poll
Attendre ==
  /\ etape = "attendre" /\ (ecFile # <<>> \/ Lisibles # {})
  /\ etape' = "passer"
  /\ prets' = Lisibles /\ arrivee' = (ecFile # <<>>)
  /\ UNCHANGED <<version, acces, ecFile, jetes, ecLien, demande, voisins>>

\* the user types a line, and of all that select or poll reports the standard input
\* comes first: "quit#" ends the server, another word changes the cost of the answers
\* at most, and without a word scanf waits for one; tp4 does not read it
Taper ==
  /\ etape = "attendre" /\ version # "tp4"
  /\ etape' \in {"passer", "arrete", "clavier"}
  /\ prets' = Lisibles /\ arrivee' = (ecFile # <<>>)
  /\ UNCHANGED <<version, acces, ecFile, jetes, ecLien, demande, voisins>>

\* the word that scanf waits for
Eteindre ==
  /\ etape = "clavier" /\ etape' \in {"passer", "arrete"}
  /\ UNCHANGED <<version, prets, arrivee, acces, ecFile, jetes, ecLien, demande, voisins>>

\* accept, before the clients: their descriptors are greater, their entries later
Recevant(c) ==
  \/ /\ version = "select"
     /\ fd' = [fd EXCEPT ![c] = Min({d \in Listening + 1 .. Listening + Cardinality(EcClients) :
                                       \A b \in EcClients : fd[b] # d})]
     /\ master' = master \cup {fd'[c]} /\ fdmax' = IF fd'[c] > fdmax THEN fd'[c] ELSE fdmax
     /\ UNCHANGED <<ufds, squeeze, clientList, jetes>>
  \/ /\ version = "poll" /\ UNCHANGED <<master, fdmax, fd, squeeze, clientList>>
     /\ \/ Len(ufds) + 2 < MAXFDS /\ ufds' = Append(ufds, c) /\ UNCHANGED jetes
        \/ Len(ufds) + 2 >= MAXFDS /\ jetes' = jetes \cup {c} /\ UNCHANGED ufds
  \/ LET libres == {i \in DOMAIN clientList : clientList[i] = Personne}
     IN /\ version = "tp4" /\ UNCHANGED <<master, fdmax, fd, ufds, squeeze>>
        /\ \/ libres # {} /\ clientList' = [clientList EXCEPT ![Min(libres)] = c] /\ UNCHANGED jetes
           \/ libres = {} /\ jetes' = jetes \cup {c} /\ UNCHANGED clientList

EcAccepter ==
  /\ etape = "passer" /\ arrivee /\ arrivee' = FALSE
  /\ Recevant(Head(ecFile)) /\ ecFile' = Tail(ecFile)
  /\ UNCHANGED <<version, etape, prets, ecLien, demande, voisins>>

\* mutant: the new fdmax is looked for below the client, as if it had been fdmax
OublierDessous(c) ==
  \/ /\ version = "select" /\ master' = master \ {fd[c]} /\ fd' = [fd EXCEPT ![c] = 0]
     /\ fdmax' = Max({d \in {Listening} \cup master' : d <= fd[c]})
     /\ UNCHANGED <<ufds, squeeze, clientList, voisins>>
  \/ /\ version = "poll"
     /\ ufds' = [i \in DOMAIN ufds |-> IF ufds[i] = c THEN Personne ELSE ufds[i]]
     /\ squeeze' = TRUE /\ UNCHANGED <<master, fdmax, fd, clientList, voisins>>
  \/ version = "tp4" /\ UNCHANGED <<acces, voisins>>

\* recv returned 0 or -1: the connection is closed and forgotten; tp4 only prints a line
Oublier(c) ==
  \/ /\ version = "select" /\ master' = master \ {fd[c]} /\ fd' = [fd EXCEPT ![c] = 0]
     /\ fdmax' = Max({Listening} \cup master')
     /\ UNCHANGED <<ufds, squeeze, clientList, voisins>>
  \/ /\ version = "poll"
     /\ ufds' = [i \in DOMAIN ufds |-> IF ufds[i] = c THEN Personne ELSE ufds[i]]
     /\ voisins' = (voisins \/ \E i \in 1 .. Len(ufds) - 1 : ufds'[i] = Personne /\ ufds'[i + 1] = Personne)
     /\ squeeze' = TRUE /\ UNCHANGED <<master, fdmax, fd, clientList>>
  \/ version = "tp4" /\ UNCHANGED <<acces, voisins>>

\* the answer: send blocks while a client does not read, and raises SIGPIPE once
\* the connection is reset; tp4 closes before it answers "quit#"
Repondant(c) ==
  \/ /\ demande[c] = "quit#" /\ etape' = "passer" /\ jetes' = jetes \cup {c}
     /\ clientList' = [i \in DOMAIN clientList |-> IF clientList[i] = c THEN Personne ELSE clientList[i]]
     /\ UNCHANGED <<master, fdmax, fd, ufds, squeeze, voisins>>
  \/ /\ demande[c] = "echo" /\ UNCHANGED <<acces, jetes, voisins>>
     /\ etape' \in {"passer"} \cup (IF c = Muet THEN {"bloque"} ELSE {})
                             \cup (IF ecLien[c] = "rompu" THEN {"mort"} ELSE {})

\* the first connection that is ready, in the order of the structure; one that is
\* closed may come back as another
EcServir ==
  /\ etape = "passer" /\ ~arrivee /\ prets # {}
  /\ \E c \in prets :
       /\ \A d \in prets : Min(Place(c)) <= Min(Place(d))
       /\ prets' = prets \ {c}
       /\ \/ /\ demande[c] # "rien" /\ Repondant(c) /\ demande' = [demande EXCEPT ![c] = "rien"]
             /\ UNCHANGED ecLien
          \/ /\ demande[c] = "rien" /\ Oublier(c) /\ UNCHANGED <<etape, demande, jetes>>
             /\ ecLien' = [ecLien EXCEPT ![c] = IF version = "tp4" THEN @ ELSE "hors"]
  /\ UNCHANGED <<version, arrivee, ecFile>>

\* send returns when the client that did not read is gone
Debloquer ==
  /\ etape = "bloque" /\ ecLien[Muet] # "ouvert"
  /\ etape' \in {"passer", "mort"}
  /\ UNCHANGED <<version, prets, arrivee, acces, ecFile, jetes, ecLien, demande, voisins>>

\* squeezing_ufds: the entry that moves to where one was removed is not examined,
\* so that every second one of a run of -1 stays
Retire(i) ==
  LET debut == Max({0} \cup {j \in 1 .. i : ufds[j] # Personne}) IN (i - debut) % 2 = 1

\* mutant: nothing is squeezed
FinirSansSerrer ==
  /\ etape = "passer" /\ ~arrivee /\ prets = {} /\ etape' = "attendre"
  /\ UNCHANGED <<version, prets, arrivee, acces, ecFile, jetes, ecLien, demande, voisins>>

FinirPasse ==
  LET gardes == {i \in DOMAIN ufds : ~Retire(i)}
  IN /\ etape = "passer" /\ ~arrivee /\ prets = {} /\ etape' = "attendre"
     /\ \/ ~squeeze /\ UNCHANGED ufds
        \/ /\ squeeze    \* what stays, in its order
           /\ \E rangs \in Bijection(1 .. Cardinality(gardes), gardes) :
                /\ \A j, k \in DOMAIN rangs : j < k => rangs[j] < rangs[k]
                /\ ufds' = [k \in DOMAIN rangs |-> ufds[rangs[k]]]
     /\ squeeze' = FALSE
     /\ UNCHANGED <<version, prets, arrivee, master, fdmax, fd, clientList, ecFile,
                    jetes, ecLien, demande, voisins>>

-----------------------------------------------------------------------------
EcBoucle == Attendre \/ EcAccepter \/ EcServir \/ Debloquer \/ FinirPasse

EcNext ==
  \/ EcBoucle \/ Taper \/ Eteindre
  \/ \E c \in EcClients : EcConnecter(c) \/ Demander(c) \/ EcPartir(c)

\* The loop runs; clients owe nothing
EcFairness == WF_ecVars(EcBoucle)

EcSpec == EcInit /\ [][EcNext]_ecVars /\ EcFairness

-----------------------------------------------------------------------------
(* Properties *)

\* Whenever the loop waits, a client that has been accepted, that is there and
\* that the server has not let down is watched, at one place
EchoSuivi == etape = "attendre" =>
  \A c \in EcClients : ecLien[c] = "ouvert" /\ c \notin jetes \cup Range(ecFile) =>
    Suivie(c) /\ Cardinality(Place(c)) = 1

\* Where places are lost: poll turns a client away only when MAXFDS connections
\* are there, or after two neighbours of ufds have left in the same pass; in tp4
\* a client that leaves keeps its place for ever, unless its last word is "quit#"
PlacesPerdues == [][
  /\ version = "poll" /\ jetes' # jetes =>
       voisins \/ Cardinality({i \in DOMAIN ufds : ufds[i] # Personne}) + 2 >= MAXFDS
  /\ \A i \in DOMAIN clientList : LET c == clientList[i] IN
       c # Personne /\ ecLien[c] # "ouvert" /\ demande[c] # "quit#" => clientList'[i] = c]_ecVars

\* Liveness: EcAttend(c) ~> EcServi(c).  What a client sends is read and answered,
\* unless the server turned the client away or stopped, or waits for the one that
\* does not read, or for a word of its own user: then all wait
EcAttend(c) == demande[c] # "rien"
EcServi(c) == demande[c] = "rien" \/ c \in jetes \/ etape \in {"clavier", "bloque", "arrete", "mort"}
=============================================================================
