----------------------------- MODULE ChatPoll ------------------------------
(***************************************************************************)
(* The chat server of CSC4103, TP10_Exam: one loop over the array of poll, *)
(* and a linked list of the clients, kept here as a sequence from          *)
(* addr_first_cli on.  The entry 0 of the array, the listening socket, is  *)
(* apart: fds[i] is the client of the entry i.                             *)
(***************************************************************************)
EXTENDS Naturals, Sequences, FiniteSets, FiniteSetsExt, SequencesExt

CONSTANTS
  ChClients,      \* processes that run client.c, once each
  Ignore,         \* the descriptor -1, that poll ignores
  Distrait,       \* a client that may stop reading, and stay connected
  MAX_CLIENTS

ASSUME ChatAssumption ==
  Ignore \notin ChClients /\ Distrait \in ChClients /\ MAX_CLIENTS \in Nat \ {0}

VARIABLES
  boucle,         \* the loop: "poll", "ecouter", "pid", "balayer", "lire", "bloque" (in
                  \* fwrite), or "mort"
  rang,           \* its index i
  fds, revents,   \* the array: descriptors, and what poll said of each in this pass
  clients,        \* the list
  chFile,         \* connections that accept has not taken
  nouveau,        \* the one it has just taken
  chLien,         \* the client's end: "dehors", "connecte" (its pid is not sent),
                  \* "ouvert", "clos" (FIN), "rompu" (RST)
  lignes,         \* what of each client is not read: 0, 1 (a line without its end), 2 (a line)
  reste,          \* whom the loop still has to write to when fwrite returns
  chTas           \* history: fields that malloc left and that were not zero

chVars == <<boucle, rang, fds, revents, clients, chFile, nouveau, chLien, lignes, reste, chTas>>

ChInit ==
  /\ boucle = "poll" /\ rang = 0 /\ fds = <<>> /\ revents = <<>> /\ clients = <<>>
  /\ chFile = <<>> /\ nouveau = Ignore
  /\ chLien = [c \in ChClients |-> "dehors"] /\ lignes = [c \in ChClients |-> 0]
  /\ reste = {} /\ chTas = {}

-----------------------------------------------------------------------------
(* External: the users and the network *)

ChConnecter(c) ==
  /\ boucle # "mort" /\ chLien[c] = "dehors"
  /\ chLien' = [chLien EXCEPT ![c] = "connecte"] /\ chFile' = Append(chFile, c)
  /\ UNCHANGED <<boucle, rang, fds, revents, clients, nouveau, lignes, reste, chTas>>

\* client.c writes its pid right after connect
EnvoyerPid(c) ==
  /\ boucle # "mort" /\ chLien[c] = "connecte"
  /\ chLien' = [chLien EXCEPT ![c] = "ouvert"]
  /\ UNCHANGED <<boucle, rang, fds, revents, clients, chFile, nouveau, lignes, reste, chTas>>

\* a line, or a piece of it: the network cuts it, or the user ends it without a
\* newline.  Bound: one line in transit
ChEcrire(c) ==
  /\ boucle # "mort" /\ chLien[c] = "ouvert" /\ lignes[c] < 2
  /\ \E n \in {1, 2} : n > lignes[c] /\ lignes' = [lignes EXCEPT ![c] = n]
  /\ UNCHANGED <<boucle, rang, fds, revents, clients, chFile, nouveau, chLien, reste, chTas>>

\* the only way out of client.c is a signal or abort: FIN, or RST if it had
\* something left to read, which nobody has before say_hello
ChPartir(c) ==
  /\ boucle # "mort" /\ chLien[c] \in {"connecte", "ouvert"}
  /\ \/ chLien' = [chLien EXCEPT ![c] = "clos"]
     \/ chLien[c] = "ouvert" /\ chLien' = [chLien EXCEPT ![c] = "rompu"]
  /\ UNCHANGED <<boucle, rang, fds, revents, clients, chFile, nouveau, lignes, reste, chTas>>

-----------------------------------------------------------------------------
(* server.c *)

Sonde(c) == IF c = Ignore THEN "rien"
            ELSE IF chLien[c] = "rompu" THEN "hup"
            ELSE IF lignes[c] > 0 \/ chLien[c] = "clos" THEN "in" ELSE "rien"

Sonder ==
  /\ boucle = "poll"
  /\ chFile # <<>> \/ \E c \in Range(fds) : Sonde(c) # "rien"
  /\ revents' = [i \in DOMAIN fds |-> Sonde(fds[i])]
  /\ boucle' = IF chFile # <<>> THEN "ecouter" ELSE "balayer"
  /\ rang' = 1
  /\ UNCHANGED <<fds, clients, chFile, nouveau, chLien, lignes, reste, chTas>>

\* handle_accept up to its read: the connection that reaches MAX_CLIENTS is
\* refused, and main aborts
Accepter ==
  /\ boucle = "ecouter"
  /\ chFile' = Tail(chFile) /\ nouveau' = Head(chFile)
  /\ boucle' = IF Len(fds) + 1 = MAX_CLIENTS THEN "mort" ELSE "pid"
  /\ UNCHANGED <<rang, fds, revents, clients, chLien, lignes, reste, chTas>>

\* fwrite to the clients of D, in the middle of the loop: the end that left
\* answers with a reset, and the next write raises SIGPIPE unless it only
\* reports that reset.  The one that does not read may stop the loop, with some of
\* the others served before it
Ecrire(D) == \E fait \in {D} \cup (IF Distrait \in D /\ chLien[Distrait] = "ouvert"
                                  THEN SUBSET (D \ {Distrait}) ELSE {}) :
  /\ chLien' = [c \in ChClients |-> IF c \in fait /\ chLien[c] = "clos" THEN "rompu" ELSE chLien[c]]
  /\ reste' = D \ (fait \cup {Distrait})
  /\ boucle' \in {IF fait = D THEN "balayer" ELSE "bloque"}
                 \cup (IF \E c \in fait : chLien[c] = "rompu" THEN {"mort"} ELSE {})

\* the one that did not read is gone: its fwrite returns, or raises SIGPIPE
ChDebloquer ==
  /\ boucle = "bloque" /\ chLien[Distrait] # "ouvert"
  /\ \/ Ecrire(reste)
     \/ boucle' = "mort" /\ UNCHANGED <<chLien, reste>>
  /\ UNCHANGED <<rang, fds, revents, clients, chFile, nouveau, lignes, chTas>>

\* the rest of handle_accept, the new entry, say_hello.  queue_add does not set
\* next_cli in an empty list, nor main the field revents that this pass still
\* examines: send_message_all walks the one, the loop tests the other
Ajouter ==
  /\ boucle = "pid" /\ chLien[nouveau] # "connecte"
  /\ clients' = <<nouveau>> \o clients
  /\ fds' = Append(fds, nouveau)
  /\ \E r \in {"rien", "in", "hup"} :
       /\ revents' = Append(revents, r)
       /\ \/ /\ clients = <<>> /\ boucle' = "mort" /\ UNCHANGED <<chLien, reste>>
             /\ chTas' = chTas \cup {"next_cli"}
          \/ /\ Ecrire(Range(clients'))
             /\ chTas' = chTas \cup (IF r = "rien" THEN {} ELSE {"revents"})
  /\ nouveau' = Ignore
  /\ UNCHANGED <<rang, chFile, lignes>>

\* mutant: the loop stops at the first entry with revents = 0
ExaminerJusquAuPremier ==
  LET suivants == {j \in {rang} \cap DOMAIN fds : revents[j] # "rien"}
      i == Min(suivants)
  IN /\ boucle = "balayer"
     /\ \/ suivants = {} /\ boucle' = "poll" /\ rang' = 0 /\ revents' = <<>> /\ UNCHANGED fds
        \/ /\ suivants # {} /\ revents[i] = "in" /\ fds[i] \in Range(clients)
           /\ boucle' = "lire" /\ rang' = i /\ UNCHANGED <<fds, revents>>
        \/ /\ suivants # {} /\ (revents[i] = "hup" \/ fds[i] \notin Range(clients))
           /\ fds' = [fds EXCEPT ![i] = Ignore]
           /\ rang' = i + 1 /\ UNCHANGED <<boucle, revents>>
     /\ UNCHANGED <<clients, chFile, nouveau, chLien, lignes, reste, chTas>>

\* the next entry with revents # 0: one that hung up, or that no client of the
\* list has, is ignored from now on
Examiner ==
  LET suivants == {j \in rang .. Len(fds) : revents[j] # "rien"}
      i == Min(suivants)
  IN /\ boucle = "balayer"
     /\ \/ suivants = {} /\ boucle' = "poll" /\ rang' = 0 /\ revents' = <<>> /\ UNCHANGED fds
        \/ /\ suivants # {} /\ revents[i] = "in" /\ fds[i] \in Range(clients)
           /\ boucle' = "lire" /\ rang' = i /\ UNCHANGED <<fds, revents>>
        \/ /\ suivants # {} /\ (revents[i] = "hup" \/ fds[i] \notin Range(clients))
           /\ fds' = [fds EXCEPT ![i] = Ignore]
           /\ rang' = i + 1 /\ UNCHANGED <<boucle, revents>>
     /\ UNCHANGED <<clients, chFile, nouveau, chLien, lignes, reste, chTas>>

\* mutant: the list loses its first client instead of c
queue_delete_premier(c) ==
  \/ Len(clients) > 1 /\ c = clients[1] /\ boucle' = "mort" /\ UNCHANGED clients
  \/ (Len(clients) = 1 \/ c # clients[1]) /\ boucle' = "balayer" /\ clients' = Tail(clients)

\* the predecessor of the first of several clients is NULL
queue_delete(c) ==
  \/ Len(clients) > 1 /\ c = clients[1] /\ boucle' = "mort" /\ UNCHANGED clients
  \/ /\ Len(clients) = 1 \/ c # clients[1]
     /\ boucle' = "balayer" /\ \E i \in DOMAIN clients : clients[i] = c /\ clients' = RemoveAt(clients, i)

\* handle_incoming_cmd: fgets blocks until the end of the line or of the stream.
\* A line goes to all, to its author (/ping, /help), to one client and its author
\* (/msg), or nowhere (/quit); an error that is not the end of the stream aborts
ExecuterCommande ==
  LET c == fds[rang]
      finie == chLien[c] \in {"clos", "rompu"}
      echos == {Range(clients), {c}, {}} \cup {{c, d} : d \in Range(clients)}
  IN /\ boucle = "lire" /\ rang' = rang + 1
     /\ \/ /\ lignes[c] = 2 \/ (lignes[c] = 1 /\ finie)
           /\ lignes' = [lignes EXCEPT ![c] = 0] /\ UNCHANGED clients
           /\ \E D \in echos : Ecrire(D)
        \/ /\ lignes[c] = 0 /\ finie /\ queue_delete(c)
           /\ UNCHANGED <<lignes, reste, chLien>>
        \/ /\ lignes[c] < 2 /\ chLien[c] = "rompu" /\ boucle' = "mort"
           /\ UNCHANGED <<lignes, reste, chLien, clients>>
     /\ UNCHANGED <<fds, revents, chFile, nouveau, chTas>>

-----------------------------------------------------------------------------
ChBoucle == Sonder \/ Accepter \/ Ajouter \/ Examiner \/ ExecuterCommande \/ ChDebloquer

ChNext ==
  \/ ChBoucle
  \/ \E c \in ChClients : ChConnecter(c) \/ EnvoyerPid(c) \/ ChEcrire(c) \/ ChPartir(c)

\* The loop runs, and a client that connected sends its pid
ChFairness == WF_chVars(ChBoucle) /\ WF_chVars(\E c \in ChClients : EnvoyerPid(c))

ChSpec == ChInit /\ [][ChNext]_chVars /\ ChFairness

-----------------------------------------------------------------------------
(* Properties *)

Suivis == Range(fds) \ {Ignore}

\* While the server lives, the array and the list agree: no client is twice in
\* either, one that is watched and not in the list has left, one in the list that
\* is not watched any more has hung up, or its entry was examined before poll had
\* filled it.  And it dies, whatever the clients type, only once a client has left,
\* MAX_CLIENTS connections were reached, or malloc gave it dirty memory
ListeSuivie ==
  IF boucle = "mort"
  THEN \/ \E c \in ChClients : chLien[c] \in {"clos", "rompu"}
       \/ nouveau # Ignore /\ Len(fds) + 1 = MAX_CLIENTS
       \/ chTas # {}
  ELSE /\ \A i, j \in DOMAIN fds : fds[i] = fds[j] /\ fds[i] # Ignore => i = j
       /\ \A i, j \in DOMAIN clients : clients[i] = clients[j] => i = j
       /\ \A c \in Suivis \ Range(clients) : chLien[c] \in {"clos", "rompu"}
       /\ \A c \in Range(clients) \ Suivis : chLien[c] = "rompu" \/ "revents" \in chTas

\* The loop waits in fgets for the rest of a line, or for one that a revents nobody
\* set announced, or in fwrite for a client that does not read
Retenue == \/ boucle = "lire" /\ lignes[fds[rang]] < 2 /\ chLien[fds[rang]] = "ouvert"
           \/ boucle = "bloque" /\ chLien[Distrait] = "ouvert"

\* Liveness: ChAttend(c) ~> ChServi(c).  A line of a client that is watched is read
\* in the end, unless the server dies, the client leaves the array, its connection
\* reset or by a revents nobody set, or the loop waits: then all wait
ChAttend(c) == lignes[c] = 2 /\ c \in Suivis /\ c \in Range(clients)
ChServi(c) == \/ lignes[c] < 2 \/ boucle = "mort" \/ Retenue
              \/ c \notin Suivis /\ (chLien[c] = "rompu" \/ "revents" \in chTas)
=============================================================================
