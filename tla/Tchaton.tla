------------------------------ MODULE Tchaton ------------------------------
(***************************************************************************)
(* The chat server of NET4102, tchaton.c.  Each connection gets a detached *)
(* thread; a writer's thread broadcasts what it receives to the sockets of *)
(* sock_reader.  The threads share sock_reader and sock_writer without a   *)
(* lock.  The servers' modules name what they declare apart, so that       *)
(* MCServeurs can extend them all.                                         *)
(***************************************************************************)
EXTENDS Naturals, Sequences, FiniteSets, FiniteSetsExt, Functions

CONSTANTS
  Redacteurs, Lecteurs,     \* processes started with -w and with -r, once each
  Homonymes,                \* writers that are given the same pseudo
  Distraits,                \* readers that may stop reading, and stay connected
  Libre,                    \* 0 in sock_reader, NULL in sock_writer
  MAX_WRITER, MAX_READER,
  MaxTube,                  \* bound: lines in transit on a connection; each comes in two
                            \* pieces at most, a "quit" in three
  TcMax                     \* bound: connections

ASSUME TchatonAssumption ==
  /\ Redacteurs \cap Lecteurs = {} /\ Libre \notin Redacteurs \cup Lecteurs
  /\ Homonymes \subseteq Redacteurs /\ Distraits \subseteq Lecteurs
  /\ MAX_WRITER \in Nat \ {0} /\ MAX_READER \in Nat \ {0} /\ {MaxTube, TcMax} \subseteq Nat

VARIABLES
  sock_reader, sock_writer, \* whose socket, whose pseudo a slot designates
  tcServeur,                \* "marche", or "mort" after SIGPIPE
  tcpc, tci,                \* threads and their index i
  message,                  \* what the buffer of each writer's thread holds
  tube,                     \* lines sent and not yet received; "reste", the end of one
  lien,                     \* the client's end: "ouvert", "clos" (FIN), "rompu" (RST)
  attente,                  \* the reader that the send of each writer's thread waits for
  tcCourse, fondu           \* history: kinds of threads that overlapped in a
                            \* search, writers whose "quit" no recv returned alone and whole

tables == <<sock_reader, sock_writer>>
reseau == <<tube, lien>>
tcVars == <<tables, tcServeur, tcpc, tci, message, reseau, attente, tcCourse, fondu>>

tcClients == Redacteurs \cup Lecteurs
Libres(sock) == {i \in DOMAIN sock : sock[i] = Libre}
Occupants(sock) == Range(sock) \ {Libre}
MemePseudo(v, w) == v = w \/ {v, w} \subseteq Homonymes

TcInit ==
  /\ sock_reader = [i \in 1 .. MAX_READER |-> Libre]
  /\ sock_writer = [i \in 1 .. MAX_WRITER |-> Libre]
  /\ tcServeur = "marche"
  /\ tcpc = [c \in tcClients |-> "dehors"] /\ tci = [c \in tcClients |-> 0]
  /\ message = [w \in Redacteurs |-> "inconnu"]
  /\ tube = [w \in Redacteurs |-> <<>>] /\ lien = [c \in tcClients |-> "ouvert"]
  /\ attente = [w \in Redacteurs |-> Libre] /\ tcCourse = {} /\ fondu = {}

Va(c, p) == tcpc' = [tcpc EXCEPT ![c] = p]

-----------------------------------------------------------------------------
(* External: the users and the network *)

\* connect, accept and pthread_create; the role and the pseudo follow
TcConnecter(c) ==
  /\ tcServeur = "marche" /\ tcpc[c] = "dehors"
  /\ Cardinality({d \in tcClients : tcpc[d] # "dehors"}) < TcMax
  /\ Va(c, IF c \in Lecteurs THEN "choisir" ELSE "verifier")
  /\ UNCHANGED <<tables, tcServeur, tci, message, reseau, attente, tcCourse, fondu>>

EnService == {"choisir", "ranger", "annoncer", "recevoir", "diffuser", "saluer", "liberer"}

\* loop of writer, once ack is read: a line, or "quit" and close
TcEcrire(w) ==
  /\ tcServeur = "marche" /\ tcpc[w] \in EnService /\ lien[w] = "ouvert"
  /\ Len(tube[w]) < MaxTube
  /\ \/ tube' = [tube EXCEPT ![w] = Append(@, "ligne")] /\ UNCHANGED lien
     \/ /\ tube' = [tube EXCEPT ![w] = Append(@, "quit")]
        /\ lien' = [lien EXCEPT ![w] = "clos"]
  /\ UNCHANGED <<tables, tcServeur, tcpc, tci, message, attente, tcCourse, fondu>>

\* a client is killed: a recv sees the end of the stream, or an error
TcPartir(c) ==
  /\ tcServeur = "marche" /\ tcpc[c] \in EnService \cup {"inscrit"} /\ lien[c] = "ouvert"
  /\ \/ lien' = [lien EXCEPT ![c] = "clos"]
     \/ c \in Redacteurs /\ lien' = [lien EXCEPT ![c] = "rompu"]
  /\ UNCHANGED <<tables, tcServeur, tcpc, tci, message, tube, attente, tcCourse, fondu>>

-----------------------------------------------------------------------------
(* The threads.  A search of a table is one step; what another thread      *)
(* writes between the search and the store is what matters.                *)

\* pthread_exit leaves the slot: what it designates is then on a stack that is
\* free or used again, and may compare equal to any pseudo
Pris(w) ==
  LET Vivants == {v \in Occupants(sock_writer) : tcpc[v] # "echec"}
  IN IF \E v \in Vivants : MemePseudo(v, w) THEN {TRUE}
     ELSE IF Vivants = Occupants(sock_writer) THEN {FALSE} ELSE BOOLEAN

\* each slot is read twice, for NULL and by strcmp: a slot that is reset in
\* between ends the server, and so may one that was left to a stack that is gone
TcVerifier(w) ==
  /\ tcServeur = "marche" /\ tcpc[w] = "verifier"
  /\ \/ /\ \E pris \in Pris(w) : Va(w, IF pris THEN "refuse" ELSE "choisir")
        /\ UNCHANGED tcServeur
     \/ /\ \E v \in Redacteurs : tcpc[v] \in {"liberer", "echec"} /\ sock_writer[tci[v]] # Libre
        /\ tcServeur' = "mort" /\ UNCHANGED tcpc
  /\ tcCourse' = tcCourse \cup
       (IF \E v \in Redacteurs : tcpc[v] \in {"choisir", "ranger"} THEN {"writer"} ELSE {})
  /\ UNCHANGED <<tables, tci, message, reseau, attente, fondu>>

\* look for an available slot; "list overflow" ends the thread
TcChoisir(c) ==
  LET libres == Libres(IF c \in Lecteurs THEN sock_reader ELSE sock_writer)
  IN /\ tcServeur = "marche" /\ tcpc[c] = "choisir"
     /\ \/ libres = {} /\ Va(c, "deborde") /\ UNCHANGED tci
        \/ libres # {} /\ Va(c, "ranger") /\ tci' = [tci EXCEPT ![c] = Min(libres)]
     /\ tcCourse' = tcCourse \cup
          (IF c \in Lecteurs /\ \E r \in Lecteurs : tcpc[r] = "ranger" THEN {"reader"} ELSE {})
     /\ UNCHANGED <<tables, tcServeur, message, reseau, attente, fondu>>

\* mutant: the slot that was found is not the one that is written
TcRangerAutrePart(c) ==
  /\ tcServeur = "marche" /\ tcpc[c] = "ranger"
  /\ \/ /\ c \in Lecteurs /\ Va(c, "inscrit") /\ UNCHANGED sock_writer
        /\ sock_reader' = [sock_reader EXCEPT ![1] = c]
     \/ /\ c \in Redacteurs /\ Va(c, "annoncer") /\ UNCHANGED sock_reader
        /\ sock_writer' = [sock_writer EXCEPT ![1] = c]
  /\ UNCHANGED <<tcServeur, tci, message, reseau, attente, tcCourse, fondu>>

\* end of serve_reader, whose socket stays open, or "hello" for a writer
TcRanger(c) ==
  /\ tcServeur = "marche" /\ tcpc[c] = "ranger"
  /\ \/ /\ c \in Lecteurs /\ Va(c, "inscrit") /\ UNCHANGED sock_writer
        /\ sock_reader' = [sock_reader EXCEPT ![tci[c]] = c]
     \/ /\ c \in Redacteurs /\ Va(c, "annoncer") /\ UNCHANGED sock_reader
        /\ sock_writer' = [sock_writer EXCEPT ![tci[c]] = c]
  /\ UNCHANGED <<tcServeur, tci, message, reseau, attente, tcCourse, fondu>>

\* broadcast_message.  A send waits while a reader that does not read stays; one to
\* a reader that left is lost, fails, or raises SIGPIPE.  The sends between two waits
\* are one step: what each does depends on its own reader alone
TcDiffuser(w) ==
  /\ tcServeur = "marche" /\ tcpc[w] \in {"annoncer", "diffuser", "saluer"}
  /\ attente[w] \in {Libre} \cup {r \in Lecteurs : lien[r] # "ouvert"}
  /\ \/ /\ \E r \in Occupants(sock_reader) \cap Distraits :
             lien[r] = "ouvert" /\ attente' = [attente EXCEPT ![w] = r]
        /\ UNCHANGED <<tcServeur, tcpc>>
     \/ /\ attente' = [attente EXCEPT ![w] = Libre]
        /\ \/ Va(w, IF tcpc[w] = "saluer" THEN "liberer" ELSE "recevoir") /\ UNCHANGED tcServeur
           \/ /\ \E r \in Occupants(sock_reader) : lien[r] # "ouvert"
              /\ \/ Va(w, "echec") /\ UNCHANGED tcServeur
                 \/ tcServeur' = "mort" /\ UNCHANGED tcpc
  /\ UNCHANGED <<tables, tci, message, reseau, tcCourse, fondu>>

\* recv takes what has arrived: n lines, the last one in part unless entier.  strcmp
\* stops at the end of the first.  The beginning of a line has no end of its own: what
\* the buffer held before follows it, and may make a "quit" of it, as the rest of a
\* line may be one.  What follows the beginning of a "quit" is a line like another
Lire(w) == \E n \in 1 .. Len(tube[w]), entier \in BOOLEAN :
  LET lu == IF n = 1 /\ ~entier THEN "reste" ELSE tube[w][1]
      suite == IF entier THEN <<>> ELSE <<IF tube[w][n] = "quit" THEN "ligne" ELSE "reste">>
  IN /\ tube[w][n] = "reste" => entier
     /\ tube' = [tube EXCEPT ![w] = suite \o SubSeq(@, n + 1, Len(@))]
     /\ \E m \in (IF lu = "reste" THEN {"ligne", "quit"} ELSE {lu}) :
          message' = [message EXCEPT ![w] = m] /\ Va(w, IF m = "quit" THEN "saluer" ELSE "diffuser")
     /\ fondu' = IF tube[w][n] = "quit" /\ (n > 1 \/ ~entier) THEN fondu \cup {w} ELSE fondu

\* 0 is not tested: the buffer keeps the line before, or what the stack held,
\* perhaps the "quit" of an earlier thread
TcRecevoir(w) ==
  /\ tcServeur = "marche" /\ tcpc[w] = "recevoir"
  /\ \/ Lire(w)
     \/ /\ tube[w] = <<>> /\ UNCHANGED <<message, tube, fondu>>
        /\ \/ lien[w] = "clos" /\ Va(w, "diffuser")
           \/ lien[w] = "clos" /\ message[w] = "inconnu" /\ Va(w, "saluer")
           \/ lien[w] = "rompu" /\ Va(w, "echec")
  /\ UNCHANGED <<tables, tcServeur, tci, lien, attente, tcCourse>>

\* mutant: the slot keeps the pseudo
TcFermer(w) ==
  /\ tcServeur = "marche" /\ tcpc[w] = "liberer" /\ Va(w, "fini")
  /\ message' = [message EXCEPT ![w] = "inconnu"]
  /\ UNCHANGED <<tables, tcServeur, tci, reseau, attente, tcCourse, fondu>>

\* reset of the pseudo, close
TcLiberer(w) ==
  /\ tcServeur = "marche" /\ tcpc[w] = "liberer" /\ Va(w, "fini")
  /\ sock_writer' = [sock_writer EXCEPT ![tci[w]] = Libre]
  /\ tube' = [tube EXCEPT ![w] = <<>>] /\ message' = [message EXCEPT ![w] = "inconnu"]
  /\ UNCHANGED <<sock_reader, tcServeur, tci, lien, attente, tcCourse, fondu>>

-----------------------------------------------------------------------------
TcService(c) ==
  \/ TcChoisir(c) \/ TcRanger(c)
  \/ c \in Redacteurs /\ (TcVerifier(c) \/ TcDiffuser(c) \/ TcRecevoir(c) \/ TcLiberer(c))

TcNext ==
  \/ \E c \in tcClients : TcConnecter(c) \/ TcPartir(c) \/ TcService(c)
  \/ \E w \in Redacteurs : TcEcrire(w)

\* The threads run; nobody has to connect, to write or to leave
TcFairness == \A c \in tcClients : WF_tcVars(TcService(c))

TcSpec == TcInit /\ [][TcNext]_tcVars /\ TcFairness

-----------------------------------------------------------------------------
(* Properties *)

\* Unless two writers, or two readers, were between their search and their
\* store at once, every thread in service owns the slot it will reset, no pseudo
\* is held twice and no reader is forgotten; and a slot is lost to a thread that
\* ended only if a client left without "quit"
Places ==
  /\ "writer" \notin tcCourse =>
       /\ \A w \in Redacteurs :
            tcpc[w] \in EnService \ {"choisir", "ranger"} => sock_writer[tci[w]] = w
       /\ \A v, w \in {x \in Occupants(sock_writer) : tcpc[x] # "echec"} :
            MemePseudo(v, w) => v = w
       /\ \A w \in Occupants(sock_writer) : tcpc[w] \notin EnService =>
            tcpc[w] = "echec" /\ \E c \in Lecteurs \cup {w} : lien[c] # "ouvert"
  /\ "reader" \notin tcCourse =>
       \A r \in Lecteurs : tcpc[r] = "inscrit" => sock_reader[tci[r]] = r

\* Liveness: TcAttend(w) ~> TcServi(w).  A writer that types "quit" frees its
\* pseudo, unless that line came in two pieces or behind another one, the thread
\* waits in send for a reader that does not read, a broadcast met a reader that had
\* left, or the server died: of that, or of a slot reset under strcmp
TcAttend(w) == w \in Redacteurs /\ "quit" \in Range(tube[w])
TcServi(w) == \/ w \notin Occupants(sock_writer) \/ w \in fondu \/ attente[w] # Libre
              \/ tcpc[w] = "echec" \/ tcServeur = "mort"
=============================================================================
