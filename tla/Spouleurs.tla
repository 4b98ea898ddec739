----------------------------- MODULE Spouleurs -----------------------------
(***************************************************************************)
(* Two print spoolers around a ring of CASEMAX file names.  "memoire":     *)
(* Cours5, exo5, clients and one printer in a shared memory, with two      *)
(* semaphores and no lock between the clients.  "threads": Cours6,         *)
(* imprime3.c, one thread that asks for names and several that print, with *)
(* two locks and busy waits, compiled without optimization.                *)
(***************************************************************************)
EXTENDS Naturals, Sequences, FiniteSets

CONSTANTS
  SpClients, Imprimantes,
  Principal, Serveur,     \* the main of imprime3.c, the printer of ex5s.c
  Vierge,                 \* a slot never written
  CASEMAX,
  MaxFichiers             \* bound: names that each client is given

ASSUME SpoolAssumption ==
  /\ Principal \in SpClients /\ Serveur \in Imprimantes
  /\ CASEMAX \in Nat \ {0} /\ MaxFichiers \in Nat

VARIABLES
  spool,              \* the program
  tab, debutlect, finecrit,
  place_libre, info_occupe,   \* semaphores; libre and occupe of imprime3.c
  sppc, spFin,        \* clients, and the finecrit each has read
  impc,               \* printers
  deposes, lances,    \* names handed over, names whose printing has begun, in order
  nomme,              \* how many names each client was given
  spCourse            \* history: two clients wrote at once, or one was killed
                      \* after it advanced finecrit

anneau == <<tab, debutlect, finecrit, place_libre, info_occupe>>
spVars == <<spool, anneau, sppc, spFin, impc, deposes, lances, nomme, spCourse>>

Deposants == IF spool = "threads" THEN {Principal} ELSE SpClients
Imprimeurs == IF spool = "threads" THEN Imprimantes ELSE {Serveur}

SpInit ==
  /\ spool \in {"memoire", "threads"}
  /\ tab = [i \in 0 .. CASEMAX - 1 |-> Vierge] /\ debutlect = 0 /\ finecrit = 0
  /\ place_libre = CASEMAX /\ info_occupe = 0
  /\ sppc = [c \in Deposants |-> "dehors"] /\ spFin = [c \in Deposants |-> 0]
  /\ impc = [p \in Imprimeurs |-> "repos"]
  /\ deposes = <<>> /\ lances = <<>> /\ nomme = [c \in Deposants |-> 0]
  /\ spCourse = FALSE

\* free and exit end the threads of imprime3.c; what they read of the freed ring in
\* between is left out
Actif == spool = "threads" => sppc[Principal] \notin {"dehors", "fini"}

Ecrivains == {c \in Deposants : sppc[c] \in {"copier", "avancer", "poster"}}
Detenteurs == IF spool = "threads" THEN {}
              ELSE {c \in Deposants : sppc[c] \in {"saisir", "copier", "avancer", "poster", "tue"}}

-----------------------------------------------------------------------------
(* The clients *)

\* a client, or imprime3.c, is started
SpDemarrer(c) ==
  /\ sppc[c] = "dehors" /\ sppc' = [sppc EXCEPT ![c] = "debut"]
  /\ UNCHANGED <<spool, anneau, spFin, impc, deposes, lances, nomme, spCourse>>

\* exo5: sem_wait(place_libre), before the name is asked for
PrendrePlace(c) ==
  /\ spool = "memoire" /\ sppc[c] = "debut" /\ place_libre > 0
  /\ place_libre' = place_libre - 1 /\ sppc' = [sppc EXCEPT ![c] = "saisir"]
  /\ UNCHANGED <<spool, tab, debutlect, finecrit, info_occupe, spFin, impc, deposes, lances, nomme, spCourse>>

\* the user types a name
Nommer(c) ==
  /\ Actif /\ sppc[c] = (IF spool = "threads" THEN "debut" ELSE "saisir")
  /\ nomme[c] < MaxFichiers /\ nomme' = [nomme EXCEPT ![c] = @ + 1]
  /\ sppc' = [sppc EXCEPT ![c] = "copier"]
  /\ spCourse' = (spCourse \/ Ecrivains # {})
  /\ UNCHANGED <<spool, anneau, spFin, impc, deposes, lances>>

\* mutant: the place that was taken is not given back
QuitterSansRendre(c) ==
  /\ Actif /\ sppc[c] = (IF spool = "threads" THEN "debut" ELSE "saisir")
  /\ sppc' = [sppc EXCEPT ![c] = "fini"]
  /\ UNCHANGED <<spool, anneau, spFin, impc, deposes, lances, nomme, spCourse>>

\* the user types "0"
Quitter(c) ==
  /\ Actif /\ sppc[c] = (IF spool = "threads" THEN "debut" ELSE "saisir")
  /\ sppc' = [sppc EXCEPT ![c] = "fini"]
  /\ place_libre' = IF spool = "threads" THEN place_libre ELSE place_libre + 1
  /\ UNCHANGED <<spool, tab, debutlect, finecrit, info_occupe, spFin, impc, deposes, lances, nomme, spCourse>>

\* a client is killed: its place is lost
Tuer(c) ==
  /\ spool = "memoire" /\ sppc[c] \in {"saisir", "copier", "avancer", "poster"}
  /\ sppc' = [sppc EXCEPT ![c] = "tue"]
  /\ spCourse' = (spCourse \/ sppc[c] = "poster")
  /\ UNCHANGED <<spool, anneau, spFin, impc, deposes, lances, nomme>>

\* exo5: strncpy, then finecrit is read
Copier(c) ==
  /\ spool = "memoire" /\ sppc[c] = "copier" /\ sppc' = [sppc EXCEPT ![c] = "avancer"]
  /\ tab' = [tab EXCEPT ![finecrit] = <<c, nomme[c]>>] /\ spFin' = [spFin EXCEPT ![c] = finecrit]
  /\ UNCHANGED <<spool, debutlect, finecrit, place_libre, info_occupe, impc, deposes, lances, nomme, spCourse>>

\* finecrit is advanced, from the value that was read or, had another client
\* advanced it between strncpy and that reading, from that one
Avancer(c) ==
  /\ sppc[c] = "avancer" /\ sppc' = [sppc EXCEPT ![c] = "poster"]
  /\ \E f \in {spFin[c], finecrit} : finecrit' = (f + 1) % CASEMAX
  /\ UNCHANGED <<spool, tab, debutlect, place_libre, info_occupe, spFin, impc, deposes, lances, nomme, spCourse>>

\* sem_post(info_occupe)
Poster(c) ==
  /\ sppc[c] = "poster" /\ sppc' = [sppc EXCEPT ![c] = "debut"]
  /\ info_occupe' = info_occupe + 1 /\ deposes' = Append(deposes, <<c, nomme[c]>>)
  /\ UNCHANGED <<spool, tab, debutlect, finecrit, place_libre, spFin, impc, lances, nomme, spCourse>>

\* imprime3.c: the busy wait, then the section under mutex
DeposerSousVerrou(c) ==
  /\ spool = "threads" /\ sppc[c] = "copier" /\ place_libre > 0
  /\ tab' = [tab EXCEPT ![finecrit] = <<c, nomme[c]>>] /\ finecrit' = (finecrit + 1) % CASEMAX
  /\ place_libre' = place_libre - 1 /\ info_occupe' = info_occupe + 1
  /\ sppc' = [sppc EXCEPT ![c] = "debut"] /\ deposes' = Append(deposes, <<c, nomme[c]>>)
  /\ UNCHANGED <<spool, debutlect, spFin, impc, lances, nomme, spCourse>>

-----------------------------------------------------------------------------
(* The printers *)

\* exo5 prints in place, and then frees the slot
ImprimerEnPlace(p) ==
  /\ spool = "memoire" /\ UNCHANGED <<spool, tab, finecrit, sppc, spFin, deposes, nomme, spCourse>>
  /\ \/ /\ impc[p] = "repos" /\ info_occupe > 0 /\ info_occupe' = info_occupe - 1
        /\ impc' = [impc EXCEPT ![p] = "imprimer"] /\ lances' = Append(lances, tab[debutlect])
        /\ UNCHANGED <<debutlect, place_libre>>
     \/ /\ impc[p] = "imprimer" /\ impc' = [impc EXCEPT ![p] = "repos"]
        /\ debutlect' = (debutlect + 1) % CASEMAX /\ place_libre' = place_libre + 1
        /\ UNCHANGED <<info_occupe, lances>>

\* imprime3.c: under mutexpthread a thread waits for a name, and copies it under mutex
Veiller(p) ==
  /\ spool = "threads" /\ Actif /\ impc[p] = "repos"
  /\ \A q \in Imprimeurs : impc[q] # "veiller"
  /\ impc' = [impc EXCEPT ![p] = "veiller"]
  /\ UNCHANGED <<spool, anneau, sppc, spFin, deposes, lances, nomme, spCourse>>

PrendreSousVerrou(p) ==
  /\ Actif /\ impc[p] = "veiller" /\ info_occupe > 0
  /\ lances' = Append(lances, tab[debutlect]) /\ debutlect' = (debutlect + 1) % CASEMAX
  /\ place_libre' = place_libre + 1 /\ info_occupe' = info_occupe - 1
  /\ impc' = [impc EXCEPT ![p] = "imprimer"]
  /\ UNCHANGED <<spool, tab, finecrit, sppc, spFin, deposes, nomme, spCourse>>

Rendre(p) ==
  /\ spool = "threads" /\ Actif /\ impc[p] = "imprimer" /\ impc' = [impc EXCEPT ![p] = "repos"]
  /\ UNCHANGED <<spool, anneau, sppc, spFin, deposes, lances, nomme, spCourse>>

-----------------------------------------------------------------------------
SpTravail ==
  \/ \E c \in Deposants :
       PrendrePlace(c) \/ Copier(c) \/ Avancer(c) \/ Poster(c) \/ DeposerSousVerrou(c)
  \/ \E p \in Imprimeurs : ImprimerEnPlace(p) \/ Veiller(p) \/ PrendreSousVerrou(p) \/ Rendre(p)

SpNext == SpTravail \/ \E c \in Deposants : SpDemarrer(c) \/ Nommer(c) \/ Quitter(c) \/ Tuer(c)

\* Programs run, users owe nothing.  As the names are finite in number, it is
\* enough that one of the processes that can move does
SpFairness == WF_spVars(SpTravail)

SpSpec == SpInit /\ [][SpNext]_spVars /\ SpFairness

-----------------------------------------------------------------------------
(* Properties *)

ImprimeEnPlace == IF spool = "memoire" /\ impc[Serveur] = "imprimer" THEN 1 ELSE 0

\* names in the ring, from the next one to print on
EnAttente == [k \in 1 .. info_occupe |-> tab[(debutlect + ImprimeEnPlace + k - 1) % CASEMAX]]

\* Every place is free, occupied, being printed, or held by a client, even one that
\* was killed.  And unless two clients wrote at once, or one was killed between
\* finecrit and its post, names are printed once each, in the order they came
AnneauExact ==
  /\ place_libre + info_occupe + ImprimeEnPlace + Cardinality(Detenteurs) = CASEMAX
  /\ ~spCourse => lances \o EnAttente = deposes

\* Liveness: SpAttend(c) ~> SpServi(c).  What a client hands over is printed, with
\* the same exceptions, unless the user quits imprime3.c before
SpAttend(c) == \E i \in DOMAIN deposes : i > Len(lances) /\ deposes[i][1] = c
SpServi(c) == ~SpAttend(c) \/ spCourse \/ ~Actif
=============================================================================
