------------------------------- MODULE Banque -------------------------------
(***************************************************************************)
(* CSC4103, TP8: bank.c adds an amount to an account, a file, under the    *)
(* named semaphore ficSync.  A process may be killed at any point, and     *)
(* then it does not post; stdio writes at fclose.                          *)
(***************************************************************************)
EXTENDS Naturals, FiniteSets

CONSTANTS Virements      \* processes, each of which adds 1 to the same account

ASSUME BanqueAssumption == IsFiniteSet(Virements)

VARIABLES
  ficSync, bkpc,
  compte, montant,       \* the file: "absent", "vide" or "ecrit", and its number
  solde,                 \* what each process read
  verses                 \* processes whose amount reached the file

bkVars == <<ficSync, bkpc, compte, montant, solde, verses>>

BkInit ==
  /\ ficSync = 1 /\ bkpc = [v \in Virements |-> "dehors"]
  /\ compte = "absent" /\ montant = 0 /\ solde = [v \in Virements |-> 0] /\ verses = {}

BkVa(v, p, q) == bkpc[v] = p /\ bkpc' = [bkpc EXCEPT ![v] = q]

Lancer(v) == BkVa(v, "dehors", "attendre") /\ UNCHANGED <<ficSync, compte, montant, solde, verses>>

BkTuer(v) ==
  /\ bkpc[v] \in {"attendre", "lire", "creer", "tronquer", "ecrire", "poster"}
  /\ bkpc' = [bkpc EXCEPT ![v] = IF bkpc[v] = "attendre" THEN "fini" ELSE "tue"]
  /\ UNCHANGED <<ficSync, compte, montant, solde, verses>>

BkAttendre(v) ==
  /\ BkVa(v, "attendre", "lire") /\ ficSync > 0 /\ ficSync' = ficSync - 1
  /\ UNCHANGED <<compte, montant, solde, verses>>

\* an account that is not there is created, and an empty file leaves solde at 0
LireCompte(v) ==
  \/ /\ compte = "absent" /\ BkVa(v, "lire", "creer") /\ compte' = "vide"
     /\ UNCHANGED <<ficSync, montant, solde, verses>>
  \/ /\ compte # "absent" /\ BkVa(v, "lire", "tronquer")
     /\ solde' = [solde EXCEPT ![v] = IF compte = "vide" THEN 0 ELSE montant]
     /\ UNCHANGED <<ficSync, compte, montant, verses>>

\* fclose writes the first "0"
Creer(v) ==
  /\ BkVa(v, "creer", "tronquer") /\ compte' = "ecrit" /\ montant' = 0
  /\ UNCHANGED <<ficSync, solde, verses>>

\* mutant: the semaphore is posted before the new amount is written
TronquerEtPoster(v) ==
  /\ BkVa(v, "tronquer", "ecrire") /\ compte' = "vide" /\ ficSync' = ficSync + 1
  /\ UNCHANGED <<montant, solde, verses>>

\* fopen with "w"
Tronquer(v) ==
  /\ BkVa(v, "tronquer", "ecrire") /\ compte' = "vide"
  /\ UNCHANGED <<ficSync, montant, solde, verses>>

EcrireCompte(v) ==
  /\ BkVa(v, "ecrire", "poster") /\ compte' = "ecrit" /\ montant' = solde[v] + 1
  /\ verses' = verses \cup {v}
  /\ UNCHANGED <<ficSync, solde>>

BkPoster(v) ==
  /\ BkVa(v, "poster", "fini") /\ ficSync' = ficSync + 1
  /\ UNCHANGED <<compte, montant, solde, verses>>

BkEtape(v) == BkAttendre(v) \/ LireCompte(v) \/ Creer(v) \/ Tronquer(v) \/ EcrireCompte(v) \/ BkPoster(v)

BkNext == \E v \in Virements : Lancer(v) \/ BkTuer(v) \/ BkEtape(v)

\* A process that was started and can move does, or another one
BkFairness == WF_bkVars(\E v \in Virements : BkEtape(v))

BkSpec == BkInit /\ [][BkNext]_bkVars /\ BkFairness

-----------------------------------------------------------------------------
(* Properties *)

Tue == \E v \in Virements : bkpc[v] = "tue"

\* No crash and no other process make an amount that is read wrong: what the file
\* says is the sum of what was paid in, and a file that a killed process left
\* empty is never read, since nobody gets the semaphore any more
SoldeExact ==
  /\ compte = "ecrit" => montant = Cardinality(verses)
  /\ \A v \in Virements : bkpc[v] = "ecrire" => solde[v] = Cardinality(verses)
  /\ Tue => ficSync = 0 /\ \A v \in Virements : bkpc[v] \in {"dehors", "attendre", "fini", "tue"}

\* Liveness: BkAttend(v) ~> BkServi(v).  A process ends, unless one was killed in
\* the critical section: then all wait
BkAttend(v) == bkpc[v] = "attendre"
BkServi(v) == bkpc[v] = "fini" \/ Tue
=============================================================================
