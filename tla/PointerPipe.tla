----------------------------- MODULE PointerPipe -----------------------------
(***************************************************************************)
(* benchmark/tube_malloc.c: each request is in a block of its own, and the *)
(* pipe carries the address of the block. Whoever holds the address owns   *)
(* the block, and the handler that read it frees it.                       *)
(*                                                                         *)
(* Addresses are used again: malloc returns any address that is free.      *)
(***************************************************************************)
EXTENDS Naturals, FiniteSets, Sequences

CONSTANTS
  Traiteurs,  \* the handler threads of the pool
  NbReq,      \* nbReq, the number of requests to simulate
  Adresses,   \* the addresses malloc can return
  Capacite,   \* how many addresses the pipe can hold
  NULL,       \* the null pointer
  Libre       \* what a block that is not allocated holds

ASSUME PointerPipeAssumption ==
  /\ IsFiniteSet(Traiteurs) /\ Traiteurs # {}
  /\ NbReq \in Nat
  /\ Adresses # {} /\ NULL \notin Adresses
  /\ Libre \notin Nat
  /\ Capacite \in Nat \ {0}

VARIABLES
  bloc,     \* the message in each block, or Libre
  tube,     \* the addresses written to the pipe and not read
  dpc,      \* where the distributor (the main thread) is
  dreq,     \* its req
  sent,     \* how many messages it wrote
  tpc,      \* where each handler is
  treq,     \* its req
  tfin,     \* the end message it stopped for, or 0 (history)
  taken,    \* how many addresses were read (history)
  treated,  \* the requests given to the simulator (history)
  vivant    \* no thread has called exit(EXIT_FAILURE)

vars == <<bloc, tube, dpc, dreq, sent, tpc, treq, tfin, taken, treated, vivant>>

N     == Cardinality(Traiteurs)
Total == NbReq + N

EstRequete(m) == m \in 1..NbReq

Alloues == {a \in Adresses : bloc[a] # Libre}

Init ==
  /\ bloc = [a \in Adresses |-> Libre]
  /\ tube = <<>>
  /\ dpc = "alloue" /\ dreq = NULL /\ sent = 0
  /\ tpc = [t \in Traiteurs |-> "attend"]
  /\ treq = [t \in Traiteurs |-> NULL]
  /\ tfin = [t \in Traiteurs |-> 0]
  /\ taken = 0
  /\ treated = {}
  /\ vivant = TRUE

-----------------------------------------------------------------------------
(* The distributor. *)

(* mutant: the block is allocated once, before the loop. *)
AllouerUneFois ==
  /\ dpc = "alloue" /\ sent < Total
  /\ IF dreq = NULL
       THEN \E a \in Adresses \ Alloues :
              dreq' = a /\ bloc' = [bloc EXCEPT ![a] = 0]
       ELSE UNCHANGED <<dreq, bloc>>
  /\ dpc' = "remplit"
  /\ UNCHANGED <<tube, sent, tpc, treq, tfin, taken, treated, vivant>>

Allouer ==
  /\ dpc = "alloue" /\ sent < Total
  /\ \E a \in Adresses \ Alloues :
       dreq' = a /\ bloc' = [bloc EXCEPT ![a] = 0]
  /\ dpc' = "remplit"
  /\ UNCHANGED <<tube, sent, tpc, treq, tfin, taken, treated, vivant>>

(* malloc returned NULL. *)
AllouerEchoue ==
  /\ dpc = "alloue" /\ sent < Total
  /\ vivant' = FALSE
  /\ UNCHANGED <<bloc, tube, dpc, dreq, sent, tpc, treq, tfin, taken, treated>>

(* The next request of the simulator, or the final zero of an end message. *)
Remplir ==
  /\ dpc = "remplit"
  /\ bloc' = [bloc EXCEPT ![dreq] = sent + 1]
  /\ dpc' = "envoie"
  /\ UNCHANGED <<tube, dreq, sent, tpc, treq, tfin, taken, treated, vivant>>

(* mutant: the pipe takes an address it has no room for. *)
EnvoyerSansPlace ==
  /\ dpc = "envoie"
  /\ tube' = Append(tube, dreq)
  /\ sent' = sent + 1
  /\ dpc' = "alloue"
  /\ UNCHANGED <<bloc, dreq, tpc, treq, tfin, taken, treated, vivant>>

EnvoyerVersThreadTraiteur ==
  /\ dpc = "envoie"
  /\ Len(tube) < Capacite
  /\ tube' = Append(tube, dreq)
  /\ sent' = sent + 1
  /\ dpc' = "alloue"
  /\ UNCHANGED <<bloc, dreq, tpc, treq, tfin, taken, treated, vivant>>

Joindre ==
  /\ dpc = "alloue" /\ sent = Total
  /\ \A t \in Traiteurs : tpc[t] = "fini"
  /\ dpc' = "termine"
  /\ UNCHANGED <<bloc, tube, dreq, sent, tpc, treq, tfin, taken, treated, vivant>>

-----------------------------------------------------------------------------
(* The handlers. *)

Lire(t) ==
  /\ tpc[t] = "attend"
  /\ tube # <<>>
  /\ treq' = [treq EXCEPT ![t] = Head(tube)]
  /\ tube' = Tail(tube)
  /\ taken' = taken + 1
  /\ tpc' = [tpc EXCEPT ![t] = "teste"]
  /\ UNCHANGED <<bloc, dpc, dreq, sent, tfin, treated, vivant>>

(* mutant: the block is freed before its request is handled. *)
PoursuivreEnLiberant(t) ==
  /\ tpc[t] = "teste"
  /\ EstRequete(bloc[treq[t]])
  /\ bloc' = [bloc EXCEPT ![treq[t]] = Libre]
  /\ tpc' = [tpc EXCEPT ![t] = "traite"]
  /\ UNCHANGED <<tube, dpc, dreq, sent, treq, tfin, taken, treated, vivant>>

(* req[0] is not '\0'. *)
Poursuivre(t) ==
  /\ tpc[t] = "teste"
  /\ EstRequete(bloc[treq[t]])
  /\ tpc' = [tpc EXCEPT ![t] = "traite"]
  /\ UNCHANGED <<bloc, tube, dpc, dreq, sent, treq, tfin, taken, treated, vivant>>

Traiter(t) ==
  /\ tpc[t] = "traite"
  /\ treated' = treated \union {bloc[treq[t]]}
  /\ tpc' = [tpc EXCEPT ![t] = "libere"]
  /\ UNCHANGED <<bloc, tube, dpc, dreq, sent, treq, tfin, taken, vivant>>

(* mutant: free is forgotten. *)
LibererOublie(t) ==
  /\ tpc[t] = "libere"
  /\ treq' = [treq EXCEPT ![t] = NULL]
  /\ tpc' = [tpc EXCEPT ![t] = "attend"]
  /\ UNCHANGED <<bloc, tube, dpc, dreq, sent, tfin, taken, treated, vivant>>

Liberer(t) ==
  /\ tpc[t] = "libere"
  /\ bloc' = [bloc EXCEPT ![treq[t]] = Libre]
  /\ treq' = [treq EXCEPT ![t] = NULL]
  /\ tpc' = [tpc EXCEPT ![t] = "attend"]
  /\ UNCHANGED <<tube, dpc, dreq, sent, tfin, taken, treated, vivant>>

(* mutant: `continue' for `break'. *)
ArreterReboucle(t) ==
  /\ tpc[t] = "teste"
  /\ ~EstRequete(bloc[treq[t]])
  /\ bloc' = [bloc EXCEPT ![treq[t]] = Libre]
  /\ treq' = [treq EXCEPT ![t] = NULL]
  /\ tpc' = [tpc EXCEPT ![t] = "attend"]
  /\ UNCHANGED <<tube, dpc, dreq, sent, tfin, taken, treated, vivant>>

Arreter(t) ==
  /\ tpc[t] = "teste"
  /\ ~EstRequete(bloc[treq[t]])
  /\ tfin' = [tfin EXCEPT ![t] = bloc[treq[t]]]
  /\ bloc' = [bloc EXCEPT ![treq[t]] = Libre]
  /\ treq' = [treq EXCEPT ![t] = NULL]
  /\ tpc' = [tpc EXCEPT ![t] = "fini"]
  /\ UNCHANGED <<tube, dpc, dreq, sent, taken, treated, vivant>>

-----------------------------------------------------------------------------
Distributeur ==
  /\ vivant
  /\ \/ Allouer \/ AllouerEchoue \/ Remplir \/ EnvoyerVersThreadTraiteur
     \/ Joindre

Traiteur(t) ==
  vivant /\ (Lire(t) \/ Poursuivre(t) \/ Traiter(t) \/ Liberer(t) \/ Arreter(t))

(* The process has exited. *)
Termine == (dpc = "termine" \/ ~vivant) /\ UNCHANGED vars

Next == Distributeur \/ (\E t \in Traiteurs : Traiteur(t)) \/ Termine

Spec == Init /\ [][Next]_vars

FairSpec ==
  /\ Spec
  /\ WF_vars(Distributeur)
  /\ \A t \in Traiteurs : WF_vars(Traiteur(t))

-----------------------------------------------------------------------------
TypeOK ==
  /\ bloc \in [Adresses -> 0..Total \union {Libre}]
  /\ tube \in Seq(Adresses) /\ Len(tube) <= Capacite
  /\ dpc \in {"alloue", "remplit", "envoie", "termine"}
  /\ dreq \in Adresses \union {NULL}
  /\ sent \in 0..Total /\ taken \in 0..sent
  /\ tpc \in [Traiteurs -> {"attend", "teste", "traite", "libere", "fini"}]
  /\ treq \in [Traiteurs -> Adresses \union {NULL}]
  /\ tfin \in [Traiteurs -> 0..Total]
  /\ treated \subseteq 1..NbReq
  /\ vivant \in BOOLEAN

(* Who holds a block: the distributor until it has written its address,    *)
(* the pipe, or the handler that read it.                                  *)
Possesseurs(a) ==
  {<<"tube", i>> : i \in {j \in DOMAIN tube : tube[j] = a}}
    \union {<<"traiteur", t>> : t \in {u \in Traiteurs : treq[u] = a}}
    \union {<<"distributeur", d>> : d \in {dpc} \intersect IF dreq = a THEN {"remplit", "envoie"} ELSE {}}

(* A block has exactly one owner from malloc to free and none afterwards:  *)
(* no block is used once freed, freed twice, shared, or leaked.  With the  *)
(* types.                                                                  *)
UnSeulPossesseur ==
  /\ TypeOK
  /\ \A a \in Adresses :
       Cardinality(Possesseurs(a)) = IF a \in Alloues THEN 1 ELSE 0

(* The memory in use does not grow with the number of requests: a full     *)
(* pipe stops the distributor, so that there is at most what the pipe and  *)
(* the threads can hold.                                                   *)
MemoireBornee == Cardinality(Alloues) <= Capacite + N + 1

(* The server of pointers implements the distribution, as long as malloc   *)
(* finds memory.                                                           *)
D == INSTANCE Distribution WITH
       current <- [t \in Traiteurs |->
                     IF tpc[t] \in {"teste", "traite"} THEN bloc[treq[t]] ELSE tfin[t]],
       stopped <- {t \in Traiteurs : tpc[t] = "fini"},
       over    <- dpc = "termine"

DSpec == D!Spec

(* The program ends, with every request handled unless malloc failed.      *)
Termination ==
  <>(vivant => dpc = "termine" /\ treated = 1..NbReq /\ Alloues = {})

=============================================================================
