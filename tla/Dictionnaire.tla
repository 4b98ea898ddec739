---------------------------- MODULE Dictionnaire ----------------------------
(***************************************************************************)
(* What CSC4508/ConceptionOS/DM1/ArbreAVL/arbreAVL.c promises: insert      *)
(* binds a key to a value, get answers with the value last bound to its    *)
(* key, NULL if there is none, and release forgets everything.  One call   *)
(* runs at a time, and takes effect once, before it returns.               *)
(***************************************************************************)
CONSTANTS
  Cles,     \* the keys
  Valeurs,  \* the values
  NULL      \* the answer for an absent key

VARIABLES
  contenu,  \* the value bound to each key, or NULL
  appel,    \* the call that runs, its key and value
  reponse   \* what the last get answered

vars == <<contenu, appel, reponse>>

Vide  == [k \in Cles |-> NULL]
Aucun == [op |-> "aucun", key |-> NULL, value |-> NULL]

Init == contenu = Vide /\ appel = Aucun /\ reponse = NULL

Appeler ==
  /\ appel = Aucun
  /\ \E k \in Cles, v \in Valeurs :
       appel' \in {[op |-> "insert", key |-> k, value |-> v], [op |-> "get", key |-> k, value |-> NULL]}
  /\ reponse' = NULL
  /\ UNCHANGED contenu

(* Once it has taken effect a call may have something left to do. *)
Inserer ==
  /\ appel.op = "insert"
  /\ contenu' = [contenu EXCEPT ![appel.key] = appel.value]
  /\ appel' \in {[appel EXCEPT !.op = "fait"], Aucun}
  /\ UNCHANGED reponse

Repondre ==
  /\ appel.op = "get"
  /\ reponse' = contenu[appel.key]
  /\ appel' = Aucun
  /\ UNCHANGED contenu

Oublier ==
  /\ appel = Aucun
  /\ contenu' = Vide
  /\ appel' = [Aucun EXCEPT !.op = "fait"]
  /\ reponse' = NULL

Revenir ==
  /\ appel.op = "fait"
  /\ appel' = Aucun
  /\ UNCHANGED <<contenu, reponse>>

(* No memory for a new binding: the program stops. *)
Avorter ==
  /\ appel.op = "insert"
  /\ appel' = [appel EXCEPT !.op = "avorte"]
  /\ UNCHANGED <<contenu, reponse>>

Next == Appeler \/ Inserer \/ Repondre \/ Oublier \/ Revenir \/ Avorter

Spec == Init /\ [][Next]_vars

=============================================================================
