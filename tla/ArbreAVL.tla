------------------------------ MODULE ArbreAVL ------------------------------
(***************************************************************************)
(* CSC4508/ConceptionOS/DM1/ArbreAVL/arbreAVL.c: a dictionary kept in an   *)
(* AVL tree, balanced by rotations on the way back from each insertion.    *)
(*                                                                         *)
(* Nodes are in the heap.  The recursive calls of insert and release are   *)
(* steps: `pile' holds the nodes of the calls that wait, `node' is the     *)
(* argument of the one that runs.  The calls of get are tail calls.  Keys, *)
(* ordered by strcmp, are numbers.                                         *)
(***************************************************************************)
EXTENDS Integers, Sequences, FiniteSets, SequencesExt

CONSTANTS
  Cles,     \* the keys
  Valeurs,  \* the values
  Noeuds,   \* the addresses that malloc returns for nodes
  NULL      \* no node, and the answer of get for an absent key

ASSUME ArbreAssumption == Cles \subseteq Int /\ NULL \notin Noeuds \union Valeurs

VARIABLES
  mem,         \* the nodes that are allocated
  root,        \* the tree, in main
  avPc,        \* the function that runs
  pile, node,  \* its calls
  key, value,  \* its other arguments
  retour       \* what get returned

avVars == <<mem, root, avPc, pile, node, key, value, retour>>

-----------------------------------------------------------------------------
maximum(a, b) == IF a > b THEN a ELSE b

height(m, n) == IF n = NULL THEN 0 ELSE m[n].height

updateHeight(m, n) ==
  [m EXCEPT ![n].height = maximum(height(m, m[n].left), height(m, m[n].right)) + 1]

(* The new root of the subtree keeps its height: insert updates it. *)
rightRotate(m, z) ==
  LET y == m[z].left
  IN updateHeight([m EXCEPT ![y].right = z, ![z].left = m[y].right], z)

(* mutant: the subtree between the two nodes is dropped. *)
leftRotateSansT2(m, z) ==
  LET y == m[z].right
  IN updateHeight([m EXCEPT ![y].left = z, ![z].right = NULL], z)

leftRotate(m, z) ==
  LET y == m[z].right
  IN updateHeight([m EXCEPT ![y].left = z, ![z].right = m[y].left], z)

newNode(k, v) ==
  [key |-> k, value |-> v, left |-> NULL, right |-> NULL, height |-> 1]

Balance(m, n) == height(m, m[n].left) - height(m, m[n].right)

(* node->left = leftRotate(node->left), and the mirror of it. *)
GaucheTournee(m, n) == [leftRotate(m, m[n].left) EXCEPT ![n].left = m[m[n].left].right]
DroiteTournee(m, n) == [rightRotate(m, m[n].right) EXCEPT ![n].right = m[m[n].right].left]

(* mutant: the right left case is handled as the right right one. *)
EquilibrerSansDouble(m, n) ==
  IF Balance(m, n) > 1 THEN
    IF Balance(m, m[n].left) > 0 THEN [tas |-> rightRotate(m, n), racine |-> m[n].left]
    ELSE [tas    |-> rightRotate(GaucheTournee(m, n), n),
          racine |-> GaucheTournee(m, n)[n].left]
  ELSE IF Balance(m, n) < -1 THEN [tas |-> leftRotate(m, n), racine |-> m[n].right]
  ELSE [tas |-> m, racine |-> n]

(* The heap and the root of the subtree once insert has balanced it. *)
Equilibrer(m, n) ==
  IF Balance(m, n) > 1 THEN
    IF Balance(m, m[n].left) > 0 THEN [tas |-> rightRotate(m, n), racine |-> m[n].left]
    ELSE [tas    |-> rightRotate(GaucheTournee(m, n), n),
          racine |-> GaucheTournee(m, n)[n].left]
  ELSE IF Balance(m, n) < -1 THEN
    IF Balance(m, m[n].right) < 0 THEN [tas |-> leftRotate(m, n), racine |-> m[n].right]
    ELSE [tas    |-> leftRotate(DroiteTournee(m, n), n),
          racine |-> DroiteTournee(m, n)[n].right]
  ELSE [tas |-> m, racine |-> n]

-----------------------------------------------------------------------------
(* The side on which the call for p goes on: release takes the left first. *)
AGauche(p) == IF avPc = "release" THEN mem[p].left # NULL ELSE key < mem[p].key

Enfant(p) == IF AGauche(p) THEN mem[p].left ELSE mem[p].right

(* The call on node returns n: the caller stores it, or main does. *)
Retourner(m, n) ==
  IF pile = <<>>
  THEN /\ mem' = m /\ root' = n
       /\ avPc' = "repos" /\ node' = NULL /\ key' = NULL /\ value' = NULL
       /\ UNCHANGED pile
  ELSE /\ mem' = IF AGauche(Last(pile)) THEN [m EXCEPT ![Last(pile)].left = n]
                                        ELSE [m EXCEPT ![Last(pile)].right = n]
       /\ node' = Last(pile) /\ pile' = Front(pile)
       /\ avPc' = IF avPc = "release" THEN "release" ELSE "remonte"
       /\ UNCHANGED <<root, key, value>>

(* The end of insert: balance node, update its height, return. *)
FinInsert(m, n) ==
  LET e == Equilibrer(m, n) IN Retourner(updateHeight(e.tas, e.racine), e.racine) /\ UNCHANGED retour

Appeler(op, k, v) ==
  /\ avPc = "repos"
  /\ avPc' = op /\ node' = root /\ key' = k /\ value' = v /\ retour' = NULL
  /\ UNCHANGED <<mem, root, pile>>

(* mutant: a key that is there is inserted again on the right. *)
DescendreToujours ==
  /\ avPc = "insert" /\ node # NULL
  /\ pile' = Append(pile, node) /\ node' = Enfant(node)
  /\ UNCHANGED <<mem, root, avPc, key, value, retour>>

Descendre ==
  /\ avPc = "insert" /\ node # NULL /\ key # mem[node].key
  /\ pile' = Append(pile, node) /\ node' = Enfant(node)
  /\ UNCHANGED <<mem, root, avPc, key, value, retour>>

CreerFeuille ==
  /\ avPc = "insert" /\ node = NULL
  /\ \E n \in Noeuds \ DOMAIN mem :
       FinInsert([x \in DOMAIN mem \union {n} |-> IF x = n THEN newNode(key, value) ELSE mem[x]], n)

Remplacer ==
  /\ avPc = "insert" /\ node # NULL /\ key = mem[node].key
  /\ FinInsert([mem EXCEPT ![node].value = value], node)

Remonter == avPc = "remonte" /\ FinInsert(mem, node)

(* malloc or realloc fails: an assert ends the program. *)
Avorter ==
  /\ avPc = "insert" /\ (node # NULL => key = mem[node].key)
  /\ avPc' = "avorte"
  /\ UNCHANGED <<mem, root, pile, node, key, value, retour>>

Suivre ==
  /\ avPc = "get" /\ node # NULL /\ key # mem[node].key /\ Enfant(node) # NULL
  /\ node' = Enfant(node)
  /\ UNCHANGED <<mem, root, avPc, pile, key, value, retour>>

Repondre ==
  /\ avPc = "get"
  /\ \/ node = NULL /\ retour' = NULL
     \/ node # NULL /\ key = mem[node].key /\ retour' = mem[node].value
     \/ node # NULL /\ key # mem[node].key /\ Enfant(node) = NULL /\ retour' = NULL
  /\ avPc' = "repos" /\ node' = NULL /\ key' = NULL
  /\ UNCHANGED <<mem, root, pile, value>>

Entrer ==
  /\ avPc = "release" /\ Enfant(node) # NULL
  /\ pile' = Append(pile, node) /\ node' = Enfant(node)
  /\ UNCHANGED <<mem, root, avPc, key, value, retour>>

LibererNoeud ==
  /\ avPc = "release" /\ Enfant(node) = NULL
  /\ Retourner([n \in DOMAIN mem \ {node} |-> mem[n]], NULL)
  /\ UNCHANGED retour

-----------------------------------------------------------------------------
AvInit ==
  /\ mem = [n \in {} |-> newNode(NULL, NULL)] /\ root = NULL
  /\ avPc = "repos" /\ pile = <<>> /\ node = NULL
  /\ key = NULL /\ value = NULL /\ retour = NULL

AvNext ==
  \/ \E k \in Cles, v \in Valeurs : Appeler("insert", k, v) \/ Appeler("get", k, NULL)
  \/ root # NULL /\ Appeler("release", NULL, NULL)
  \/ Descendre \/ CreerFeuille \/ Remplacer \/ Remonter \/ Avorter
  \/ Suivre \/ Repondre
  \/ Entrer \/ LibererNoeud
  \/ avPc = "avorte" /\ UNCHANGED avVars

AvSpec == AvInit /\ [][AvNext]_avVars

-----------------------------------------------------------------------------
(* The nodes below each node, itself included, and the length of the       *)
(* longest path down from it.                                              *)
Dessous[n \in DOMAIN mem] ==
  {n} \union (IF mem[n].left = NULL THEN {} ELSE Dessous[mem[n].left])
      \union (IF mem[n].right = NULL THEN {} ELSE Dessous[mem[n].right])

Profondeur[n \in DOMAIN mem] ==
  1 + maximum(IF mem[n].left = NULL THEN 0 ELSE Profondeur[mem[n].left],
              IF mem[n].right = NULL THEN 0 ELSE Profondeur[mem[n].right])

SousArbre(n) == IF n = NULL THEN {} ELSE Dessous[n]

AvTypeOK ==
  /\ DOMAIN mem \subseteq Noeuds
  /\ \A n \in DOMAIN mem :
       mem[n] \in [key : Cles, value : Valeurs, left : DOMAIN mem \union {NULL},
                   right : DOMAIN mem \union {NULL}, height : Nat]
  /\ {root, node} \subseteq DOMAIN mem \union {NULL}
  /\ avPc \in {"repos", "insert", "remonte", "get", "release", "avorte"}
  /\ pile \in Seq(DOMAIN mem)
  /\ avPc \in {"insert", "remonte", "get", "avorte"} => key \in Cles
  /\ avPc \in {"insert", "remonte", "avorte"} => value \in Valeurs
  /\ retour \in Valeurs \union {NULL}

(* No node is lost and none is used once freed, in the middle of the       *)
(* rotations and of release too: every node that is allocated is in the    *)
(* tree, and pointers lead to allocated nodes.  With the types.            *)
SansFuite ==
  /\ AvTypeOK
  /\ DOMAIN mem = SousArbre(root)

(* Smaller keys are on the left, greater ones on the right, however the    *)
(* nodes were rotated.                                                     *)
AbrOrdonne ==
  \A n \in DOMAIN mem :
    /\ \A x \in SousArbre(mem[n].left) : mem[x].key < mem[n].key
    /\ \A x \in SousArbre(mem[n].right) : mem[n].key < mem[x].key

(* Every node is balanced, and the height it stores, by which insert       *)
(* judges that, is the one it has.                                         *)
Equilibre ==
  \A n \in DOMAIN mem :
    /\ mem[n].height = Profondeur[n]
    /\ Balance(mem, n) \in {-1, 0, 1}

(* A search tree, at every step, in which every path is short as soon as   *)
(* insert has returned.                                                    *)
AVL == AbrOrdonne /\ (avPc \notin {"remonte", "release"} => Equilibre)

(* The value of the node of each key; while release runs, nothing. *)
Associes ==
  [k \in Cles |->
     IF avPc # "release" /\ \E n \in DOMAIN mem : mem[n].key = k
     THEN mem[CHOOSE n \in DOMAIN mem : mem[n].key = k].value
     ELSE NULL]

Dico == INSTANCE Dictionnaire WITH
          contenu <- Associes,
          appel   <- [op    |-> IF avPc = "repos" THEN "aucun"
                                ELSE IF avPc \in {"remonte", "release"} THEN "fait"
                                ELSE avPc,
                      key   |-> key,
                      value |-> value],
          reponse <- retour

(* The tree is the dictionary it promises to be: get answers with the      *)
(* value last inserted for its key, whatever rotations took place since.   *)
DicoSpec == Dico!Spec

=============================================================================
