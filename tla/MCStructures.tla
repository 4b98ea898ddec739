---------------------------- MODULE MCStructures ----------------------------
(* The two data structures of a single thread, side by side in one run:    *)
(* structure says which one is used, the other stays in its initial state. *)
EXTENDS MCMemoryAlloc, ArbreAVL

CONSTANT NbCles

MCCles == 1..NbCles
MCNoeuds == 1..NbCles + 1

VARIABLE structure

mcVars == <<structure, maVars, avVars>>

MCInit == structure \in {"pages", "arbre"} /\ MaInit /\ AvInit

(* A new node is at the address equal to its key when that one is free: no *)
(* property tells addresses apart.                                         *)
MCOrdre ==
  \A n \in DOMAIN mem' \ DOMAIN mem : n = key \/ key \in DOMAIN mem

MCNext ==
  /\ UNCHANGED structure
  /\ \/ structure = "pages" /\ MaNext /\ UNCHANGED avVars
     \/ structure = "arbre" /\ AvNext /\ MCOrdre /\ UNCHANGED maVars

MCSpec == MCInit /\ [][MCNext]_mcVars
=============================================================================
