----------------------------- MODULE MemoryAlloc -----------------------------
(***************************************************************************)
(* CSC4103/DM/memory_alloc.c: an allocator of consecutive pages. A free    *)
(* page holds the index of the next free one, -1 for the last; a page in   *)
(* use holds what its owner wrote, a value below -1.                       *)
(*                                                                         *)
(* A client asks for sizes in Tailles and frees what it was given, once,   *)
(* with the size it asked for.                                             *)
(***************************************************************************)
EXTENDS Integers, FiniteSets, FiniteSetsExt

CONSTANTS
  DEFAULT_SIZE,  \* the number of pages
  Page,          \* sizeof(memory_page_t)
  Tailles        \* the sizes clients ask for, in bytes

ASSUME MemoryAllocAssumption ==
  /\ DEFAULT_SIZE \in Nat \ {0}
  /\ Page \in Nat \ {0, 1}
  /\ Tailles # {} /\ Tailles \subseteq Nat \ {0}

VARIABLES
  blocks, available_blocks, first_block, error_no,  \* the fields of m
  alloues,  \* what clients hold: address and size (history)
  dernier   \* the last operation, its size and what it returned (history)

maVars == <<blocks, available_blocks, first_block, error_no, alloues, dernier>>

Pages == 0..DEFAULT_SIZE-1
Fin   == -1       \* the end of the free list
Donnee == -10     \* what test_alloc writes in the pages it gets

(* The pages that size bytes take: for (i = 0; i * Page < size; i++). *)
NbPages(size) == (size + Page - 1) \div Page

Etendue(a, n) == a..a+n-1

(* maillon[i] is where i steps along the free list lead. *)
maillon[i \in 0..DEFAULT_SIZE] ==
  IF i = 0 THEN first_block
  ELSE IF maillon[i-1] \in Pages THEN blocks[maillon[i-1]] ELSE Fin

(* The pages memory_reorder collects and sorts. *)
Chaine == {maillon[i] : i \in 0..available_blocks-1}

nb_consecutive_blocks ==
  Max({n \in 1..DEFAULT_SIZE :
         \A i \in 0..n-2 : first_block + i \in Pages /\ blocks[first_block + i] = first_block + i + 1})

MaInit ==
  /\ blocks = [i \in Pages |-> IF i = DEFAULT_SIZE - 1 THEN Fin ELSE i + 1]
  /\ available_blocks = DEFAULT_SIZE
  /\ first_block = 0
  /\ error_no = "E_SUCCESS"
  /\ alloues = {}
  /\ dernier = [op |-> "memory_init", taille |-> 0, res |-> 0]

-----------------------------------------------------------------------------
(* The pages of the free list linked in increasing order. *)
Ordonne ==
  [i \in Pages |->
     IF i \notin Chaine THEN blocks[i]
     ELSE LET suivants == {j \in Chaine : j > i} IN
          IF suivants = {} THEN maillon[available_blocks] ELSE Min(suivants)]

(* mutant: the list is sorted, its head is not updated. *)
TrierSansTete ==
  /\ blocks' = Ordonne
  /\ first_block' = first_block

Trier ==
  /\ blocks' = Ordonne
  /\ first_block' = Min(Chaine)

(* memory_reorder called by a client; it aborts when the memory is full. *)
Reordonner ==
  /\ first_block # Fin
  /\ Trier
  /\ dernier' = [op |-> "memory_reorder", taille |-> 0, res |-> 0]
  /\ UNCHANGED <<available_blocks, error_no, alloues>>

AllouerPlein(size) ==
  /\ first_block = Fin
  /\ error_no' = "E_MEM_FULL"
  /\ dernier' = [op |-> "memory_allocate", taille |-> size, res |-> -1]
  /\ UNCHANGED <<blocks, available_blocks, first_block, alloues>>

(* Too few pages follow the first one: the list is sorted, and the call    *)
(* fails, since available_consec_size is not computed again.               *)
AllouerRefuse(size) ==
  /\ first_block # Fin
  /\ Page * nb_consecutive_blocks < size
  /\ Trier
  /\ error_no' = "E_NOMEM"
  /\ dernier' = [op |-> "memory_allocate", taille |-> size, res |-> -1]
  /\ UNCHANGED <<available_blocks, alloues>>

(* mutant: available_blocks is not kept up to date. *)
AllouerSansDecompte(size) ==
  LET n == NbPages(size) IN
  /\ first_block # Fin
  /\ Page * nb_consecutive_blocks >= size
  /\ blocks' = [i \in Pages |-> IF i \in {maillon[k] : k \in 0..n-1} THEN Donnee ELSE blocks[i]]
  /\ first_block' = maillon[n]
  /\ alloues' = alloues \union {[adr |-> first_block, taille |-> size]}
  /\ dernier' = [op |-> "memory_allocate", taille |-> size, res |-> first_block]
  /\ UNCHANGED <<available_blocks, error_no>>

(* mutant: first_block still designates the pages given out. *)
AllouerSansAvancer(size) ==
  LET n == NbPages(size) IN
  /\ first_block # Fin
  /\ Page * nb_consecutive_blocks >= size
  /\ blocks' = [i \in Pages |-> IF i \in {maillon[k] : k \in 0..n-1} THEN Donnee ELSE blocks[i]]
  /\ available_blocks' = available_blocks - n
  /\ alloues' = alloues \union {[adr |-> first_block, taille |-> size]}
  /\ dernier' = [op |-> "memory_allocate", taille |-> size, res |-> first_block]
  /\ UNCHANGED <<first_block, error_no>>

(* The first pages of the list, which test_alloc then fills. *)
Allouer(size) ==
  LET n == NbPages(size) IN
  /\ first_block # Fin
  /\ Page * nb_consecutive_blocks >= size
  /\ blocks' = [i \in Pages |-> IF i \in {maillon[k] : k \in 0..n-1} THEN Donnee ELSE blocks[i]]
  /\ available_blocks' = available_blocks - n
  /\ first_block' = maillon[n]
  /\ alloues' = alloues \union {[adr |-> first_block, taille |-> size]}
  /\ dernier' = [op |-> "memory_allocate", taille |-> size, res |-> first_block]
  /\ UNCHANGED error_no

-----------------------------------------------------------------------------
(* mutant: 8 bytes are not a case of their own. *)
NbToursSansCas(size) == (size - 1 + Page - 1) \div Page

(* The turns of the loop of memory_free, which leaves the last page to the *)
(* assignment that follows it.                                             *)
NbTours(size) == IF size = Page THEN 0 ELSE (size - 1 + Page - 1) \div Page

(* A page past the end of blocks is where available_blocks lies: the       *)
(* assignment falls on it, before or after its last update.                *)
Liberer(a) ==
  LET k == NbTours(a.taille) IN
  /\ a \in alloues
  /\ blocks' = [i \in Pages |-> IF i \in Etendue(a.adr, k) THEN i + 1
                                ELSE IF i = a.adr + k THEN first_block ELSE blocks[i]]
  /\ available_blocks' \in {available_blocks + k + 1}
                             \union IF a.adr + k \in Pages THEN {} ELSE {first_block + 1}
  /\ first_block' = a.adr
  /\ alloues' = alloues \ {a}
  /\ dernier' = [op |-> "memory_free", taille |-> a.taille, res |-> 0]
  /\ UNCHANGED error_no

MaNext ==
  \/ \E size \in Tailles : AllouerPlein(size) \/ AllouerRefuse(size) \/ Allouer(size)
  \/ \E a \in alloues : Liberer(a)
  \/ Reordonner

MaSpec == MaInit /\ [][MaNext]_maVars

-----------------------------------------------------------------------------
Occupees == UNION {Etendue(a.adr, NbPages(a.taille)) : a \in alloues}

MaTypeOK ==
  /\ blocks \in [Pages -> Pages \union {Fin, Donnee}]
  /\ available_blocks \in 0..DEFAULT_SIZE
  /\ first_block \in Pages \union {Fin}
  /\ error_no \in {"E_SUCCESS", "E_NOMEM", "E_MEM_FULL"}
  /\ alloues \subseteq [adr : Pages, taille : Tailles]

(* The free list is what the allocator lives on: it visits each page that  *)
(* is not in use exactly once, and available_blocks is its length.  With   *)
(* the types.                                                              *)
ListeLibreExacte ==
  /\ MaTypeOK
  /\ Chaine = Pages \ Occupees
  /\ available_blocks = DEFAULT_SIZE - Cardinality(Occupees)
  /\ maillon[available_blocks] = Fin

(* No page is in two allocations, and none outside the memory.             *)
Disjoints ==
  /\ \A a, b \in alloues :
       a # b => Etendue(a.adr, NbPages(a.taille)) \intersect Etendue(b.adr, NbPages(b.taille)) = {}
  /\ Occupees \subseteq Pages

(* The last call was refused for want of consecutive pages.                *)
Refusee == dernier.op = "memory_allocate" /\ dernier.res = -1 /\ error_no = "E_NOMEM"

(* memory_reorder brings what is free at the bottom of the memory to the   *)
(* head of the list: after it, called by a client or by a call that was    *)
(* then refused, whatever fits there is granted.  So a request that is     *)
(* refused although it fits there is granted when it is made again.        *)
TriUtile ==
  Refusee \/ dernier.op = "memory_reorder" =>
    LET libres == Pages \ Occupees IN
    \A size \in Tailles :
      Etendue(Min(libres), NbPages(size)) \subseteq libres => Page * nb_consecutive_blocks >= size

(* memory_alloc.h:15, "E_NOMEM, error: not enough memory": what a call     *)
(* refuses does not fit in the pages that the list begins with.            *)
RefusJustifie == Refusee => Page * nb_consecutive_blocks < dernier.taille

(* memory_alloc.c:148, "Free the size bytes memory space starting at       *)
(* address addr": the pages freed are those that were allocated, so that   *)
(* the pages of the list and those of the allocations stay apart.          *)
LibererExact == Chaine \intersect Occupees = {}

=============================================================================
