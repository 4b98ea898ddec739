SPECIFICATION MCSpec
CONSTANTS
  DEFAULT_SIZE = 6
  Page = 8
  Tailles <- MCTaillesSaines
  NbCles = 7
  Cles <- MCCles
  Noeuds <- MCNoeuds
  Valeurs = {v1, v2}
  NULL = NULL
INVARIANTS ListeLibreExacte Disjoints TriUtile SansFuite AVL
PROPERTIES DicoSpec
