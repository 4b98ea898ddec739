SPECIFICATION FairSpec
CONSTANTS
  Traiteurs = {t1, t2}
  NbReq = 5
  Adresses = {a1, a2, a3, a4, a5}
  Capacite = 1
  NULL = NULL
  Libre = Libre
INVARIANTS UnSeulPossesseur MemoireBornee
PROPERTIES DSpec Termination
