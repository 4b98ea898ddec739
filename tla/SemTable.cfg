SPECIFICATION FairSpec
CONSTANTS
  Traiteurs = {t1, t2}
  NbReq = 5
INVARIANTS TypeOK AccesSurs Comptes
PROPERTIES DSpec
