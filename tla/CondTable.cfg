SPECIFICATION FairSpec
CONSTANTS
  Traiteurs = {t1, t2, t3}
  NbReq = 7
INVARIANTS AccesExclusif PasDeReveilPerdu
PROPERTIES DSpec
