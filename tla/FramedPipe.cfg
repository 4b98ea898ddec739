SPECIFICATION FairSpec
CONSTANTS
  Traiteurs = {t1, t2}
  NbReq = 4
  TailleMax = 6
  SizeofInt = 2
  Longueurs <- MCLongueurs
  Capacite = 13
INVARIANTS Aligne
PROPERTIES DSpec Termination
