SPECIFICATION Spec
CONSTANTS
  Traiteurs = {t1, t2}
  NbReq = 2
  TailleMax = 6
  SizeofInt = 2
  Longueurs <- MCLongueurs
  Capacite = 13
INVARIANTS PasDEchec
