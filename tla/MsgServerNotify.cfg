SPECIFICATION MCSpec
CONSTANTS
  c1 = c1
  c2 = c2
  c3 = c3
  t1 = t1
  t2 = t2
  Clients = {c1, c2, c3, c4}
  Fin = {c4}
  Threads = {t1, t2}
  Main = main
  Adieu = adieu
  Programmes = {"notify"}
  MaxMsg = 2
  MaxLancements = 1
PROPERTIES ArretSurDemande
CHECK_DEADLOCK FALSE
