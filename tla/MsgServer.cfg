SPECIFICATION MCSpec
CONSTANTS
  c1 = c1
  c2 = c2
  c3 = c3
  t1 = t1
  t2 = t2
  Clients = {c1, c2, c3, c4}
  Fin = {c4}
  Threads = {t1, t2}
  Main = main
  Adieu = adieu
  Programmes = {"boucle", "notify"}
  MaxMsg = 2
  MaxLancements = 2
INVARIANTS UnSeulTraitement ReponseDue
PROPERTIES SourdPourToujours Servie AttenteBornee
CHECK_DEADLOCK FALSE
