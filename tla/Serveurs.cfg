SPECIFICATION MCSpec
CONSTANTS
  Redacteurs = {c1, c2}
  Homonymes = {c1, c2}
  Lecteurs = {r1, r2}
  Distraits = {r1}
  Libre = libre
  MAX_WRITER = 2
  MAX_READER = 1
  MaxTube = 2
  TcMax = 3
  ChClients = {c1, c2, c3}
  Ignore = ignore
  Distrait = c1
  MAX_CLIENTS = 3
  EcClients = {c1, c2, c3}
  Muet = c1
  Personne = personne
  MAXFDS = 4
  Cases = 2
  WbClients = {c1, c2, c3}
  MaxFd = 2
  c1 = c1
  c2 = c2
  c3 = c3
  r1 = r1
  r2 = r2
  a = a
  b = b
  NoClients = {c1, c2, c3}
  Lettre <- MCLettre
  Ouvriers = {o1, o2}
  Inconnu = inconnu
  TcpClients = {c1, c2, c3}
  NB_MAX_REPONSES = 1
  NB_THREADS_DANS_POOL = 2
  SpClients = {c1, c2}
  Imprimantes = {p1, p2}
  Principal = c2
  Serveur = p1
  Vierge = vierge
  CASEMAX = 2
  MaxFichiers = 2
  Virements = {c1, c2, c3}
INVARIANTS Places  EchoSuivi NumerosJustes BonneReponse Survit AnneauExact SoldeExact
PROPERTIES PlacesPerdues ChacunServi
CHECK_DEADLOCK FALSE
