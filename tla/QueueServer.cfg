SPECIFICATION FairSpec
CONSTANTS
  Traiteurs = {t1, t2}
  NbReq = 3
  Capacite = 2
  MaxInvocations = 3
INVARIANTS InvocationPropre
PROPERTIES HeriteDUnTue DSpec TerminePropre
CHECK_DEADLOCK FALSE
