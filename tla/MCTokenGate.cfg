CONSTANTS
  k1 = k1
  k2 = k2
  t1 = t1
  t2 = t2
  OPS = OPS
  SECURITY = SECURITY
  None = None
  Thread = {t1, t2}
  Kid = {k1, k2}
  Role = {OPS, SECURITY}
  Tokens <- MCTokens
  Routes <- MCRoutes
SPECIFICATION FairGateSpec
INVARIANTS
  SettledKeyFound
PROPERTIES
  CallsAnswered
