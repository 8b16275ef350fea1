CONSTANTS
  r1 = r1
  v1 = v1
  h1 = h1
  h2 = h2
  w1 = w1
  None = None
  Request = {r1}
  Visitor = {v1}
  Parent <- OneParent
  VisitDate <- VisitToday
  Legacy = {}
  Handler = {h1, h2}
  Worker = {w1}
  MaxDay = 1
SPECIFICATION LiveSpec
INVARIANTS
  ParentGuardsVisitors
  HandlerReadsHold
  DeparturesAccepted
  SweepReadsHold
  AuditExplainsStatus
PROPERTIES
  ProtocolSpec
  CallsEnd
  OverdueSettled
