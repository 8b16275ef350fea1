CONSTANTS
  s1 = s1
  s2 = s2
  Session = {s1, s2}
  Timeout = 2
  ReportGap = 1
  MaxNow = 3
  None = None
SPECIFICATION FairSpec
INVARIANTS
  TypeOK
  IdleClocksAgree
  GivenUpStaysSo
PROPERTIES
  NothingSentOnceOver
  IdlePageEnds
