CONSTANTS
  x1 = x1
  x2 = x2
  m1 = m1
  m2 = m2
  A = A
  B = B
  c1 = c1
  c2 = c2
  None = None
  Client = {c1, c2}
  Company = {x1, x2}
  Contact = {m1, m2}
  CompanyOf <- CompaniesOnly
  MainContact <- Mains
  Key = {A, B}
  MainEmail <- Mails
  Lower <- TwoKeys
  Edited = {x1, x2}
  Status = {"ACTIVE"}
SPECIFICATION FairSpec
INVARIANTS
  CodesDistinct
PROPERTIES
  AuditTellsTheChange
  RequestsEnd
