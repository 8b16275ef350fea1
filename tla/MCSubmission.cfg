CONSTANTS
  x1 = x1
  m1 = m1
  k1 = k1
  A = A
  c1 = c1
  s1 = s1
  None = None
  Client = {c1}
  Company = {x1}
  Contact = {m1, k1}
  CompanyOf <- MCCompanyOf
  MainContact <- MCMain
  MainEmail <- MCMail
  Key = {A}
  Lower <- MCLower
  Status = {"ACTIVE", "INACTIVE"}
  Edited = {x1, m1}
  Submitter = {s1}
  MaxNumber = 1
  MaxDay = 1
SPECIFICATION SubSpec
INVARIANTS
  EligibleDuringCall
