CONSTANTS
  party = party
  single = single
  old = old
  ann = ann
  ben = ben
  cleo = cleo
  gone = gone
  Request = {party, single, old}
  Visitor = {ann, ben, cleo, gone}
  Parent <- MCParent
  VisitDate <- MCVisitDate
  Legacy = {old}
  MaxDay = 2
SPECIFICATION ViewSpec
INVARIANTS
  OutcomesMatchDecisions
  ListsMissNothing
  SummariesMissNothing
