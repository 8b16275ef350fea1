CONSTANTS
  Item = {1, 2}
  PageSize = 1
  MaxReads = 2
  MaxPosts = 2
  None = None
SPECIFICATION FairSpec
INVARIANTS
  ShownIncludesOwnActions
  ShownFitsTheQuery
  OneActionAtATime
  GivenUpNeverSent
PROPERTIES
  ActionEnds
