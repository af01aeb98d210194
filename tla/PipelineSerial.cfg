SPECIFICATION FairSpec
CONSTANTS
  a1 = a1
  a2 = a2
  p1 = p1
  p2 = p2
  mother = mother
  child = child
  stranger = stranger
  f1 = f1
  NoFact = NoFact
  Fact = {}
  May <- MCMay
  Approval = {a1, a2}
  Proc = {p1}
  Width = 2
  FailedMax = 1
  StaleLimit = 1
  MaxCrashes = 2
  Person <- Parents
  Near <- Family
  Cards <- SerialCards
INVARIANTS
  VerdictMatchesJournal
PROPERTIES
  ClaimedSettles
CHECK_DEADLOCK FALSE
