SPECIFICATION Spec
CONSTANTS
  a1 = a1
  a2 = a2
  p1 = p1
  p2 = p2
  mother = mother
  child = child
  stranger = stranger
  f1 = f1
  NoFact = NoFact
  Fact = {f1}
  May <- MCMay
  Approval = {a1}
  Proc = {p1, p2}
  Width = 2
  FailedMax = 1
  StaleLimit = 2
  MaxCrashes = 1
  Person <- Everyone
  Near <- Family
  Cards <- AllCards
INVARIANTS
  NothingWithoutYes
  AtMostOneCall
  WriteAhead
  HonestJournal
PROPERTIES
  FactNeedsYes
  KeepsPromise
CHECK_DEADLOCK FALSE
