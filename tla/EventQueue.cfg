SPECIFICATION FairSpec
CONSTANTS
  e1 = e1
  e2 = e2
  e3 = e3
  thread = thread
  NoLetter = NoLetter
  NoContext = NoContext
  Letter = {e1, e2, e3}
  Context <- TwoInThread
  Plain = {e3}
  Worker = {w1, w2}
  Receiver = {r1}
  MaxAttempts = 2
  MaxCrashes = 1
  Plans <- MCPlans
INVARIANTS
  DoneWasShown
  ErasureHolds
PROPERTIES
  InOrder
  KeepsInbox
  EveryLetterSettles
CHECK_DEADLOCK FALSE
