SPECIFICATION FairSpec
CONSTANTS
  AttemptMax = 2
  CommandMax = 4
  TryMax = 2
  FaultMax = 1
  Worker = worker
  Operators = {operator}
  Plans <- SafePlans
INVARIANTS
  NothingIsLeft
  VerifiedIsServed
  NeverLost
PROPERTIES
  Disconnects
CHECK_DEADLOCK FALSE
