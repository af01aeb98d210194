SPECIFICATION FairSpec
CONSTANTS
  RevMax = 3
  TokenMax = 3
  IdMax = 4
  Member = {ann, bob}
  FaultMax = 2
  Worker = worker
  Operator = operator
  Plans <- SafePlans
INVARIANTS
  PublishedIsServed
  ActiveIsServed
PROPERTIES
  NeverTornDown
  RolloutEnds
CHECK_DEADLOCK FALSE
