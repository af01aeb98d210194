SPECIFICATION Spec
CONSTANTS
  RevMax = 3
  TokenMax = 3
  IdMax = 4
  Member = {ann, bob}
  FaultMax = 2
  Worker = worker
  Operator = operator
  Plans <- RacedPlans
PROPERTIES
  NeverTornDown
CHECK_DEADLOCK FALSE
