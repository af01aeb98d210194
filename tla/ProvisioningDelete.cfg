SPECIFICATION Spec
CONSTANTS
  AttemptMax = 1
  CommandMax = 1
  TryMax = 2
  FaultMax = 1
  Worker = worker
  Operators = {operator}
  Plans <- DeletePlans
INVARIANT ErasedIsEmptyAlways
CHECK_DEADLOCK FALSE
