SPECIFICATION FairSpec
CONSTANTS
  r1 = r1
  r2 = r2
  t1 = t1
  s1 = s1
  None = None
  Reminder = {r1, r2}
  Replaces <- NewerVersion
  DueAt <- Mornings
  Day <- Halves
  LeaseFor = 1
  Tick = {t1}
  Scheduler = {s1}
  LastMoment = 3
  MaxFaults = 2
INVARIANTS
  OneDate
  RingsAreAccounted
PROPERTIES
  CancelledIsSilent
  RingsInTheEnd
CHECK_DEADLOCK FALSE
