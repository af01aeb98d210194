SPECIFICATION FairSpec
CONSTANTS
  ada = ada
  bea = bea
  letter = letter
  relic = relic
  None = None
  Household = {ada, bea}
  Message = {letter, relic}
  Legacy = {relic}
  SignedFor <- Signed
  MaxAttempts = 2
  FaultMax = 1
INVARIANTS
  ToWhomItWasAccepted
  AckedIsKept
PROPERTIES
  EveryRowLeaves
CHECK_DEADLOCK FALSE
