SPECIFICATION FairSpec
CONSTANTS
  Letters <- MCLetters
  Rich <- MCRich
  Confirmations <- MCConfirmations
  MaxAttempts = 2
  StaleAfterMisses = 2
  MaxRev = 2
  MaxDay = 3
  MaxCheck = 3
  Plans <- MCPlans
INVARIANTS
  SettledIsKept
PROPERTIES
  StaleIsEarned
  OutageIsNoticed
  EveryWebhookSettles
CHECK_DEADLOCK FALSE
