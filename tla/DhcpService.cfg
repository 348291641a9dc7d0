SPECIFICATION Spec
CONSTANTS
  None = None
  Addresses = {a}
  Terms <- MCLongTerms
  Infinite = 100
  FirstRetry = 1
  MaxRetry = 2
  MaxRequestAttempts = 2
  MinRenew = 2
  Elapses = {0, 1}
  MaxDelay = 1
  MaxReplies = 1
PROPERTIES ComesBack
CHECK_DEADLOCK FALSE
