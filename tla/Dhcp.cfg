SPECIFICATION Spec
CONSTANTS
  None = None
  Addresses = {a, b}
  Terms <- MCTerms
  Infinite = 100
  FirstRetry = 1
  MaxRetry = 2
  MaxRequestAttempts = 2
  MinRenew = 2
  Elapses = {0, 1, 4}
  MaxDelay = 1
  MaxReplies = 2
INVARIANTS
  AddressIsItsOwn
CHECK_DEADLOCK FALSE
