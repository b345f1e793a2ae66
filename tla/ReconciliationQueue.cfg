CONSTANTS
  Entry = {e1}
  Cycle = {c1, c2}
  Script = {s1}
  NoEntry = NoEntry
  MaxAttempts = 2
  MaxReviews = 2
  MaxSetbacks = 3
CHECK_DEADLOCK FALSE
SPECIFICATION FairSpec
INVARIANTS RetryBudget ReviewedIsNotRequeued ResolvedIsDecided
PROPERTIES ReviewNeedsOperator EveryEntrySettles
