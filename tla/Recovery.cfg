CONSTANTS
  r1 = r1  r2 = r2  w1 = w1  i1 = i1  i2 = i2
  u1 = u1  t1 = t1  k1 = k1
  NoAttempt = NoAttempt  NoAccount = NoAccount
  Attempt = {r1, r2}
  Reconciler = {w1}
  Instance = {i1}
  User = {u1}
  Ticket = {t1}
  KeySet = {k1}
  Intent <- MixedIntent
  TotalUses <- OneUse
  InstanceOf <- OneInstance
  PromptClaim = TRUE
  MaxSetbacks = 2
  MaxGeneration = 7
CHECK_DEADLOCK FALSE
SPECIFICATION FairSpec
INVARIANT TypeOK
PROPERTY EveryAttemptDecided
