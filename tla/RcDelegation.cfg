CONSTANTS
  Account = {1, 2}
  Worker = {w1, w2}
  BatchSize = 1
  NoTarget = none
  MaxGeneration = 3
  MaxSetbacks = 2
CHECK_DEADLOCK FALSE
SPECIFICATION FairSpec
INVARIANTS NoBlindSecondBroadcast DelegatedIsBacked
PROPERTIES EveryDelegationSettles UncertainIsResolved
