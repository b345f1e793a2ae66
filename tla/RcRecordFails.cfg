CONSTANTS
  Account = {1}
  Worker = {w1, w2}
  BatchSize = 1
  NoTarget = none
  MaxGeneration = 3
  MaxSetbacks = 2
SYMMETRY Alike
CHECK_DEADLOCK FALSE
SPECIFICATION Spec
INVARIANT BroadcastAtMostOnce
