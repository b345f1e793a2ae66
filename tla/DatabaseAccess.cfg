CONSTANTS
  p = p  q = q
  outer = outer  inner = inner  put = put
  snapshot = snapshot  get1 = get1  get2 = get2  wrong = wrong  alone = alone
  NoCall = NoCall
  Process = {p, q}
  Call = {outer, inner, put, snapshot, get1, get2, wrong, alone}
  ProcessOf <- Processes
  Kind <- Kinds
  Parent <- Parents
  Root <- Roots
  Writing <- Writes
  MaxRetries = 1
CHECK_DEADLOCK FALSE
SPECIFICATION FairSpec
INVARIANTS AllOrNothing NestedFailureUndoesAll SnapshotIsCoherent
PROPERTIES ImplementsAtomicStore EveryCallSettles
