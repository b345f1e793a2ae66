CONSTANTS
  Builder = {b1}
  MaxAmount = 2
  MaxRevision = 4
  Intent = {n1, n2}
  NoBuilder = nobody
  Form = {f1}
  NoCommand = nothing
  Ticket = {}
  Attempt = {}
  Purchase = {}
  System = system
  NoTicket = noticket
  MaxUses = 2
SYMMETRY Symmetry
SPECIFICATION Spec
INVARIANTS LedgerTypeOK IntentsStayCovered ClaimsAreBacked
PROPERTIES AdjustsWhatItRead AppliedIsNeverRefused
CHECK_DEADLOCK FALSE
