CONSTANTS
  Builder = {b1}
  MaxAmount = 2
  MaxRevision = 6
  Intent = {}
  NoBuilder = nobody
  Form = {}
  NoCommand = nothing
  Ticket = {t1, t2}
  Attempt = {a1, a2}
  Purchase = {q1, q2}
  System = system
  NoTicket = noticket
  MaxUses = 2
SYMMETRY Symmetry
SPECIFICATION Spec
INVARIANT CreationAuditMatchesTicket
CHECK_DEADLOCK FALSE
