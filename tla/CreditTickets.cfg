CONSTANTS
  Builder = {b1}
  MaxAmount = 1
  MaxRevision = 5
  Intent = {n1}
  NoBuilder = nobody
  Form = {f1}
  NoCommand = nothing
  Ticket = {t1}
  Attempt = {a1, a2}
  Purchase = {q1}
  System = system
  NoTicket = noticket
  MaxUses = 2
SYMMETRY Symmetry
SPECIFICATION Spec
INVARIANTS CreditDiagnosisIsClean CreditsAreConserved TicketUsesAccounted
  OpenAttemptsCanBeRolledBack
PROPERTIES ImplementsCreditFlow
CHECK_DEADLOCK FALSE
