CONSTANTS
  Name = {alice, bob}
  Ticket = {t1, v1, v2}
  Keys = {k1, k2, k3}
  NoKeys = nokeys
  NoSession = nosession
  Identity = {u1, u2}
  Nobody = nobody
  InviteTicket = {v1, v2}
  Tab = {b1, b2}
  Call = {c1, c2}
  NoTab = notab
  NoBrowser = nobrowser
  NoName = noname
  NoTicket = noticket
  NoCall = nocall
  MaxEntries = 2
  MaxSetbacks = 1
SYMMETRY Symmetry
SPECIFICATION Spec
INVARIANTS KeysWereSaved TicketWasEntered SuccessIsTrue InvitesAreSpentByTheirOwner OneAccountPerInvitee
PROPERTIES CreatedIsTrue
CHECK_DEADLOCK FALSE
