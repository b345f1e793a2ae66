----------------------------- MODULE BuilderTickets -----------------------------
(***************************************************************************)
(* The tickets a builder buys with credits, and those of the               *)
(* administrator (src/pages/api/builders/tickets, tickets-repository.ts,   *)
(* tickets/archive-ticket.ts, pages/api/management/tickets.ts), together   *)
(* with the requests that use them (src/utils/db-ticket-validator.ts).     *)
(*                                                                         *)
(* A ticket's row is never deleted: archiving retires its unused uses and  *)
(* refunds them.  A creation attempt takes a use, and its rollback or its  *)
(* completion decides what becomes of it; the leases that make this        *)
(* decision unique, and Hive, are the subject of AccountCreation: here an  *)
(* open attempt is decided once.  Refusals change nothing and are not      *)
(* actions.  That an owner is blocked only refuses reservations, which are *)
(* optional here.                                                          *)
(***************************************************************************)
EXTENDS CreditAdjustments, FiniteSets

CONSTANTS
  Ticket,         (* ticket codes; a code is taken for ever                 *)
  Attempt,        (* creation attempts                                      *)
  Purchase,       (* requests POST /api/builders/tickets                    *)
  System,         (* the owner of tickets with funding_source 'system'      *)
  NoTicket,       (* the ticket of an attempt that does not exist           *)
  MaxUses         (* MAX_TICKET_USES                                        *)

ASSUME TicketAssumption ==
  /\ System \notin Builder \cup {NoBuilder}
  /\ NoTicket \notin Ticket
  /\ MaxUses \in Nat \ {0}
  /\ IsFiniteSet(Attempt)

VARIABLES
  tickets,        (* per code: the row of Tickets                           *)
  attempts,       (* per attempt: its ticket, and whether it is open        *)
  purchases,      (* per request: what validateOperation let through        *)
  references      (* per code: CreditAudit by external_reference            *)

ticketVars == << tickets, attempts, purchases, references >>
creditVars == << credits, audit >>
claimVars == << intents, chain >>
adjustVars == << commands, receipts, answers >>

(* owner: NoBuilder while the code is free.                                 *)
TicketRow == [owner : Builder \cup {NoBuilder, System}, total : Nat, remaining : Nat,
              retired : Nat, revoked : BOOLEAN, archived : BOOLEAN]
AttemptState == {"none", "open", "completed", "rolled_back"}
(* consumed: the journal has the row creation:<id>:consume.                 *)
AttemptRow == [ticket : Ticket \cup {NoTicket}, state : AttemptState, consumed : BOOLEAN]
PurchaseRow == [builder : Builder \cup {NoBuilder}, uses : Nat]
(* The journal rows that name the ticket: ticket:<id>:create, the sum of    *)
(* ticket:<id>:uses:<uuid>, and ticket:<id>:archive-refund.                 *)
ReferenceRow == [create : Nat, uses : Int, refund : Nat]

TicketsInit ==
  /\ tickets = [t \in Ticket |-> [owner |-> NoBuilder, total |-> 0, remaining |-> 0,
                                  retired |-> 0, revoked |-> FALSE, archived |-> FALSE]]
  /\ attempts = [a \in Attempt |-> [ticket |-> NoTicket, state |-> "none", consumed |-> FALSE]]
  /\ purchases = [q \in Purchase |-> [builder |-> NoBuilder, uses |-> 0]]
  /\ references = [t \in Ticket |-> [create |-> 0, uses |-> 0, refund |-> 0]]

TicketsTypeOK ==
  /\ tickets \in [Ticket -> TicketRow]
  /\ attempts \in [Attempt -> AttemptRow]
  /\ purchases \in [Purchase -> PurchaseRow]
  /\ references \in [Ticket -> ReferenceRow]
  /\ \A a \in Attempt : attempts[a].state # "none" => attempts[a].ticket \in Ticket

Created(t) == tickets[t].owner # NoBuilder
Owned(t) == tickets[t].owner \in Builder
AttemptsOn(t, state) == {a \in Attempt : attempts[a].ticket = t /\ attempts[a].state = state}

(* POST: the balance is read before the transaction, ...                    *)
ValidateOperation(q, b, uses) ==
  /\ purchases[q].builder = NoBuilder
  /\ credits[b].available >= uses
  /\ purchases' = [purchases EXCEPT ![q] = [builder |-> b, uses |-> uses]]
  /\ UNCHANGED << creditVars, claimVars, adjustVars, tickets, attempts, references >>

(* INSERT INTO Tickets.                                                     *)
Insert(t, owner, uses) ==
  tickets' = [tickets EXCEPT ![t] =
    [owner |-> owner, total |-> uses, remaining |-> uses, retired |-> 0,
     revoked |-> FALSE, archived |-> FALSE]]

(* ... and the ticket is created and paid for in one: a code taken by now   *)
(* or credits spent by now roll it back.                                    *)
CreateTicket(q, t) ==
  LET b == purchases[q].builder
      uses == purchases[q].uses IN
  /\ b # NoBuilder /\ uses > 0
  /\ ~Created(t)
  /\ Insert(t, b, uses)
  /\ DeductCreditsForTicket(b, uses)
  /\ references' = [references EXCEPT ![t] = [create |-> uses, uses |-> 0, refund |-> 0]]
  /\ purchases' = [purchases EXCEPT ![q] = [builder |-> b, uses |-> 0]]
  /\ UNCHANGED << claimVars, adjustVars, attempts >>

(* POST /api/management/tickets: no credits are involved.                   *)
CreateSystemTicket(t, uses) ==
  /\ ~Created(t)
  /\ Insert(t, System, uses)
  /\ UNCHANGED << creditVars, claimVars, adjustVars, attempts, purchases, references >>

(* PATCH with revoked: an archived ticket is refused.                       *)
SetRevoked(t, revoked) ==
  LET k == tickets[t] IN
  /\ Owned(t) /\ ~k.archived
  /\ tickets' = [tickets EXCEPT ![t] =
       [owner |-> k.owner, total |-> k.total, remaining |-> k.remaining,
        retired |-> k.retired, revoked |-> revoked, archived |-> k.archived]]
  /\ UNCHANGED << creditVars, claimVars, adjustVars, attempts, purchases, references >>

(* The WHERE of updateOwnedUses, and the checks of validateUsesDelta that   *)
(* it repeats.                                                              *)
AcceptsDelta(t, delta) ==
  LET k == tickets[t] IN
  /\ ~k.archived
  /\ k.remaining + delta >= 0
  /\ k.total + delta \in 1 .. MaxUses

(* PATCH with delta: credits and uses change together, or the update that   *)
(* finds no row throws and rolls the credits back.                          *)
UpdateOwnedUses(t, delta) ==
  LET k == tickets[t] IN
  /\ Owned(t) /\ AcceptsDelta(t, delta)
  /\ \/ delta > 0 /\ DeductCreditsForTicket(k.owner, delta)
     \/ delta < 0 /\ RefundCreditsFromTicket(k.owner, -delta)
  /\ tickets' = [tickets EXCEPT ![t] =
       [owner |-> k.owner, total |-> k.total + delta, remaining |-> k.remaining + delta,
        retired |-> k.retired, revoked |-> k.revoked, archived |-> k.archived]]
  /\ references' = [references EXCEPT ![t] =
       [create |-> references[t].create, uses |-> references[t].uses + delta,
        refund |-> references[t].refund]]
  /\ UNCHANGED << claimVars, adjustVars, attempts, purchases >>

(* Mutant: it does not.                                                     *)
MayArchiveAnyTime(t) == Owned(t) /\ ~tickets[t].archived

(* archiveOwnedTicket waits for the open attempts.                          *)
MayArchive(t) == Owned(t) /\ ~tickets[t].archived /\ AttemptsOn(t, "open") = {}

(* Mutant: all uses the ticket was bought with.                             *)
RetiresTotal(k) == k.total

(* The uses archiveOwned retires.                                           *)
Retires(k) == k.retired + k.remaining

(* DELETE: the unused uses are retired and refunded, once.                  *)
ArchiveOwned(t) ==
  LET k == tickets[t]
      retired == Retires(k) IN
  /\ MayArchive(t)
  /\ tickets' = [tickets EXCEPT ![t] =
       [owner |-> k.owner, total |-> k.total, remaining |-> 0, retired |-> retired,
        revoked |-> k.revoked, archived |-> TRUE]]
  /\ IF retired > 0 THEN RefundCreditsFromTicket(k.owner, retired)
                    ELSE UNCHANGED creditVars
  /\ references' = [references EXCEPT ![t] =
       [create |-> references[t].create, uses |-> references[t].uses, refund |-> retired]]
  /\ UNCHANGED << claimVars, adjustVars, attempts, purchases >>
------------------------------------------------------------------------------
(* A use is reserved for an attempt, ...                                    *)
ReserveTicketCredit(a, t) ==
  LET k == tickets[t] IN
  /\ attempts[a].state = "none"
  /\ Created(t) /\ k.remaining > 0 /\ ~k.revoked /\ ~k.archived
  /\ tickets' = [tickets EXCEPT ![t] =
       [owner |-> k.owner, total |-> k.total, remaining |-> k.remaining - 1,
        retired |-> k.retired, revoked |-> k.revoked, archived |-> k.archived]]
  /\ attempts' = [attempts EXCEPT ![a] = [ticket |-> t, state |-> "open", consumed |-> FALSE]]
  /\ UNCHANGED << creditVars, claimVars, adjustVars, purchases, references >>

(* ... given back, ...                                                      *)
CanRestore(t) ==
  LET k == tickets[t] IN ~k.archived /\ k.remaining < k.total - k.retired

RollbackTicketReservation(a) ==
  LET t == attempts[a].ticket
      k == tickets[t] IN
  /\ attempts[a].state = "open"
  /\ CanRestore(t)
  /\ tickets' = [tickets EXCEPT ![t] =
       [owner |-> k.owner, total |-> k.total, remaining |-> k.remaining + 1,
        retired |-> k.retired, revoked |-> k.revoked, archived |-> k.archived]]
  /\ attempts' = [attempts EXCEPT ![a] = [ticket |-> t, state |-> "rolled_back", consumed |-> FALSE]]
  /\ UNCHANGED << creditVars, claimVars, adjustVars, purchases, references >>

(* Mutant: the row of Credits is not updated.                               *)
CompleteWithoutConsuming(a) ==
  LET t == attempts[a].ticket IN
  /\ attempts[a].state = "open"
  /\ attempts' = [attempts EXCEPT ![a] = [ticket |-> t, state |-> "completed",
                                          consumed |-> Owned(t)]]
  /\ UNCHANGED << creditVars, claimVars, adjustVars, tickets, purchases, references >>

(* ... or spent on the account: the credit of a builder's ticket counts as  *)
(* consumed from now on.                                                    *)
CompleteAccountCreation(a) ==
  LET t == attempts[a].ticket IN
  /\ attempts[a].state = "open"
  /\ attempts' = [attempts EXCEPT ![a] = [ticket |-> t, state |-> "completed",
                                          consumed |-> Owned(t)]]
  /\ IF Owned(t) THEN MarkCreditsAsConsumed(tickets[t].owner, 1)
                 ELSE UNCHANGED creditVars
  /\ UNCHANGED << claimVars, adjustVars, tickets, purchases, references >>

==============================================================================
