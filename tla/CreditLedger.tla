------------------------------ MODULE CreditLedger ------------------------------
(***************************************************************************)
(* The ledger of credits: balances, claims, the administrator's form,      *)
(* tickets and their uses together, every operation one transaction, in    *)
(* any order (withTransaction, src/lib/database.ts).                       *)
(*                                                                         *)
(* What must hold of it is what the program itself looks for in            *)
(* src/lib/database-diagnostics.ts, and what its balance form, its claim   *)
(* intents and its archive rely on.                                        *)
(***************************************************************************)
EXTENDS BuilderTickets, Functions

vars == << creditVars, claimVars, adjustVars, ticketVars >>

Init == CreditsInit /\ ClaimsInit /\ AdjustmentsInit /\ TicketsInit

(* The endpoint PATCH /api/management/users/<name>/credits; the other grant *)
(* is exported by credits-service.ts and called by the tests.               *)
Grant(b, n) ==
  /\ Bounded(b)
  /\ GrantPendingCredits(b, n) \/ GrantAvailableCredits(b, n)
  /\ UNCHANGED << claimVars, adjustVars, ticketVars >>

ClaimStep(n) ==
  \/ \E b \in Builder : CreateClaimIntent(b, n) /\ UNCHANGED << adjustVars, ticketVars >>
  \/ IntentExpires(n) /\ UNCHANGED << adjustVars, ticketVars >>
  \/ BroadcastClaim(n) /\ UNCHANGED << adjustVars, ticketVars >>
  \/ ClaimFinalises(n) /\ UNCHANGED << adjustVars, ticketVars >>
  \/ ClaimForkedOut(n) /\ UNCHANGED << adjustVars, ticketVars >>
  \/ /\ Live(n) /\ Bounded(intents[n].owner)
     /\ CompleteClaim(n)
     /\ UNCHANGED << adjustVars, ticketVars >>

FormStep(f) ==
  \/ /\ \E b \in Builder : \E pending \in Entry(credits[b].pending),
                             available \in Entry(credits[b].available) :
          SubmitEditForm(f, b, pending, available)
     /\ UNCHANGED ticketVars
  \/ ReplayAdjustment(f) /\ UNCHANGED ticketVars
  \/ RefuseAdjustment(f) /\ UNCHANGED ticketVars
  \/ /\ Sent(f) /\ Bounded(commands[f].builder)
     /\ AdjustBuilderCredits(f)
     /\ UNCHANGED ticketVars

PurchaseStep(q) ==
  \/ \E b \in Builder, uses \in 1 .. MaxUses : ValidateOperation(q, b, uses)
  \/ \E t \in Ticket : /\ purchases[q].builder \in Builder
                       /\ Bounded(purchases[q].builder)
                       /\ CreateTicket(q, t)

(* A step that changes the owner's balance is bounded.                      *)
TicketStep(t) ==
  \/ \E uses \in 1 .. MaxUses : CreateSystemTicket(t, uses)
  \/ \E revoked \in BOOLEAN : revoked # tickets[t].revoked /\ SetRevoked(t, revoked)
  \/ /\ Owned(t) /\ Bounded(tickets[t].owner)
     /\ \/ \E delta \in -MaxUses .. MaxUses : delta # 0 /\ UpdateOwnedUses(t, delta)
        \/ ArchiveOwned(t)

AttemptStep(a) ==
  \/ \E t \in Ticket : ReserveTicketCredit(a, t)
  \/ RollbackTicketReservation(a)
  \/ /\ attempts[a].state = "open"
     /\ Owned(attempts[a].ticket) => Bounded(tickets[attempts[a].ticket].owner)
     /\ CompleteAccountCreation(a)

Next ==
  \/ \E b \in Builder, n \in Amount : Grant(b, n)
  \/ \E n \in Intent : ClaimStep(n)
  \/ \E f \in Form : FormStep(f)
  \/ \E q \in Purchase : PurchaseStep(q)
  \/ \E t \in Ticket : TicketStep(t)
  \/ \E a \in Attempt : AttemptStep(a)

Spec == Init /\ [][Next]_vars
------------------------------------------------------------------------------
(* The rows have the types of the schema: no balance is negative (the CHECK *)
(* constraints of database.ts), whatever the order of the operations.       *)
LedgerTypeOK == CreditsTypeOK /\ ClaimsTypeOK /\ AdjustmentsTypeOK /\ TicketsTypeOK

(* The balances of a row are those of the journal (diagnoseCredits,         *)
(* credit_*_ledger_mismatch, and checkConsistency).                         *)
Explained(b) ==
  /\ credits[b].pending = ExpectedPending(b)
  /\ credits[b].available = ExpectedAvailable(b)
  /\ credits[b].issued = ExpectedIssued(b)
  /\ credits[b].consumed = ExpectedConsumed(b)

(* The accounts paid by b: completed attempts on tickets of b.              *)
FundedAccounts(b) ==
  {a \in Attempt : /\ attempts[a].state = "completed"
                   /\ tickets[attempts[a].ticket].owner = b}

(* What the program's own diagnosis of credits finds clean is clean: the    *)
(* balances are those of the journal, there is no journal without a row,    *)
(* and a builder's consumed credits are the accounts created with the       *)
(* builder's tickets, one reference each (diagnoseCredits, diagnoseAttempts)*)
CreditDiagnosisIsClean ==
  /\ \A b \in Builder : Explained(b)
  /\ \A b \in Builder : ~HasRow(b) => audit[b] = NoAudit
  /\ \A b \in Builder : credits[b].consumed = Cardinality(FundedAccounts(b))
  /\ \A a \in Attempt : attempts[a].consumed <=> (\E b \in Builder : a \in FundedAccounts(b))

(* Every use of a ticket is unused, taken by an open attempt, spent on an   *)
(* account or retired (ticket_use_conservation_mismatch), through changes   *)
(* of the number of uses, archiving, rollback and completion in any order;  *)
(* and an archived ticket's retired uses were refunded                      *)
(* (ticket_archive_refund_mismatch).                                        *)
TicketUsesAccounted ==
  \A t \in Ticket :
    /\ tickets[t].total = tickets[t].remaining + Cardinality(AttemptsOn(t, "open"))
                            + Cardinality(AttemptsOn(t, "completed")) + tickets[t].retired
    /\ tickets[t].archived => references[t].refund = tickets[t].retired

(* What a refused rollback would leave behind: an open attempt whose use    *)
(* can neither be given back nor, if the account is never created, be       *)
(* spent.  The rollback finds the ticket as its WHERE asks for, whatever    *)
(* the ticket's owner did to it since the reservation (archiveOwnedTicket   *)
(* counts the open attempts, rollbackTicketReservation throws).             *)
OpenAttemptsCanBeRolledBack ==
  \A a \in Attempt : attempts[a].state = "open" => CanRestore(attempts[a].ticket)

(* A builder who broadcasts the claim of an intent in time has it honoured: *)
(* while the intent lives, its amount is pending, unless the builder        *)
(* completed another claim meanwhile (PENDING_CLAIM_ACTIVE,                 *)
(* admin-mutations.ts).                                                     *)
IntentsStayCovered ==
  \A n \in Intent : Live(n) /\ ~intents[n].overlapped =>
                      intents[n].amount <= credits[intents[n].owner].pending

(* Credits become available by a claim only against an irreversible         *)
(* operation on Hive, and once per operation (completeClaim deletes the     *)
(* intent; verifyHiveClaim).                                                *)
ClaimsAreBacked ==
  \A b \in Builder :
    LET claimed == {n \in Intent : intents[n].owner = b /\ intents[n].state = "claimed"} IN
    /\ \A n \in claimed : chain[n] = "irreversible"
    /\ audit[b]["claim_credits"] = SumFunctionOnSet([n \in Intent |-> intents[n].amount], claimed)

(* The administrator's form overwrites the balances it was opened with, and *)
(* no others: a grant, a claim or a purchase in between makes it stale,     *)
(* even if it left the same balances (STALE_CREDIT_REVISION,                *)
(* admin-mutations.ts; adjustCreditBalances, core.ts).                      *)
AdjustsWhatItRead ==
  [][\A f \in receipts' \ receipts :
       LET c == commands[f] IN
       /\ credits[c.builder].revision = c.revision
       /\ credits[c.builder].pending = c.seenPending
       /\ credits[c.builder].available = c.seenAvailable]_vars

(* A form that was applied and is sent again, its answer lost, is told so   *)
(* and not that it is stale (findAdminActionReceipt before the revision is  *)
(* compared, admin-mutations.ts).                                           *)
AppliedIsNeverRefused ==
  [][\A f \in receipts : answers'[f] # answers[f] => answers'[f] = "applied"]_vars
------------------------------------------------------------------------------
(* The credits of b that its tickets hold: uses unused or taken.            *)
HeldOn(t) == tickets[t].remaining + Cardinality(AttemptsOn(t, "open"))

TicketsOf(b) == {t \in Ticket : tickets[t].owner = b}

Held(b) == SumFunctionOnSet([t \in Ticket |-> HeldOn(t)], TicketsOf(b))

(* No order of the operations makes or loses a credit: what was issued to a *)
(* builder, and what the administrator's forms added to or took from it, is *)
(* pending, available, in a ticket or in an account; the balances are those *)
(* of Credits, the tickets those of Tickets and CreationAttempts, and no    *)
(* transaction of lib/credits, archive-ticket.ts, the ticket endpoints or   *)
(* db-ticket-validator.ts writes one without the other.                     *)
CreditsAreConserved ==
  \A b \in Builder :
    credits[b].issued + audit[b]["admin_adjust_pending"] + audit[b]["admin_adjustment"] =
      credits[b].pending + credits[b].available + Held(b) + credits[b].consumed

Flow == INSTANCE CreditFlow WITH
  flow <- [b \in Builder |->
             [issued |-> credits[b].issued,
              adjustedPending |-> audit[b]["admin_adjust_pending"],
              adjustedAvailable |-> audit[b]["admin_adjustment"],
              pending |-> credits[b].pending, available |-> credits[b].available,
              held |-> Held(b), consumed |-> credits[b].consumed]]

(* Credits are never made or lost by the builder's operations: every        *)
(* transaction moves them between pending, available, held and consumed,    *)
(* all of them or none; they are made and destroyed only by a grant and by  *)
(* the administrator's form, by as many as these book as issued or as       *)
(* adjusted (every transaction of lib/credits, admin-mutations.ts,          *)
(* archive-ticket.ts, the builder's ticket endpoints and                    *)
(* db-ticket-validator.ts).                                                 *)
ImplementsCreditFlow == Flow!FlowSpec
------------------------------------------------------------------------------
(* What database-diagnostics.ts:300 takes for granted: the journal's row    *)
(* for the creation of a ticket is for its number of uses.                  *)
CreationAuditMatchesTicket ==
  \A t \in Ticket : Owned(t) => references[t].create = tickets[t].total
==============================================================================
