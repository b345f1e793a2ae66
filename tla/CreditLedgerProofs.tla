--------------------------- MODULE CreditLedgerProofs ---------------------------
(***************************************************************************)
(* Proofs about CreditLedger, for any number of builders, intents, forms,  *)
(* tickets and attempts, and without the bounds of the small instances.    *)
(* First what one transaction does to the balances, then the invariants.   *)
(***************************************************************************)
EXTENDS CreditLedger, FiniteSetTheorems, TLAPS

(* A transaction writes the row of one builder, and its journal.            *)
Writes(b) ==
  /\ CreditsTypeOK'
  /\ credits'[b].revision = credits[b].revision + 1
  /\ \A d \in Builder : d # b => credits'[d] = credits[d] /\ audit'[d] = audit[d]

LEMMA BalanceFields ==
  ASSUME CreditsTypeOK, NEW b \in Builder
  PROVE  /\ credits[b].pending \in Nat /\ credits[b].available \in Nat
         /\ credits[b].issued \in Nat /\ credits[b].consumed \in Nat
         /\ credits[b].revision \in Nat
         /\ audit[b] \in [Operation -> Int]
         /\ \A o \in Operation : audit[b][o] \in Int
BY DEF CreditsTypeOK, CreditRow

LEMMA RowsWritten ==
  ASSUME CreditsTypeOK, NEW b \in Builder, NEW amounts \in [Operation -> Int],
         NEW pending \in Nat, NEW available \in Nat, NEW issued \in Nat, NEW consumed \in Nat,
         Update(b, pending, available, issued, consumed), InsertCreditAudits(b, amounts)
  PROVE  /\ Writes(b)
         /\ \A o \in Operation : audit'[b][o] = audit[b][o] + amounts[o]
         /\ credits'[b].pending = pending
         /\ credits'[b].available = available
         /\ credits'[b].issued = issued
         /\ credits'[b].consumed = consumed
<1> DEFINE new == [pending |-> pending, available |-> available, issued |-> issued,
                   consumed |-> consumed, revision |-> credits[b].revision + 1]
           sums == [o \in Operation |-> audit[b][o] + amounts[o]]
<1>1. credits[b].revision \in Nat /\ audit[b] \in [Operation -> Int]
  BY BalanceFields
<1>2. /\ new \in CreditRow
      /\ new.revision = credits[b].revision + 1
      /\ new.pending = pending /\ new.available = available
      /\ new.issued = issued /\ new.consumed = consumed
  BY <1>1 DEF CreditRow
<1>3. /\ sums \in [Operation -> Int]
      /\ \A o \in Operation : sums[o] = audit[b][o] + amounts[o]
  BY <1>1
<1>4. credits' = [credits EXCEPT ![b] = new] /\ audit' = [audit EXCEPT ![b] = sums]
  BY DEF Update, InsertCreditAudits
<1> HIDE DEF new, sums
<1>5. credits'[b] = new /\ audit'[b] = sums
  BY <1>4 DEF CreditsTypeOK
<1>6. CreditsTypeOK'
  BY <1>2, <1>3, <1>4 DEF CreditsTypeOK
<1>7. \A d \in Builder : d # b => credits'[d] = credits[d] /\ audit'[d] = audit[d]
  BY <1>4 DEF CreditsTypeOK
<1> QED BY <1>2, <1>3, <1>5, <1>6, <1>7 DEF Writes

(* A grant to be claimed, and one that needs no claim.                      *)
LEMMA GrantPendingEffect ==
  ASSUME CreditsTypeOK, NEW b \in Builder, NEW n \in Nat, GrantPendingCredits(b, n)
  PROVE  /\ Writes(b)
         /\ Explained(b) => Explained(b)'
         /\ credits'[b].pending >= credits[b].pending
         /\ credits'[b].consumed = credits[b].consumed
<1> DEFINE amounts == [o \in Operation |-> IF o = "assign_credits" THEN n ELSE 0]
<1>1. amounts \in [Operation -> Int]
  BY BalanceFields
<1>2. /\ credits[b].pending + n \in Nat /\ credits[b].available \in Nat
      /\ credits[b].issued + n \in Nat /\ credits[b].consumed \in Nat
  BY BalanceFields DEF GrantPendingCredits
<1>3. /\ Update(b, credits[b].pending + n, credits[b].available, credits[b].issued + n, credits[b].consumed)
      /\ InsertCreditAudits(b, amounts)
  BY DEF GrantPendingCredits, InsertCreditAudit
<1>4. /\ Writes(b)
      /\ \A o \in Operation : audit'[b][o] = audit[b][o] + amounts[o]
      /\ credits'[b].pending = credits[b].pending + n
      /\ credits'[b].available = credits[b].available
      /\ credits'[b].issued = credits[b].issued + n
      /\ credits'[b].consumed = credits[b].consumed
  BY <1>1, <1>2, <1>3, RowsWritten
<1> QED BY <1>4, BalanceFields DEF Explained, ExpectedPending, ExpectedAvailable, ExpectedIssued, ExpectedConsumed, Operation

LEMMA GrantAvailableEffect ==
  ASSUME CreditsTypeOK, NEW b \in Builder, NEW n \in Nat, GrantAvailableCredits(b, n)
  PROVE  /\ Writes(b)
         /\ Explained(b) => Explained(b)'
         /\ credits'[b].pending = credits[b].pending
         /\ credits'[b].consumed = credits[b].consumed
<1> DEFINE amounts == [o \in Operation |-> IF o = "grant_available_credits" THEN n ELSE 0]
<1>1. amounts \in [Operation -> Int]
  BY BalanceFields
<1>2. /\ credits[b].pending \in Nat /\ credits[b].available + n \in Nat
      /\ credits[b].issued + n \in Nat /\ credits[b].consumed \in Nat
  BY BalanceFields DEF GrantAvailableCredits
<1>3. /\ Update(b, credits[b].pending, credits[b].available + n, credits[b].issued + n, credits[b].consumed)
      /\ InsertCreditAudits(b, amounts)
  BY DEF GrantAvailableCredits, InsertCreditAudit
<1>4. /\ Writes(b)
      /\ \A o \in Operation : audit'[b][o] = audit[b][o] + amounts[o]
      /\ credits'[b].pending = credits[b].pending
      /\ credits'[b].available = credits[b].available + n
      /\ credits'[b].issued = credits[b].issued + n
      /\ credits'[b].consumed = credits[b].consumed
  BY <1>1, <1>2, <1>3, RowsWritten
<1> QED BY <1>4, BalanceFields DEF Explained, ExpectedPending, ExpectedAvailable, ExpectedIssued, ExpectedConsumed, Operation

(* A claim.                                                                 *)
LEMMA ClaimEffect ==
  ASSUME CreditsTypeOK, NEW b \in Builder, NEW n \in Nat, ClaimCredits(b, n)
  PROVE  /\ Writes(b)
         /\ Explained(b) => Explained(b)'
         /\ credits'[b].consumed = credits[b].consumed
<1> DEFINE amounts == [o \in Operation |-> IF o = "claim_credits" THEN n ELSE 0]
<1>1. amounts \in [Operation -> Int]
  BY BalanceFields
<1>2. /\ credits[b].pending - n \in Nat /\ credits[b].available + n \in Nat
      /\ credits[b].issued \in Nat /\ credits[b].consumed \in Nat
  BY BalanceFields DEF ClaimCredits
<1>3. /\ Update(b, credits[b].pending - n, credits[b].available + n, credits[b].issued, credits[b].consumed)
      /\ InsertCreditAudits(b, amounts)
  BY DEF ClaimCredits, InsertCreditAudit
<1>4. /\ Writes(b)
      /\ \A o \in Operation : audit'[b][o] = audit[b][o] + amounts[o]
      /\ credits'[b].pending = credits[b].pending - n
      /\ credits'[b].available = credits[b].available + n
      /\ credits'[b].issued = credits[b].issued
      /\ credits'[b].consumed = credits[b].consumed
  BY <1>1, <1>2, <1>3, RowsWritten
<1> QED BY <1>4, BalanceFields DEF Explained, ExpectedPending, ExpectedAvailable, ExpectedIssued, ExpectedConsumed, Operation

(* A ticket's uses are paid, ...                                            *)
LEMMA DeductEffect ==
  ASSUME CreditsTypeOK, NEW b \in Builder, NEW n \in Nat, DeductCreditsForTicket(b, n)
  PROVE  /\ Writes(b)
         /\ Explained(b) => Explained(b)'
         /\ credits'[b].pending = credits[b].pending
         /\ credits'[b].consumed = credits[b].consumed
<1> DEFINE amounts == [o \in Operation |-> IF o = "create_ticket" THEN -n ELSE 0]
<1>1. amounts \in [Operation -> Int]
  BY BalanceFields
<1>2. /\ credits[b].pending \in Nat /\ credits[b].available - n \in Nat
      /\ credits[b].issued \in Nat /\ credits[b].consumed \in Nat
  BY BalanceFields DEF DeductCreditsForTicket
<1>3. /\ Update(b, credits[b].pending, credits[b].available - n, credits[b].issued, credits[b].consumed)
      /\ InsertCreditAudits(b, amounts)
  BY DEF DeductCreditsForTicket, InsertCreditAudit
<1>4. /\ Writes(b)
      /\ \A o \in Operation : audit'[b][o] = audit[b][o] + amounts[o]
      /\ credits'[b].pending = credits[b].pending
      /\ credits'[b].available = credits[b].available - n
      /\ credits'[b].issued = credits[b].issued
      /\ credits'[b].consumed = credits[b].consumed
  BY <1>1, <1>2, <1>3, RowsWritten
<1> QED BY <1>4, BalanceFields DEF Explained, ExpectedPending, ExpectedAvailable, ExpectedIssued, ExpectedConsumed, Operation

(* ... or given back, ...                                                   *)
LEMMA RefundEffect ==
  ASSUME CreditsTypeOK, NEW b \in Builder, NEW n \in Nat, RefundCreditsFromTicket(b, n)
  PROVE  /\ Writes(b)
         /\ Explained(b) => Explained(b)'
         /\ credits'[b].pending = credits[b].pending
         /\ credits'[b].consumed = credits[b].consumed
<1> DEFINE amounts == [o \in Operation |-> IF o = "delete_ticket_refund" THEN n ELSE 0]
<1>1. amounts \in [Operation -> Int]
  BY BalanceFields
<1>2. /\ credits[b].pending \in Nat /\ credits[b].available + n \in Nat
      /\ credits[b].issued \in Nat /\ credits[b].consumed \in Nat
  BY BalanceFields DEF RefundCreditsFromTicket
<1>3. /\ Update(b, credits[b].pending, credits[b].available + n, credits[b].issued, credits[b].consumed)
      /\ InsertCreditAudits(b, amounts)
  BY DEF RefundCreditsFromTicket, InsertCreditAudit
<1>4. /\ Writes(b)
      /\ \A o \in Operation : audit'[b][o] = audit[b][o] + amounts[o]
      /\ credits'[b].pending = credits[b].pending
      /\ credits'[b].available = credits[b].available + n
      /\ credits'[b].issued = credits[b].issued
      /\ credits'[b].consumed = credits[b].consumed
  BY <1>1, <1>2, <1>3, RowsWritten
<1> QED BY <1>4, BalanceFields DEF Explained, ExpectedPending, ExpectedAvailable, ExpectedIssued, ExpectedConsumed, Operation

(* ... or one becomes an account.                                           *)
LEMMA ConsumeEffect ==
  ASSUME CreditsTypeOK, NEW b \in Builder, NEW n \in Nat, MarkCreditsAsConsumed(b, n)
  PROVE  /\ Writes(b)
         /\ Explained(b) => Explained(b)'
         /\ credits'[b].pending = credits[b].pending
         /\ credits'[b].consumed = credits[b].consumed + n
<1> DEFINE amounts == [o \in Operation |-> IF o = "consume_credits" THEN -n ELSE 0]
<1>1. amounts \in [Operation -> Int]
  BY BalanceFields
<1>2. /\ credits[b].pending \in Nat /\ credits[b].available \in Nat
      /\ credits[b].issued \in Nat /\ credits[b].consumed + n \in Nat
  BY BalanceFields DEF MarkCreditsAsConsumed
<1>3. /\ Update(b, credits[b].pending, credits[b].available, credits[b].issued, credits[b].consumed + n)
      /\ InsertCreditAudits(b, amounts)
  BY DEF MarkCreditsAsConsumed, InsertCreditAudit
<1>4. /\ Writes(b)
      /\ \A o \in Operation : audit'[b][o] = audit[b][o] + amounts[o]
      /\ credits'[b].pending = credits[b].pending
      /\ credits'[b].available = credits[b].available
      /\ credits'[b].issued = credits[b].issued
      /\ credits'[b].consumed = credits[b].consumed + n
  BY <1>1, <1>2, <1>3, RowsWritten
<1> QED BY <1>4, BalanceFields DEF Explained, ExpectedPending, ExpectedAvailable, ExpectedIssued, ExpectedConsumed, Operation

(* The administrator's values.                                              *)
LEMMA AdjustEffect ==
  ASSUME CreditsTypeOK, NEW b \in Builder, NEW revision, NEW p \in Nat, NEW q \in Nat, AdjustCreditBalances(b, revision, p, q)
  PROVE  /\ Writes(b)
         /\ Explained(b) => Explained(b)'
         /\ credits'[b].pending = p
         /\ credits'[b].consumed = credits[b].consumed
<1> DEFINE amounts == [o \in Operation |->
                        CASE o = "admin_adjust_pending" -> p - credits[b].pending
                          [] o = "admin_adjustment" -> q - credits[b].available
                          [] OTHER -> 0]
<1>1. amounts \in [Operation -> Int]
  BY BalanceFields
<1>2. /\ p \in Nat /\ q \in Nat
      /\ credits[b].issued \in Nat /\ credits[b].consumed \in Nat
  BY BalanceFields DEF AdjustCreditBalances
<1>3. /\ Update(b, p, q, credits[b].issued, credits[b].consumed)
      /\ InsertCreditAudits(b, amounts)
  BY DEF AdjustCreditBalances, InsertCreditAudit
<1>4. /\ Writes(b)
      /\ \A o \in Operation : audit'[b][o] = audit[b][o] + amounts[o]
      /\ credits'[b].pending = p
      /\ credits'[b].available = q
      /\ credits'[b].issued = credits[b].issued
      /\ credits'[b].consumed = credits[b].consumed
  BY <1>1, <1>2, <1>3, RowsWritten
<1> QED BY <1>4, BalanceFields DEF Explained, ExpectedPending, ExpectedAvailable, ExpectedIssued, ExpectedConsumed, Operation

------------------------------------------------------------------------------
(* What a step of the ledger does to the balances: a row is left alone, or  *)
(* written once and still explained by the journal.                         *)
Kept(b) == credits'[b] = credits[b] /\ audit'[b] = audit[b]

Accounted ==
  /\ CreditsTypeOK'
  /\ \A b \in Builder :
       Kept(b) \/ /\ credits'[b].revision = credits[b].revision + 1
                  /\ Explained(b) => Explained(b)'

ConsumedKept(b) == credits'[b].consumed = credits[b].consumed
PendingKept(b) == credits'[b].pending >= credits[b].pending

LEMMA NothingWritten ==
  ASSUME CreditsTypeOK, UNCHANGED creditVars
  PROVE  Accounted /\ \A b \in Builder : Kept(b) /\ ConsumedKept(b) /\ PendingKept(b)
<1>1. credits' = credits /\ audit' = audit
  BY DEF creditVars
<1>2. \A b \in Builder : credits[b].pending \in Nat
  BY BalanceFields
<1> QED BY <1>1, <1>2 DEF Accounted, CreditsTypeOK, Kept, ConsumedKept, PendingKept

LEMMA OneRowWritten ==
  ASSUME CreditsTypeOK, NEW b \in Builder, Writes(b), Explained(b) => Explained(b)'
  PROVE  /\ Accounted
         /\ \A d \in Builder : d # b => Kept(d) /\ ConsumedKept(d) /\ PendingKept(d)
<1>1. \A d \in Builder : credits[d].pending \in Nat
  BY BalanceFields
<1> QED BY <1>1 DEF Accounted, Writes, Kept, ConsumedKept, PendingKept

LEMMA GrantBooks ==
  ASSUME LedgerTypeOK, NEW b \in Builder, NEW n \in Amount, Grant(b, n)
  PROVE  /\ Accounted
         /\ \A d \in Builder : ConsumedKept(d) /\ PendingKept(d)
<1>1. CreditsTypeOK /\ n \in Nat
  BY CreditAssumption DEF LedgerTypeOK, Amount
<1>2. CASE GrantPendingCredits(b, n)
  <2>1. /\ Writes(b) /\ (Explained(b) => Explained(b)')
        /\ credits'[b].pending >= credits[b].pending
        /\ credits'[b].consumed = credits[b].consumed
    BY <1>1, <1>2, GrantPendingEffect
  <2> QED BY <1>1, <2>1, OneRowWritten DEF ConsumedKept, PendingKept
<1>3. CASE GrantAvailableCredits(b, n)
  <2>1. /\ Writes(b) /\ (Explained(b) => Explained(b)')
        /\ credits'[b].pending = credits[b].pending
        /\ credits'[b].consumed = credits[b].consumed
    BY <1>1, <1>3, GrantAvailableEffect
  <2> QED BY <1>1, <2>1, OneRowWritten, BalanceFields DEF ConsumedKept, PendingKept
<1> QED BY <1>2, <1>3 DEF Grant

LEMMA DeductBooks ==
  ASSUME CreditsTypeOK, NEW b \in Builder, NEW n \in Nat, DeductCreditsForTicket(b, n)
  PROVE  Accounted /\ \A d \in Builder : ConsumedKept(d) /\ PendingKept(d)
<1>1. /\ Writes(b) /\ (Explained(b) => Explained(b)')
      /\ credits'[b].pending = credits[b].pending
      /\ credits'[b].consumed = credits[b].consumed
  BY DeductEffect
<1> QED BY <1>1, OneRowWritten, BalanceFields DEF ConsumedKept, PendingKept

LEMMA RefundBooks ==
  ASSUME CreditsTypeOK, NEW b \in Builder, NEW n \in Nat, RefundCreditsFromTicket(b, n)
  PROVE  Accounted /\ \A d \in Builder : ConsumedKept(d) /\ PendingKept(d)
<1>1. /\ Writes(b) /\ (Explained(b) => Explained(b)')
      /\ credits'[b].pending = credits[b].pending
      /\ credits'[b].consumed = credits[b].consumed
  BY RefundEffect
<1> QED BY <1>1, OneRowWritten, BalanceFields DEF ConsumedKept, PendingKept

LEMMA PurchaseBooks ==
  ASSUME LedgerTypeOK, NEW q \in Purchase, PurchaseStep(q)
  PROVE  Accounted /\ \A d \in Builder : ConsumedKept(d) /\ PendingKept(d)
<1>1. CreditsTypeOK
  BY DEF LedgerTypeOK
<1>2. CASE UNCHANGED creditVars
  BY <1>1, <1>2, NothingWritten
<1>3. ASSUME NEW t \in Ticket, purchases[q].builder \in Builder, CreateTicket(q, t)
      PROVE  Accounted /\ \A d \in Builder : ConsumedKept(d) /\ PendingKept(d)
  <2>1. purchases[q].uses \in Nat
    BY DEF LedgerTypeOK, TicketsTypeOK, PurchaseRow
  <2>2. DeductCreditsForTicket(purchases[q].builder, purchases[q].uses)
    BY <1>3 DEF CreateTicket
  <2> QED BY <1>1, <1>3, <2>1, <2>2, DeductBooks
<1> QED BY <1>2, <1>3 DEF PurchaseStep, ValidateOperation

LEMMA TicketBooks ==
  ASSUME LedgerTypeOK, NEW t \in Ticket, TicketStep(t)
  PROVE  Accounted /\ \A d \in Builder : ConsumedKept(d) /\ PendingKept(d)
<1>1. CreditsTypeOK /\ tickets[t] \in TicketRow
  BY DEF LedgerTypeOK, TicketsTypeOK
<1>2. CASE UNCHANGED creditVars
  BY <1>1, <1>2, NothingWritten
<1>3. ASSUME NEW delta \in -MaxUses .. MaxUses, Owned(t), UpdateOwnedUses(t, delta)
      PROVE  Accounted /\ \A d \in Builder : ConsumedKept(d) /\ PendingKept(d)
  <2>1. CASE delta > 0 /\ DeductCreditsForTicket(tickets[t].owner, delta)
    <3>1. delta \in Nat /\ tickets[t].owner \in Builder
      BY <1>3, <2>1, TicketAssumption DEF Owned
    <3> QED BY <1>1, <2>1, <3>1, DeductBooks
  <2>2. CASE delta < 0 /\ RefundCreditsFromTicket(tickets[t].owner, -delta)
    <3>1. -delta \in Nat /\ tickets[t].owner \in Builder
      BY <1>3, <2>2, TicketAssumption DEF Owned
    <3> QED BY <1>1, <2>2, <3>1, RefundBooks
  <2> QED BY <1>3, <2>1, <2>2 DEF UpdateOwnedUses
<1>4. ASSUME Owned(t), ArchiveOwned(t)
      PROVE  Accounted /\ \A d \in Builder : ConsumedKept(d) /\ PendingKept(d)
  <2>1. Retires(tickets[t]) \in Nat /\ tickets[t].owner \in Builder
    BY <1>1, <1>4 DEF Retires, TicketRow, Owned
  <2>2. \/ RefundCreditsFromTicket(tickets[t].owner, Retires(tickets[t]))
        \/ UNCHANGED creditVars
    BY <1>4 DEF ArchiveOwned
  <2> QED BY <1>1, <1>2, <2>1, <2>2, RefundBooks
<1> QED BY <1>2, <1>3, <1>4 DEF TicketStep, CreateSystemTicket, SetRevoked

LEMMA AttemptBooks ==
  ASSUME LedgerTypeOK, NEW a \in Attempt, AttemptStep(a)
  PROVE  /\ Accounted
         /\ \A d \in Builder : PendingKept(d)
         /\ \/ \A d \in Builder : ConsumedKept(d)
            \/ /\ CompleteAccountCreation(a)
               /\ Owned(attempts[a].ticket)
<1>1. CreditsTypeOK
  BY DEF LedgerTypeOK
<1>2. CASE UNCHANGED creditVars
  BY <1>1, <1>2, NothingWritten
<1>3. ASSUME CompleteAccountCreation(a), Owned(attempts[a].ticket)
      PROVE  Accounted /\ \A d \in Builder : PendingKept(d)
  <2>1. PICK b \in Builder : b = tickets[attempts[a].ticket].owner
    BY <1>3 DEF Owned
  <2>2. MarkCreditsAsConsumed(b, 1)
    BY <1>3, <2>1 DEF CompleteAccountCreation
  <2>3. /\ Writes(b) /\ (Explained(b) => Explained(b)')
        /\ credits'[b].pending = credits[b].pending
    BY <1>1, <2>1, <2>2, ConsumeEffect
  <2> QED BY <1>1, <2>1, <2>3, OneRowWritten, BalanceFields DEF PendingKept
<1>4. CompleteAccountCreation(a) /\ ~Owned(attempts[a].ticket) => UNCHANGED creditVars
  BY DEF CompleteAccountCreation
<1> QED BY <1>2, <1>3, <1>4 DEF AttemptStep, ReserveTicketCredit, RollbackTicketReservation

LEMMA ClaimBooks ==
  ASSUME LedgerTypeOK, NEW n \in Intent, ClaimStep(n)
  PROVE  /\ Accounted
         /\ \A d \in Builder : ConsumedKept(d)
         /\ \A d \in Builder : d # intents[n].owner => PendingKept(d)
         /\ UNCHANGED creditVars \/ CompleteClaim(n)
<1>1. CreditsTypeOK
  BY DEF LedgerTypeOK
<1>2. CASE UNCHANGED creditVars
  BY <1>1, <1>2, NothingWritten
<1>3. ASSUME CompleteClaim(n)
      PROVE  /\ Accounted
             /\ \A d \in Builder : ConsumedKept(d)
             /\ \A d \in Builder : d # intents[n].owner => PendingKept(d)
  <2>1. PICK b \in Builder, k \in Nat : b = intents[n].owner /\ k = intents[n].amount
    BY <1>3 DEF LedgerTypeOK, ClaimsTypeOK, IntentRow, CompleteClaim, Live
  <2>2. ClaimCredits(b, k)
    BY <1>3, <2>1 DEF CompleteClaim
  <2>3. /\ Writes(b) /\ (Explained(b) => Explained(b)')
        /\ credits'[b].consumed = credits[b].consumed
    BY <1>1, <2>1, <2>2, ClaimEffect
  <2> QED BY <1>1, <2>1, <2>3, OneRowWritten DEF ConsumedKept
<1> QED BY <1>2, <1>3 DEF ClaimStep, CreateClaimIntent, IntentExpires, BroadcastClaim,
     ClaimFinalises, ClaimForkedOut, creditVars

LEMMA FormBooks ==
  ASSUME LedgerTypeOK, NEW f \in Form, FormStep(f)
  PROVE  /\ Accounted
         /\ \A d \in Builder : ConsumedKept(d)
         /\ \/ UNCHANGED creditVars
            \/ /\ AdjustBuilderCredits(f)
               /\ commands[f] \in Command
               /\ NextPending(commands[f]) \in Nat
               /\ credits'[commands[f].builder].pending = NextPending(commands[f])
               /\ \A d \in Builder : d # commands[f].builder => PendingKept(d)
<1>1. CreditsTypeOK
  BY DEF LedgerTypeOK
<1>2. CASE UNCHANGED creditVars
  BY <1>1, <1>2, NothingWritten
<1>3. ASSUME AdjustBuilderCredits(f)
      PROVE  /\ Accounted
             /\ \A d \in Builder : ConsumedKept(d)
             /\ commands[f] \in Command
             /\ NextPending(commands[f]) \in Nat
             /\ credits'[commands[f].builder].pending = NextPending(commands[f])
             /\ \A d \in Builder : d # commands[f].builder => PendingKept(d)
  <2>1. PICK c \in Command : c = commands[f]
    BY <1>3 DEF LedgerTypeOK, AdjustmentsTypeOK, AdjustBuilderCredits, Sent
  <2>2. c.builder \in Builder /\ c.pending \in Nat /\ c.available \in Nat
    BY <2>1 DEF Command
  <2>3. credits[c.builder].pending \in Nat /\ credits[c.builder].available \in Nat
    BY <1>1, <2>2, BalanceFields
  <2>4. PICK p \in Nat, q \in Nat : p = NextPending(c) /\ q = NextAvailable(c)
    BY <2>2, <2>3 DEF NextPending, NextAvailable
  <2>5. AdjustCreditBalances(c.builder, c.revision, p, q)
    BY <1>3, <2>1, <2>4 DEF AdjustBuilderCredits
  <2>6. /\ Writes(c.builder) /\ (Explained(c.builder) => Explained(c.builder)')
        /\ credits'[c.builder].pending = p
        /\ credits'[c.builder].consumed = credits[c.builder].consumed
    BY <1>1, <2>2, <2>5, AdjustEffect
  <2>7. /\ Accounted
        /\ \A d \in Builder : d # c.builder => Kept(d) /\ ConsumedKept(d) /\ PendingKept(d)
    BY <1>1, <2>2, <2>6, OneRowWritten
  <2> QED BY <2>1, <2>4, <2>6, <2>7 DEF ConsumedKept
<1> QED BY <1>2, <1>3 DEF FormStep, SubmitEditForm, ReplayAdjustment, RefuseAdjustment, creditVars

LEMMA StepBooks ==
  ASSUME LedgerTypeOK, Next
  PROVE  Accounted
BY GrantBooks, ClaimBooks, FormBooks, PurchaseBooks, TicketBooks, AttemptBooks DEF Next

------------------------------------------------------------------------------
(* Types.                                                                   *)
LEMMA ClaimsTyped ==
  ASSUME LedgerTypeOK, Next
  PROVE  ClaimsTypeOK'
<1>1. CreditsTypeOK /\ ClaimsTypeOK
  BY DEF LedgerTypeOK
<1>2. CASE UNCHANGED claimVars
  BY <1>1, <1>2 DEF ClaimsTypeOK, claimVars
<1>3. ASSUME NEW n \in Intent, ClaimStep(n)
      PROVE  ClaimsTypeOK'
  <2>1. ASSUME NEW b \in Builder, CreateClaimIntent(b, n)
        PROVE  ClaimsTypeOK'
    <3>1. credits[b].pending \in Nat
      BY <1>1, BalanceFields
    <3>2. chain' = chain
      BY <2>1 DEF CreateClaimIntent
    <3>3. /\ intents' \in [Intent -> IntentRow]
          /\ \A m \in Intent : intents'[m].state # "absent" => intents'[m].owner \in Builder
      BY <1>1, <2>1, <3>1 DEF CreateClaimIntent, ClaimsTypeOK, IntentRow, IntentState
    <3> QED BY <1>1, <3>2, <3>3 DEF ClaimsTypeOK
  <2>2. CASE IntentExpires(n)
    BY <1>1, <2>2 DEF IntentExpires, ClaimsTypeOK, IntentRow, IntentState, Live
  <2>3. CASE BroadcastClaim(n) \/ ClaimFinalises(n) \/ ClaimForkedOut(n)
    BY <1>1, <2>3 DEF BroadcastClaim, ClaimFinalises, ClaimForkedOut, ClaimsTypeOK, ChainState
  <2>4. CASE CompleteClaim(n)
    <3>1. chain' = chain /\ intents' = Complete(n) /\ intents[n].state = "live"
      BY <2>4 DEF CompleteClaim, Live
    <3>2. /\ Complete(n) \in [Intent -> IntentRow]
          /\ \A m \in Intent : Complete(n)[m].state # "absent" => Complete(n)[m].owner \in Builder
      BY <1>1, <3>1 DEF Complete, LiveIntents, Live, ClaimsTypeOK, IntentRow, IntentState
    <3> QED BY <1>1, <3>1, <3>2 DEF ClaimsTypeOK
  <2> QED BY <1>3, <2>1, <2>2, <2>3, <2>4 DEF ClaimStep
<1>4. CASE \E b \in Builder, n \in Amount : Grant(b, n)
  BY <1>2, <1>4 DEF Grant
<1>5. CASE \E f \in Form : FormStep(f)
  BY <1>2, <1>5 DEF FormStep, SubmitEditForm, ReplayAdjustment, RefuseAdjustment,
     AdjustBuilderCredits, claimVars
<1>6. CASE \E q \in Purchase : PurchaseStep(q)
  BY <1>2, <1>6 DEF PurchaseStep, ValidateOperation, CreateTicket
<1>7. CASE \E t \in Ticket : TicketStep(t)
  BY <1>2, <1>7 DEF TicketStep, CreateSystemTicket, SetRevoked, UpdateOwnedUses, ArchiveOwned
<1>8. CASE \E a \in Attempt : AttemptStep(a)
  BY <1>2, <1>8 DEF AttemptStep, ReserveTicketCredit, RollbackTicketReservation,
     CompleteAccountCreation
<1> QED BY <1>3, <1>4, <1>5, <1>6, <1>7, <1>8 DEF Next

LEMMA EntryIsNat ==
  ASSUME NEW n \in Nat
  PROVE  Entry(n) \subseteq Nat
BY CreditAssumption DEF Entry

LEMMA FormsTyped ==
  ASSUME LedgerTypeOK, Next
  PROVE  AdjustmentsTypeOK'
<1>1. CreditsTypeOK /\ AdjustmentsTypeOK
  BY DEF LedgerTypeOK
<1>2. CASE UNCHANGED adjustVars
  BY <1>1, <1>2 DEF AdjustmentsTypeOK, adjustVars
<1>3. ASSUME NEW f \in Form, FormStep(f)
      PROVE  AdjustmentsTypeOK'
  <2>1. ASSUME NEW b \in Builder, NEW p \in Nat, NEW q \in Nat,
               SubmitEditForm(f, b, p, q)
        PROVE  AdjustmentsTypeOK'
    <3> DEFINE c == [builder |-> b, revision |-> credits[b].revision,
                     seenPending |-> credits[b].pending, seenAvailable |-> credits[b].available,
                     pending |-> p, available |-> q]
    <3>1. c \in Command
      BY <1>1, BalanceFields DEF Command
    <3>2. commands' = [commands EXCEPT ![f] = c] /\ receipts' = receipts /\ answers' = answers
      BY <2>1 DEF SubmitEditForm
    <3> HIDE DEF c
    <3> QED BY <1>1, <3>1, <3>2 DEF AdjustmentsTypeOK
  <2>2. CASE ReplayAdjustment(f) \/ RefuseAdjustment(f) \/ AdjustBuilderCredits(f)
    <3>1. /\ commands' = commands
          /\ receipts' \subseteq receipts \cup {f}
          /\ \E answer \in Answer : answers' = [answers EXCEPT ![f] = answer]
      BY <2>2 DEF ReplayAdjustment, RefuseAdjustment, AdjustBuilderCredits, Answered, Answer
    <3> QED BY <1>1, <3>1 DEF AdjustmentsTypeOK
  <2> QED BY <1>1, <1>3, <2>1, <2>2, EntryIsNat, BalanceFields DEF FormStep
<1>4. CASE \E b \in Builder, n \in Amount : Grant(b, n)
  BY <1>2, <1>4 DEF Grant
<1>5. CASE \E n \in Intent : ClaimStep(n)
  BY <1>2, <1>5 DEF ClaimStep
<1>6. CASE \E q \in Purchase : PurchaseStep(q)
  BY <1>2, <1>6 DEF PurchaseStep, ValidateOperation, CreateTicket
<1>7. CASE \E t \in Ticket : TicketStep(t)
  BY <1>2, <1>7 DEF TicketStep, CreateSystemTicket, SetRevoked, UpdateOwnedUses, ArchiveOwned
<1>8. CASE \E a \in Attempt : AttemptStep(a)
  BY <1>2, <1>8 DEF AttemptStep, ReserveTicketCredit, RollbackTicketReservation,
     CompleteAccountCreation
<1> QED BY <1>3, <1>4, <1>5, <1>6, <1>7, <1>8 DEF Next

(* The row of one ticket, or of one attempt, is written.                    *)
LEMMA TicketsTyped ==
  ASSUME LedgerTypeOK, Next
  PROVE  TicketsTypeOK'
<1>1. TicketsTypeOK
  BY DEF LedgerTypeOK
<1>2. CASE UNCHANGED ticketVars
  BY <1>1, <1>2 DEF TicketsTypeOK, ticketVars
<1>3. ASSUME NEW t \in Ticket, NEW row \in TicketRow,
             tickets' = [tickets EXCEPT ![t] = row]
      PROVE  tickets' \in [Ticket -> TicketRow]
  BY <1>1, <1>3 DEF TicketsTypeOK
<1>4. ASSUME NEW q \in Purchase, PurchaseStep(q)
      PROVE  TicketsTypeOK'
  <2>1. ASSUME NEW b \in Builder, NEW uses \in 1 .. MaxUses, ValidateOperation(q, b, uses)
        PROVE  TicketsTypeOK'
    <3>1. [builder |-> b, uses |-> uses] \in PurchaseRow
      BY TicketAssumption DEF PurchaseRow
    <3>2. /\ purchases' = [purchases EXCEPT ![q] = [builder |-> b, uses |-> uses]]
          /\ UNCHANGED << tickets, attempts, references >>
      BY <2>1 DEF ValidateOperation
    <3> QED BY <1>1, <3>1, <3>2 DEF TicketsTypeOK
  <2>2. ASSUME NEW t \in Ticket, purchases[q].builder \in Builder, CreateTicket(q, t)
        PROVE  TicketsTypeOK'
    <3>1. PICK b \in Builder, uses \in Nat : b = purchases[q].builder /\ uses = purchases[q].uses
      BY <1>1, <2>2 DEF TicketsTypeOK, PurchaseRow
    <3>2. /\ Insert(t, b, uses)
          /\ references' = [references EXCEPT ![t] = [create |-> uses, uses |-> 0, refund |-> 0]]
          /\ purchases' = [purchases EXCEPT ![q] = [builder |-> b, uses |-> 0]]
          /\ attempts' = attempts
      BY <2>2, <3>1 DEF CreateTicket
    <3>3. tickets' \in [Ticket -> TicketRow]
      BY <1>3, <3>2 DEF Insert, TicketRow
    <3>4. /\ [create |-> uses, uses |-> 0, refund |-> 0] \in ReferenceRow
          /\ [builder |-> b, uses |-> 0] \in PurchaseRow
      BY DEF ReferenceRow, PurchaseRow
    <3> QED BY <1>1, <3>2, <3>3, <3>4 DEF TicketsTypeOK
  <2> QED BY <1>4, <2>1, <2>2 DEF PurchaseStep
<1>5. ASSUME NEW t \in Ticket, TicketStep(t)
      PROVE  TicketsTypeOK'
  <2>1. /\ tickets[t].owner \in Builder \cup {NoBuilder, System}
        /\ tickets[t].total \in Nat /\ tickets[t].remaining \in Nat /\ tickets[t].retired \in Nat
        /\ tickets[t].revoked \in BOOLEAN /\ tickets[t].archived \in BOOLEAN
        /\ references[t].create \in Nat /\ references[t].uses \in Int
        /\ references[t].refund \in Nat
    BY <1>1 DEF TicketsTypeOK, TicketRow, ReferenceRow
  <2>2. ASSUME NEW uses \in 1 .. MaxUses, CreateSystemTicket(t, uses)
        PROVE  TicketsTypeOK'
    <3>0. uses \in Nat
      BY TicketAssumption
    <3>1. tickets' \in [Ticket -> TicketRow]
      BY <1>3, <2>2, <3>0 DEF CreateSystemTicket, Insert, TicketRow
    <3> QED BY <1>1, <2>2, <3>1 DEF CreateSystemTicket, TicketsTypeOK
  <2>3. ASSUME NEW revoked \in BOOLEAN, SetRevoked(t, revoked)
        PROVE  TicketsTypeOK'
    <3>1. tickets' \in [Ticket -> TicketRow]
      BY <1>3, <2>1, <2>3 DEF SetRevoked, TicketRow
    <3> QED BY <1>1, <2>3, <3>1 DEF SetRevoked, TicketsTypeOK
  <2>4. ASSUME NEW delta \in -MaxUses .. MaxUses, UpdateOwnedUses(t, delta)
        PROVE  TicketsTypeOK'
    <3>1. /\ delta \in Int
          /\ tickets[t].total + delta \in Nat /\ tickets[t].remaining + delta \in Nat
      BY <2>1, <2>4, TicketAssumption DEF UpdateOwnedUses, AcceptsDelta
    <3>2. [owner |-> tickets[t].owner, total |-> tickets[t].total + delta,
           remaining |-> tickets[t].remaining + delta, retired |-> tickets[t].retired,
           revoked |-> tickets[t].revoked, archived |-> tickets[t].archived] \in TicketRow
      BY <2>1, <3>1 DEF TicketRow
    <3>3. tickets' \in [Ticket -> TicketRow]
      BY <1>3, <2>4, <3>2 DEF UpdateOwnedUses
    <3>4. [create |-> references[t].create, uses |-> references[t].uses + delta,
           refund |-> references[t].refund] \in ReferenceRow
      BY <2>1, <3>1 DEF ReferenceRow
    <3>5. references' \in [Ticket -> ReferenceRow]
      BY <1>1, <2>4, <3>4 DEF UpdateOwnedUses, TicketsTypeOK
    <3> QED BY <1>1, <2>4, <3>3, <3>5 DEF UpdateOwnedUses, TicketsTypeOK
  <2>5. CASE ArchiveOwned(t)
    <3>1. Retires(tickets[t]) \in Nat
      BY <2>1 DEF Retires
    <3>2. [owner |-> tickets[t].owner, total |-> tickets[t].total, remaining |-> 0,
           retired |-> Retires(tickets[t]), revoked |-> tickets[t].revoked,
           archived |-> TRUE] \in TicketRow
      BY <2>1, <3>1 DEF TicketRow
    <3>3. tickets' \in [Ticket -> TicketRow]
      BY <1>3, <2>5, <3>2 DEF ArchiveOwned
    <3>4. [create |-> references[t].create, uses |-> references[t].uses,
           refund |-> Retires(tickets[t])] \in ReferenceRow
      BY <2>1, <3>1 DEF ReferenceRow
    <3>5. references' \in [Ticket -> ReferenceRow]
      BY <1>1, <2>5, <3>4 DEF ArchiveOwned, TicketsTypeOK
    <3> QED BY <1>1, <2>5, <3>3, <3>5 DEF ArchiveOwned, TicketsTypeOK
  <2> QED BY <1>5, <2>2, <2>3, <2>4, <2>5 DEF TicketStep
<1>6. ASSUME NEW a \in Attempt, AttemptStep(a)
      PROVE  TicketsTypeOK'
  <2>1. ASSUME NEW t \in Ticket, NEW s \in AttemptState, NEW consumed \in BOOLEAN,
               attempts' = [attempts EXCEPT ![a] =
                              [ticket |-> t, state |-> s, consumed |-> consumed]]
        PROVE  /\ attempts' \in [Attempt -> AttemptRow]
               /\ \A c \in Attempt : attempts'[c].state # "none" => attempts'[c].ticket \in Ticket
    <3>1. [ticket |-> t, state |-> s, consumed |-> consumed] \in AttemptRow
      BY DEF AttemptRow
    <3> QED BY <1>1, <2>1, <3>1 DEF TicketsTypeOK
  <2>2. ASSUME NEW t \in Ticket, ReserveTicketCredit(a, t)
        PROVE  TicketsTypeOK'
    <3>1. [owner |-> tickets[t].owner, total |-> tickets[t].total,
           remaining |-> tickets[t].remaining - 1, retired |-> tickets[t].retired,
           revoked |-> tickets[t].revoked, archived |-> tickets[t].archived] \in TicketRow
      BY <1>1, <2>2 DEF TicketsTypeOK, TicketRow, ReserveTicketCredit
    <3>2. tickets' \in [Ticket -> TicketRow]
      BY <1>3, <2>2, <3>1 DEF ReserveTicketCredit
    <3>3. /\ attempts' \in [Attempt -> AttemptRow]
          /\ \A c \in Attempt : attempts'[c].state # "none" => attempts'[c].ticket \in Ticket
      BY <2>1, <2>2 DEF ReserveTicketCredit, AttemptState
    <3> QED BY <1>1, <2>2, <3>2, <3>3 DEF ReserveTicketCredit, TicketsTypeOK
  <2>3. CASE RollbackTicketReservation(a)
    <3>1. PICK t \in Ticket : t = attempts[a].ticket
      BY <1>1, <2>3 DEF RollbackTicketReservation, TicketsTypeOK
    <3>2. [owner |-> tickets[t].owner, total |-> tickets[t].total,
           remaining |-> tickets[t].remaining + 1, retired |-> tickets[t].retired,
           revoked |-> tickets[t].revoked, archived |-> tickets[t].archived] \in TicketRow
      BY <1>1 DEF TicketsTypeOK, TicketRow
    <3>3. tickets' \in [Ticket -> TicketRow]
      BY <1>3, <2>3, <3>1, <3>2 DEF RollbackTicketReservation
    <3>4. /\ attempts' \in [Attempt -> AttemptRow]
          /\ \A c \in Attempt : attempts'[c].state # "none" => attempts'[c].ticket \in Ticket
      BY <2>1, <2>3, <3>1 DEF RollbackTicketReservation, AttemptState
    <3> QED BY <1>1, <2>3, <3>3, <3>4 DEF RollbackTicketReservation, TicketsTypeOK
  <2>4. CASE CompleteAccountCreation(a)
    <3>1. PICK t \in Ticket : t = attempts[a].ticket
      BY <1>1, <2>4 DEF CompleteAccountCreation, TicketsTypeOK
    <3>2. Owned(t) \in BOOLEAN
      BY DEF Owned
    <3>3. attempts' = [attempts EXCEPT ![a] =
                         [ticket |-> t, state |-> "completed", consumed |-> Owned(t)]]
      BY <2>4, <3>1 DEF CompleteAccountCreation
    <3>4. /\ attempts' \in [Attempt -> AttemptRow]
          /\ \A c \in Attempt : attempts'[c].state # "none" => attempts'[c].ticket \in Ticket
      BY <2>1, <3>2, <3>3, "completed" \in AttemptState DEF AttemptState
    <3> QED BY <1>1, <2>4, <3>4 DEF CompleteAccountCreation, TicketsTypeOK
  <2> QED BY <1>6, <2>2, <2>3, <2>4 DEF AttemptStep
<1>7. CASE \E b \in Builder, n \in Amount : Grant(b, n)
  BY <1>2, <1>7 DEF Grant
<1>8. CASE \E n \in Intent : ClaimStep(n)
  BY <1>2, <1>8 DEF ClaimStep
<1>9. CASE \E f \in Form : FormStep(f)
  BY <1>2, <1>9 DEF FormStep
<1> QED BY <1>4, <1>5, <1>6, <1>7, <1>8, <1>9 DEF Next

LEMMA InitTyped == Init => LedgerTypeOK
<1> SUFFICES ASSUME Init PROVE LedgerTypeOK
  OBVIOUS
<1>1. CreditsTypeOK
  <2>1. NoRow \in CreditRow /\ NoAudit \in [Operation -> Int]
    BY DEF NoRow, CreditRow, NoAudit
  <2> QED BY <2>1 DEF Init, CreditsInit, CreditsTypeOK
<1>2. ClaimsTypeOK
  BY DEF Init, ClaimsInit, NoIntent, ClaimsTypeOK, IntentRow, IntentState, ChainState
<1>3. AdjustmentsTypeOK
  BY DEF Init, AdjustmentsInit, AdjustmentsTypeOK, Answer
<1>4. TicketsTypeOK
  BY DEF Init, TicketsInit, TicketsTypeOK, TicketRow, AttemptRow, AttemptState, PurchaseRow,
     ReferenceRow
<1> QED BY <1>1, <1>2, <1>3, <1>4 DEF LedgerTypeOK

LEMMA NextTyped ==
  ASSUME LedgerTypeOK, [Next]_vars
  PROVE  LedgerTypeOK'
<1>1. CASE Next
  BY <1>1, StepBooks, ClaimsTyped, FormsTyped, TicketsTyped DEF LedgerTypeOK, Accounted
<1>2. CASE UNCHANGED vars
  BY <1>2 DEF vars, creditVars, claimVars, adjustVars, ticketVars, LedgerTypeOK, CreditsTypeOK,
     ClaimsTypeOK, AdjustmentsTypeOK, TicketsTypeOK
<1> QED BY <1>1, <1>2

(* No balance, number of uses or journal sum leaves its type: no credits    *)
(* are spent that are not there, in any order of the operations.            *)
THEOREM LedgerTypes == Spec => []LedgerTypeOK
BY InitTyped, NextTyped, PTL DEF Spec

------------------------------------------------------------------------------
(* Claim intents stay covered.                                              *)
LEMMA CoveredByStep ==
  ASSUME LedgerTypeOK, IntentsStayCovered, Next
  PROVE  IntentsStayCovered'
<1>0. /\ CreditsTypeOK /\ ClaimsTypeOK /\ CreditsTypeOK'
      /\ \A d \in Builder : credits[d].pending \in Nat /\ credits'[d].pending \in Nat
  <2>1. CreditsTypeOK /\ ClaimsTypeOK /\ CreditsTypeOK'
    BY StepBooks DEF LedgerTypeOK, Accounted
  <2> QED BY <2>1, BalanceFields DEF CreditsTypeOK, CreditRow
<1>1. ASSUME NEW m \in Intent, intents[m].state = "live"
      PROVE  intents[m].owner \in Builder /\ intents[m].amount \in Nat
  BY <1>0, <1>1 DEF ClaimsTypeOK, IntentRow
<1>2. CASE intents' = intents /\ \A d \in Builder : PendingKept(d)
  BY <1>0, <1>1, <1>2 DEF IntentsStayCovered, Live, PendingKept
<1>3. CASE \E b \in Builder, n \in Amount : Grant(b, n)
  BY <1>2, <1>3, GrantBooks DEF Grant, claimVars
<1>4. CASE \E q \in Purchase : PurchaseStep(q)
  BY <1>2, <1>4, PurchaseBooks DEF PurchaseStep, ValidateOperation, CreateTicket, claimVars
<1>5. CASE \E t \in Ticket : TicketStep(t)
  BY <1>2, <1>5, TicketBooks DEF TicketStep, CreateSystemTicket, SetRevoked, UpdateOwnedUses,
     ArchiveOwned, claimVars
<1>6. CASE \E a \in Attempt : AttemptStep(a)
  BY <1>2, <1>6, AttemptBooks DEF AttemptStep, ReserveTicketCredit, RollbackTicketReservation,
     CompleteAccountCreation, claimVars
<1>7. ASSUME NEW f \in Form, FormStep(f)
      PROVE  IntentsStayCovered'
  <2>1. intents' = intents
    BY <1>7 DEF FormStep, SubmitEditForm, ReplayAdjustment, RefuseAdjustment, AdjustBuilderCredits
  <2>2. CASE UNCHANGED creditVars
    BY <1>0, <1>2, <2>1, <2>2, NothingWritten
  <2>3. CASE AdjustBuilderCredits(f)
    <3>1. PICK b \in Builder : b = commands[f].builder
      BY <2>3 DEF LedgerTypeOK, AdjustmentsTypeOK, AdjustBuilderCredits, Sent, Command
    <3>2. /\ \A d \in Builder : d # b => PendingKept(d)
          /\ credits'[b].pending = NextPending(commands[f]) \/ PendingKept(b)
      BY <1>0, <1>7, <3>1, FormBooks, NothingWritten
    <3>3. PendingKept(b) \/ LiveIntents(b) = {}
      BY <1>0, <2>3, <3>1, <3>2 DEF AdjustBuilderCredits, ClaimActive, PendingKept
    <3> QED BY <1>0, <1>1, <2>1, <3>2, <3>3
         DEF IntentsStayCovered, LiveIntents, Live, PendingKept
  <2> QED BY <1>7, <2>2, <2>3, FormBooks
<1>8. ASSUME NEW n \in Intent, ClaimStep(n)
      PROVE  IntentsStayCovered'
  <2>1. ASSUME NEW b \in Builder, CreateClaimIntent(b, n)
        PROVE  IntentsStayCovered'
    <3>1. credits' = credits
      BY <2>1 DEF CreateClaimIntent
    <3>2. /\ intents'[n].owner = b /\ intents'[n].amount = credits[b].pending
          /\ \A m \in Intent : m # n /\ intents'[m].state = "live" => intents'[m] = intents[m]
      BY <1>0, <2>1 DEF CreateClaimIntent, ClaimsTypeOK
    <3> QED BY <1>0, <3>1, <3>2 DEF IntentsStayCovered, Live
  <2>2. CASE IntentExpires(n)
    BY <1>0, <2>2 DEF IntentExpires, IntentsStayCovered, Live, ClaimsTypeOK
  <2>3. CASE BroadcastClaim(n) \/ ClaimFinalises(n) \/ ClaimForkedOut(n)
    BY <2>3 DEF BroadcastClaim, ClaimFinalises, ClaimForkedOut, IntentsStayCovered, Live
  <2>4. CASE CompleteClaim(n)
    <3>1. \A m \in Intent :
            intents'[m].state = "live" /\ ~intents'[m].overlapped =>
              intents'[m] = intents[m] /\ intents[m].owner # intents[n].owner
      BY <1>0, <2>4 DEF CompleteClaim, Complete, LiveIntents, Live, ClaimsTypeOK
    <3>2. \A d \in Builder : d # intents[n].owner => PendingKept(d)
      BY <1>8, ClaimBooks
    <3> QED BY <1>0, <1>1, <3>1, <3>2 DEF IntentsStayCovered, Live, PendingKept
  <2> QED BY <1>8, <2>1, <2>2, <2>3, <2>4 DEF ClaimStep
<1> QED BY <1>3, <1>4, <1>5, <1>6, <1>7, <1>8 DEF Next

(* The amount of a live claim intent is pending unless the builder claimed  *)
(* otherwise: neither the administrator's form nor any other operation      *)
(* takes it away.                                                           *)
THEOREM IntentsCovered == Spec => []IntentsStayCovered
<1>1. Init => IntentsStayCovered
  BY DEF Init, ClaimsInit, NoIntent, IntentsStayCovered, Live
<1>2. LedgerTypeOK /\ IntentsStayCovered /\ [Next]_vars => IntentsStayCovered'
  <2> SUFFICES ASSUME LedgerTypeOK, IntentsStayCovered, [Next]_vars PROVE IntentsStayCovered'
    OBVIOUS
  <2>1. CASE UNCHANGED vars
    BY <2>1 DEF vars, creditVars, claimVars, IntentsStayCovered, Live
  <2> QED BY <2>1, CoveredByStep
<1> QED BY <1>1, <1>2, LedgerTypes, PTL DEF Spec

------------------------------------------------------------------------------
(* The balance form.  A revision is never taken twice: a row with the       *)
(* revision a form has seen has the balances it has seen.                   *)
RevisionsTell ==
  \A f \in Form : Sent(f) =>
    LET c == commands[f] IN
    /\ c.revision <= credits[c.builder].revision
    /\ c.revision = credits[c.builder].revision =>
         /\ c.seenPending = credits[c.builder].pending
         /\ c.seenAvailable = credits[c.builder].available

LEMMA SentCommand ==
  ASSUME LedgerTypeOK, NEW f \in Form, Sent(f)
  PROVE  /\ commands[f].builder \in Builder
         /\ commands[f].revision \in Nat
         /\ credits[commands[f].builder].revision \in Nat
<1>1. commands[f] \in Command
  BY DEF LedgerTypeOK, AdjustmentsTypeOK, Sent
<1> QED BY <1>1, BalanceFields DEF Command, LedgerTypeOK

LEMMA RevisionsTellStep ==
  ASSUME LedgerTypeOK, RevisionsTell, Next
  PROVE  RevisionsTell'
<1>1. Accounted
  BY StepBooks
<1>2. \A b \in Builder : credits[b].revision \in Nat
  BY BalanceFields DEF LedgerTypeOK
<1>3. ASSUME NEW f \in Form, Sent(f), commands'[f] = commands[f]
      PROVE  /\ commands[f].revision <= credits'[commands[f].builder].revision
             /\ commands[f].revision = credits'[commands[f].builder].revision =>
                  /\ commands[f].seenPending = credits'[commands[f].builder].pending
                  /\ commands[f].seenAvailable = credits'[commands[f].builder].available
  BY <1>1, <1>2, <1>3, SentCommand DEF RevisionsTell, Accounted, Kept
<1>4. CASE UNCHANGED commands
  BY <1>3, <1>4 DEF RevisionsTell, Sent
<1>5. ASSUME NEW g \in Form, NEW b \in Builder, NEW p, NEW q, SubmitEditForm(g, b, p, q)
      PROVE  RevisionsTell'
  <2>1. /\ credits' = credits
        /\ \A f \in Form : f # g => commands'[f] = commands[f]
        /\ commands'[g].builder = b
        /\ commands'[g].revision = credits[b].revision
        /\ commands'[g].seenPending = credits[b].pending
        /\ commands'[g].seenAvailable = credits[b].available
    BY <1>5 DEF SubmitEditForm, LedgerTypeOK, AdjustmentsTypeOK
  <2> QED BY <1>2, <1>3, <2>1 DEF RevisionsTell, Sent
<1>6. CASE \E f \in Form : FormStep(f)
  BY <1>4, <1>5, <1>6 DEF FormStep, ReplayAdjustment, RefuseAdjustment, AdjustBuilderCredits
<1>7. CASE \E b \in Builder, n \in Amount : Grant(b, n)
  BY <1>4, <1>7 DEF Grant, adjustVars
<1>8. CASE \E n \in Intent : ClaimStep(n)
  BY <1>4, <1>8 DEF ClaimStep, adjustVars
<1>9. CASE \E q \in Purchase : PurchaseStep(q)
  BY <1>4, <1>9 DEF PurchaseStep, ValidateOperation, CreateTicket, adjustVars
<1>10. CASE \E t \in Ticket : TicketStep(t)
  BY <1>4, <1>10 DEF TicketStep, CreateSystemTicket, SetRevoked, UpdateOwnedUses, ArchiveOwned,
     adjustVars
<1>11. CASE \E a \in Attempt : AttemptStep(a)
  BY <1>4, <1>11 DEF AttemptStep, ReserveTicketCredit, RollbackTicketReservation,
     CompleteAccountCreation, adjustVars
<1> QED BY <1>6, <1>7, <1>8, <1>9, <1>10, <1>11 DEF Next

THEOREM RevisionsAreTold == Spec => []RevisionsTell
<1>1. Init => RevisionsTell
  BY DEF Init, AdjustmentsInit, RevisionsTell, Sent
<1>2. LedgerTypeOK /\ RevisionsTell /\ [Next]_vars => RevisionsTell'
  <2> SUFFICES ASSUME LedgerTypeOK, RevisionsTell, [Next]_vars PROVE RevisionsTell'
    OBVIOUS
  <2>1. CASE UNCHANGED vars
    BY <2>1 DEF vars, creditVars, adjustVars, RevisionsTell, Sent
  <2> QED BY <2>1, RevisionsTellStep
<1> QED BY <1>1, <1>2, LedgerTypes, PTL DEF Spec

(* A step adds a receipt, or changes an answer, for one form only.          *)
LEMMA ReceiptSteps ==
  ASSUME LedgerTypeOK, Next
  PROVE  /\ \A f \in receipts' \ receipts : Sent(f) /\ f \in Form /\ ~Stale(commands[f])
         /\ \A f \in receipts : answers'[f] # answers[f] => answers'[f] = "applied"
<1>1. CASE UNCHANGED << receipts, answers >>
  BY <1>1
<1>2. ASSUME NEW g \in Form, FormStep(g)
      PROVE  /\ \A f \in receipts' \ receipts : Sent(f) /\ f \in Form /\ ~Stale(commands[f])
             /\ \A f \in receipts : answers'[f] # answers[f] => answers'[f] = "applied"
  <2>1. CASE \E b \in Builder : \E p, q : SubmitEditForm(g, b, p, q)
    BY <2>1 DEF SubmitEditForm
  <2>2. CASE ReplayAdjustment(g)
    BY <2>2 DEF ReplayAdjustment, Answered, LedgerTypeOK, AdjustmentsTypeOK
  <2>3. CASE RefuseAdjustment(g)
    BY <2>3 DEF RefuseAdjustment, Answered, Replayed, LedgerTypeOK, AdjustmentsTypeOK
  <2>4. CASE AdjustBuilderCredits(g)
    BY <2>4 DEF AdjustBuilderCredits, Answered, Replayed, LedgerTypeOK, AdjustmentsTypeOK
  <2> QED BY <1>2, <2>1, <2>2, <2>3, <2>4 DEF FormStep
<1>3. CASE \E b \in Builder, n \in Amount : Grant(b, n)
  BY <1>1, <1>3 DEF Grant, adjustVars
<1>4. CASE \E n \in Intent : ClaimStep(n)
  BY <1>1, <1>4 DEF ClaimStep, adjustVars
<1>5. CASE \E q \in Purchase : PurchaseStep(q)
  BY <1>1, <1>5 DEF PurchaseStep, ValidateOperation, CreateTicket, adjustVars
<1>6. CASE \E t \in Ticket : TicketStep(t)
  BY <1>1, <1>6 DEF TicketStep, CreateSystemTicket, SetRevoked, UpdateOwnedUses, ArchiveOwned,
     adjustVars
<1>7. CASE \E a \in Attempt : AttemptStep(a)
  BY <1>1, <1>7 DEF AttemptStep, ReserveTicketCredit, RollbackTicketReservation,
     CompleteAccountCreation, adjustVars
<1> QED BY <1>2, <1>3, <1>4, <1>5, <1>6, <1>7 DEF Next

(* What the administrator's form overwrites is what the administrator saw.  *)
THEOREM FormsAreRead == Spec => AdjustsWhatItRead
<1>1. LedgerTypeOK /\ RevisionsTell /\ [Next]_vars =>
        [\A f \in receipts' \ receipts :
           LET c == commands[f] IN
           /\ credits[c.builder].revision = c.revision
           /\ credits[c.builder].pending = c.seenPending
           /\ credits[c.builder].available = c.seenAvailable]_vars
  BY ReceiptSteps DEF RevisionsTell, Stale
<1> QED BY <1>1, LedgerTypes, RevisionsAreTold, PTL DEF Spec, AdjustsWhatItRead

(* An applied form that is sent again is told that it was applied.          *)
THEOREM AppliedStaysApplied == Spec => AppliedIsNeverRefused
<1>1. LedgerTypeOK /\ [Next]_vars =>
        [\A f \in receipts : answers'[f] # answers[f] => answers'[f] = "applied"]_vars
  BY ReceiptSteps
<1> QED BY <1>1, LedgerTypes, PTL DEF Spec, AppliedIsNeverRefused

------------------------------------------------------------------------------
(* The uses of tickets.  What a conservation argument needs besides the     *)
(* equation: attempts are made on tickets that exist, a code that is free   *)
(* has no uses, and an archived ticket has no open attempt.                 *)
Counted(t, state) == Cardinality(AttemptsOn(t, state))

UsesInv ==
  /\ TicketUsesAccounted
  /\ \A a \in Attempt : attempts[a].state # "none" => Created(attempts[a].ticket)
  /\ \A t \in Ticket :
       /\ tickets[t].archived => AttemptsOn(t, "open") = {}
       /\ ~tickets[t].archived => tickets[t].retired = 0

LEMMA CountedIsNat ==
  ASSUME NEW t, NEW s
  PROVE  /\ IsFiniteSet(AttemptsOn(t, s))
         /\ Counted(t, s) \in Nat
         /\ Counted(t, s) = 0 <=> AttemptsOn(t, s) = {}
<1>1. IsFiniteSet(AttemptsOn(t, s))
  BY TicketAssumption, FS_Subset DEF AttemptsOn
<1> QED BY <1>1, FS_CardinalityType, FS_EmptySet DEF Counted

(* The attempt a moves to ticket t and state s: the sets it leaves and      *)
(* enters change by one.                                                    *)
LEMMA AttemptMoves ==
  ASSUME TicketsTypeOK, NEW a \in Attempt, NEW t \in Ticket, NEW s \in AttemptState,
         attempts'[a].ticket = t, attempts'[a].state = s,
         \A c \in Attempt : c # a => attempts'[c] = attempts[c]
  PROVE  \A u, x :
           Counted(u, x)' =
             Counted(u, x) + (IF u = t /\ x = s THEN 1 ELSE 0)
                           - (IF a \in AttemptsOn(u, x) THEN 1 ELSE 0)
<1> SUFFICES ASSUME NEW u, NEW x
             PROVE  Counted(u, x)' =
                      Counted(u, x) + (IF u = t /\ x = s THEN 1 ELSE 0)
                                    - (IF a \in AttemptsOn(u, x) THEN 1 ELSE 0)
  OBVIOUS
<1>0. IsFiniteSet(AttemptsOn(u, x)) /\ Counted(u, x) \in Nat
  BY CountedIsNat
<1>1. AttemptsOn(u, x)' = (AttemptsOn(u, x) \ {a}) \cup (IF u = t /\ x = s THEN {a} ELSE {})
  BY DEF AttemptsOn
<1>2. Counted(u, x)' = Cardinality(AttemptsOn(u, x)')
  BY DEF Counted
<1>3. /\ IsFiniteSet(AttemptsOn(u, x) \ {a})
      /\ Cardinality(AttemptsOn(u, x) \ {a}) =
           Counted(u, x) - (IF a \in AttemptsOn(u, x) THEN 1 ELSE 0)
  BY <1>0, FS_RemoveElement DEF Counted
<1>4. CASE u = t /\ x = s
  <2>1. AttemptsOn(u, x)' = (AttemptsOn(u, x) \ {a}) \cup {a}
    BY <1>1, <1>4
  <2>2. Cardinality((AttemptsOn(u, x) \ {a}) \cup {a}) = Cardinality(AttemptsOn(u, x) \ {a}) + 1
    BY <1>3, FS_AddElement
  <2> QED BY <1>0, <1>2, <1>3, <1>4, <2>1, <2>2
<1>5. CASE ~(u = t /\ x = s)
  <2>1. AttemptsOn(u, x)' = AttemptsOn(u, x) \ {a}
    BY <1>1, <1>5
  <2> QED BY <1>0, <1>2, <1>3, <1>5, <2>1
<1> QED BY <1>4, <1>5

(* The uses of one ticket, all of them.                                     *)
Balanced(t) ==
  tickets[t].total = tickets[t].remaining + Counted(t, "open") + Counted(t, "completed")
                       + tickets[t].retired

TicketInv(t) ==
  /\ Balanced(t)
  /\ tickets[t].archived => references[t].refund = tickets[t].retired
  /\ tickets[t].archived => AttemptsOn(t, "open") = {}
  /\ ~tickets[t].archived => tickets[t].retired = 0

LEMMA UsesInvPerTicket ==
  UsesInv <=> /\ \A t \in Ticket : TicketInv(t)
              /\ \A a \in Attempt : attempts[a].state # "none" => Created(attempts[a].ticket)
BY DEF UsesInv, TicketUsesAccounted, TicketInv, Balanced, Counted

LEMMA TicketFields ==
  ASSUME TicketsTypeOK, NEW t \in Ticket
  PROVE  /\ tickets[t].total \in Nat /\ tickets[t].remaining \in Nat
         /\ tickets[t].retired \in Nat /\ tickets[t].archived \in BOOLEAN
         /\ Counted(t, "open") \in Nat /\ Counted(t, "completed") \in Nat
         /\ references[t].refund \in Nat
BY CountedIsNat DEF TicketsTypeOK, TicketRow, ReferenceRow

(* A step that writes one ticket's row and no attempt.                      *)
LEMMA OtherTicketsStand ==
  ASSUME UsesInv, NEW t \in Ticket, attempts' = attempts, TicketInv(t)',
         Created(t) => Created(t)',
         \A u \in Ticket : u # t => tickets'[u] = tickets[u] /\ references'[u] = references[u],
         TicketsTypeOK
  PROVE  UsesInv'
<1>1. \A u, x : AttemptsOn(u, x)' = AttemptsOn(u, x)
  BY DEF AttemptsOn
<1>2. \A u, x : Counted(u, x)' = Counted(u, x)
  BY <1>1 DEF Counted
<1>3. ASSUME NEW u \in Ticket, u # t
      PROVE  TicketInv(u)'
  <2>1. TicketInv(u)
    BY UsesInvPerTicket
  <2> QED BY <1>1, <1>2, <1>3, <2>1 DEF TicketInv, Balanced
<1>4. ASSUME NEW a \in Attempt, attempts'[a].state # "none"
      PROVE  tickets'[attempts'[a].ticket].owner # NoBuilder
  <2>1. attempts[a].ticket \in Ticket /\ Created(attempts[a].ticket)
    BY <1>4 DEF UsesInv, TicketsTypeOK
  <2> QED BY <2>1 DEF Created
<1> QED BY <1>3, <1>4 DEF UsesInv, TicketUsesAccounted, TicketInv, Balanced, Counted, Created

LEMMA NewTicketUses ==
  ASSUME LedgerTypeOK, UsesInv, NEW t \in Ticket, NEW owner \in Builder \cup {System},
         NEW uses \in Nat, ~Created(t), Insert(t, owner, uses), attempts' = attempts,
         \A u \in Ticket : u # t => references'[u] = references[u]
  PROVE  UsesInv'
<1>1. TicketsTypeOK
  BY DEF LedgerTypeOK
<1>2. \A x : x # "none" => AttemptsOn(t, x) = {}
  BY DEF UsesInv, AttemptsOn
<1>3. Counted(t, "open") = 0 /\ Counted(t, "completed") = 0
  BY <1>2, CountedIsNat
<1>4. AttemptsOn(t, "open")' = {} /\ Counted(t, "open")' = 0 /\ Counted(t, "completed")' = 0
  BY <1>2, <1>3 DEF AttemptsOn, Counted
<1>5. /\ tickets'[t].total = uses /\ tickets'[t].remaining = uses
      /\ tickets'[t].retired = 0 /\ tickets'[t].archived = FALSE
      /\ \A u \in Ticket : u # t => tickets'[u] = tickets[u]
  BY <1>1 DEF Insert, TicketsTypeOK
<1>6. TicketInv(t)'
  BY <1>4, <1>5 DEF TicketInv, Balanced
<1> QED BY <1>1, <1>5, <1>6, OtherTicketsStand

LEMMA TicketStepUses ==
  ASSUME LedgerTypeOK, UsesInv, NEW t \in Ticket, TicketStep(t)
  PROVE  UsesInv'
<1>1. TicketsTypeOK /\ TicketInv(t)
  BY UsesInvPerTicket DEF LedgerTypeOK
<1>2. ASSUME NEW uses \in 1 .. MaxUses, CreateSystemTicket(t, uses)
      PROVE  UsesInv'
  <2>1. uses \in Nat
    BY TicketAssumption
  <2> QED BY <1>2, <2>1, NewTicketUses DEF CreateSystemTicket
<1>3. ASSUME attempts' = attempts
      PROVE  /\ \A x : AttemptsOn(t, x)' = AttemptsOn(t, x)
             /\ \A x : Counted(t, x)' = Counted(t, x)
  BY <1>3 DEF AttemptsOn, Counted
<1>4. ASSUME NEW revoked \in BOOLEAN, SetRevoked(t, revoked)
      PROVE  UsesInv'
  <2>1. /\ tickets'[t].total = tickets[t].total /\ tickets'[t].remaining = tickets[t].remaining
        /\ tickets'[t].retired = tickets[t].retired
        /\ tickets'[t].archived = tickets[t].archived /\ tickets'[t].owner = tickets[t].owner
        /\ \A u \in Ticket : u # t => tickets'[u] = tickets[u]
        /\ attempts' = attempts /\ references' = references
    BY <1>1, <1>4 DEF SetRevoked, TicketsTypeOK
  <2>2. TicketInv(t)'
    BY <1>1, <1>3, <2>1 DEF TicketInv, Balanced
  <2> QED BY <1>1, <2>1, <2>2, OtherTicketsStand DEF Created
<1>5. ASSUME NEW delta \in -MaxUses .. MaxUses, UpdateOwnedUses(t, delta)
      PROVE  UsesInv'
  <2>1. /\ tickets'[t].total = tickets[t].total + delta
        /\ tickets'[t].remaining = tickets[t].remaining + delta
        /\ tickets'[t].retired = tickets[t].retired
        /\ tickets'[t].archived = tickets[t].archived /\ tickets'[t].owner = tickets[t].owner
        /\ references'[t].refund = references[t].refund
        /\ \A u \in Ticket : u # t => tickets'[u] = tickets[u] /\ references'[u] = references[u]
        /\ attempts' = attempts
    BY <1>1, <1>5 DEF UpdateOwnedUses, TicketsTypeOK
  <2>2. delta \in Int
    BY TicketAssumption
  <2>3. Balanced(t)'
    BY <1>1, <1>3, <2>1, <2>2, TicketFields DEF TicketInv, Balanced
  <2>4. TicketInv(t)'
    BY <1>1, <1>3, <2>1, <2>3 DEF TicketInv
  <2> QED BY <1>1, <2>1, <2>4, OtherTicketsStand DEF Created
<1>6. CASE ArchiveOwned(t)
  <2>1. /\ tickets'[t].total = tickets[t].total
        /\ tickets'[t].remaining = 0
        /\ tickets'[t].retired = tickets[t].retired + tickets[t].remaining
        /\ tickets'[t].archived = TRUE /\ tickets'[t].owner = tickets[t].owner
        /\ references'[t].refund = tickets[t].retired + tickets[t].remaining
        /\ \A u \in Ticket : u # t => tickets'[u] = tickets[u] /\ references'[u] = references[u]
        /\ attempts' = attempts /\ AttemptsOn(t, "open") = {}
    BY <1>1, <1>6 DEF ArchiveOwned, MayArchive, Retires, TicketsTypeOK
  <2>2. Balanced(t)'
    BY <1>1, <1>3, <2>1, TicketFields DEF TicketInv, Balanced
  <2>3. TicketInv(t)'
    BY <1>1, <1>3, <2>1, <2>2 DEF TicketInv
  <2> QED BY <1>1, <2>1, <2>3, OtherTicketsStand DEF Created
<1> QED BY <1>2, <1>4, <1>5, <1>6 DEF TicketStep

(* A step that moves one attempt, and may write its ticket's row.           *)
LEMMA AttemptStepUses ==
  ASSUME LedgerTypeOK, UsesInv, NEW a \in Attempt, AttemptStep(a)
  PROVE  UsesInv'
<1>1. TicketsTypeOK
  BY DEF LedgerTypeOK
<1>2. ASSUME NEW t \in Ticket, NEW s \in AttemptState, TicketInv(t)', Created(t),
             attempts[a].state \in {"none", "open"},
             attempts[a].state = "open" => attempts[a].ticket = t,
             attempts'[a].ticket = t, attempts'[a].state = s,
             \A c \in Attempt : c # a => attempts'[c] = attempts[c],
             tickets'[t].owner = tickets[t].owner,
             \A u \in Ticket : u # t => tickets'[u] = tickets[u],
             references' = references
      PROVE  UsesInv'
  <2>1. ASSUME NEW u \in Ticket, u # t
        PROVE  TicketInv(u)'
    <3>1. \A x : x # "none" => AttemptsOn(u, x)' = AttemptsOn(u, x)
      BY <1>2, <2>1 DEF AttemptsOn
    <3>2. \A x : x # "none" => Counted(u, x)' = Counted(u, x)
      BY <3>1 DEF Counted
    <3>3. TicketInv(u)
      BY UsesInvPerTicket
    <3> QED BY <1>2, <2>1, <3>1, <3>2, <3>3 DEF TicketInv, Balanced
  <2>2. ASSUME NEW c \in Attempt, attempts'[c].state # "none"
        PROVE  attempts'[c].ticket \in Ticket /\ tickets'[attempts'[c].ticket].owner # NoBuilder
    <3>1. CASE c = a
      BY <1>2, <3>1 DEF Created
    <3>2. CASE c # a
      BY <1>1, <1>2, <2>2, <3>2 DEF UsesInv, Created, TicketsTypeOK
    <3> QED BY <3>1, <3>2
  <2> QED BY <1>2, <2>1, <2>2
       DEF UsesInv, TicketUsesAccounted, TicketInv, Balanced, Counted, Created
<1>3. ASSUME NEW t \in Ticket, ReserveTicketCredit(a, t)
      PROVE  UsesInv'
  <2>1. /\ tickets'[t].total = tickets[t].total
        /\ tickets'[t].remaining = tickets[t].remaining - 1
        /\ tickets'[t].retired = tickets[t].retired
        /\ tickets'[t].archived = tickets[t].archived /\ ~tickets[t].archived
        /\ tickets'[t].owner = tickets[t].owner
        /\ \A u \in Ticket : u # t => tickets'[u] = tickets[u]
        /\ references' = references
        /\ attempts[a].state = "none"
        /\ attempts'[a].ticket = t /\ attempts'[a].state = "open"
        /\ \A c \in Attempt : c # a => attempts'[c] = attempts[c]
        /\ Created(t)
    BY <1>1, <1>3 DEF ReserveTicketCredit, TicketsTypeOK
  <2>2. "open" \in AttemptState
    BY DEF AttemptState
  <2>3. /\ Counted(t, "open")' = Counted(t, "open") + 1
        /\ Counted(t, "completed")' = Counted(t, "completed")
    <3>1. a \notin AttemptsOn(t, "open") /\ a \notin AttemptsOn(t, "completed")
      BY <2>1 DEF AttemptsOn
    <3>2. \A x : Counted(t, x)' = Counted(t, x) + (IF t = t /\ x = "open" THEN 1 ELSE 0)
                                   - (IF a \in AttemptsOn(t, x) THEN 1 ELSE 0)
      BY <1>1, <2>1, <2>2, AttemptMoves
    <3> QED BY <1>1, <3>1, <3>2, TicketFields
  <2>4. TicketInv(t)
    BY UsesInvPerTicket
  <2>5. TicketInv(t)'
    BY <1>1, <2>1, <2>3, <2>4, TicketFields DEF TicketInv, Balanced
  <2> QED BY <1>2, <2>1, <2>2, <2>5
<1>4. CASE RollbackTicketReservation(a)
  <2>1. PICK t \in Ticket : t = attempts[a].ticket
    BY <1>1, <1>4 DEF RollbackTicketReservation, TicketsTypeOK
  <2>2. /\ tickets'[t].total = tickets[t].total
        /\ tickets'[t].remaining = tickets[t].remaining + 1
        /\ tickets'[t].retired = tickets[t].retired
        /\ tickets'[t].archived = tickets[t].archived /\ ~tickets[t].archived
        /\ tickets'[t].owner = tickets[t].owner
        /\ \A u \in Ticket : u # t => tickets'[u] = tickets[u]
        /\ references' = references
        /\ attempts[a].state = "open"
        /\ attempts'[a].ticket = t /\ attempts'[a].state = "rolled_back"
        /\ \A c \in Attempt : c # a => attempts'[c] = attempts[c]
    BY <1>1, <1>4, <2>1 DEF RollbackTicketReservation, CanRestore, TicketsTypeOK
  <2>3. "rolled_back" \in AttemptState
    BY DEF AttemptState
  <2>4. /\ Counted(t, "open")' = Counted(t, "open") - 1
        /\ Counted(t, "completed")' = Counted(t, "completed")
    <3>1. a \in AttemptsOn(t, "open") /\ a \notin AttemptsOn(t, "completed")
      BY <2>1, <2>2 DEF AttemptsOn
    <3>2. \A x : Counted(t, x)' = Counted(t, x) + (IF t = t /\ x = "rolled_back" THEN 1 ELSE 0)
                                   - (IF a \in AttemptsOn(t, x) THEN 1 ELSE 0)
      BY <1>1, <2>2, <2>3, AttemptMoves
    <3> QED BY <1>1, <3>1, <3>2, TicketFields
  <2>5. TicketInv(t) /\ Created(t)
    BY <2>1, <2>2, UsesInvPerTicket
  <2>6. TicketInv(t)'
    BY <1>1, <2>2, <2>4, <2>5, TicketFields DEF TicketInv, Balanced
  <2> QED BY <1>2, <2>1, <2>2, <2>3, <2>5, <2>6
<1>5. CASE CompleteAccountCreation(a)
  <2>1. PICK t \in Ticket : t = attempts[a].ticket
    BY <1>1, <1>5 DEF CompleteAccountCreation, TicketsTypeOK
  <2>2. /\ tickets' = tickets /\ references' = references
        /\ attempts[a].state = "open"
        /\ attempts'[a].ticket = t /\ attempts'[a].state = "completed"
        /\ \A c \in Attempt : c # a => attempts'[c] = attempts[c]
    BY <1>1, <1>5, <2>1 DEF CompleteAccountCreation, TicketsTypeOK
  <2>3. "completed" \in AttemptState
    BY DEF AttemptState
  <2>4. /\ Counted(t, "open")' = Counted(t, "open") - 1
        /\ Counted(t, "completed")' = Counted(t, "completed") + 1
    <3>1. a \in AttemptsOn(t, "open") /\ a \notin AttemptsOn(t, "completed")
      BY <2>1, <2>2 DEF AttemptsOn
    <3>2. \A x : Counted(t, x)' = Counted(t, x) + (IF t = t /\ x = "completed" THEN 1 ELSE 0)
                                   - (IF a \in AttemptsOn(t, x) THEN 1 ELSE 0)
      BY <1>1, <2>2, <2>3, AttemptMoves
    <3> QED BY <1>1, <3>1, <3>2, TicketFields
  <2>5. TicketInv(t) /\ Created(t) /\ a \in AttemptsOn(t, "open")
    BY <2>1, <2>2, UsesInvPerTicket DEF AttemptsOn
  <2>6. TicketInv(t)'
    BY <1>1, <2>2, <2>4, <2>5, TicketFields DEF TicketInv, Balanced
  <2> QED BY <1>2, <2>1, <2>2, <2>3, <2>5, <2>6
<1> QED BY <1>3, <1>4, <1>5 DEF AttemptStep

LEMMA UsesStep ==
  ASSUME LedgerTypeOK, UsesInv, Next
  PROVE  UsesInv'
<1>1. CASE UNCHANGED << tickets, attempts, references >>
  BY <1>1 DEF UsesInv, TicketUsesAccounted, AttemptsOn, Created
<1>2. CASE \E b \in Builder, n \in Amount : Grant(b, n)
  BY <1>1, <1>2 DEF Grant, ticketVars
<1>3. CASE \E n \in Intent : ClaimStep(n)
  BY <1>1, <1>3 DEF ClaimStep, ticketVars
<1>4. CASE \E f \in Form : FormStep(f)
  BY <1>1, <1>4 DEF FormStep, ticketVars
<1>5. ASSUME NEW q \in Purchase, PurchaseStep(q)
      PROVE  UsesInv'
  <2>1. CASE \E b \in Builder, uses \in 1 .. MaxUses : ValidateOperation(q, b, uses)
    BY <1>1, <2>1 DEF ValidateOperation
  <2>2. ASSUME NEW t \in Ticket, purchases[q].builder \in Builder, CreateTicket(q, t)
        PROVE  UsesInv'
    <3>1. PICK b \in Builder, uses \in Nat : b = purchases[q].builder /\ uses = purchases[q].uses
      BY <2>2 DEF LedgerTypeOK, TicketsTypeOK, PurchaseRow
    <3>2. /\ ~Created(t) /\ Insert(t, b, uses) /\ attempts' = attempts
          /\ \A u \in Ticket : u # t => references'[u] = references[u]
      BY <2>2, <3>1 DEF CreateTicket, LedgerTypeOK, TicketsTypeOK
    <3> QED BY <3>2, NewTicketUses
  <2> QED BY <1>5, <2>1, <2>2 DEF PurchaseStep
<1>6. CASE \E t \in Ticket : TicketStep(t)
  BY <1>6, TicketStepUses
<1>7. CASE \E a \in Attempt : AttemptStep(a)
  BY <1>7, AttemptStepUses
<1> QED BY <1>2, <1>3, <1>4, <1>5, <1>6, <1>7 DEF Next

LEMMA InitUses == Init => UsesInv
<1> SUFFICES ASSUME Init PROVE UsesInv
  OBVIOUS
<1>1. \A a \in Attempt : attempts[a].state = "none"
  BY DEF Init, TicketsInit
<1>2. \A t \in Ticket : AttemptsOn(t, "open") = {} /\ AttemptsOn(t, "completed") = {}
  BY <1>1 DEF AttemptsOn
<1>3. \A t \in Ticket : Cardinality(AttemptsOn(t, "open")) = 0
                       /\ Cardinality(AttemptsOn(t, "completed")) = 0
  BY <1>2, FS_EmptySet
<1> QED BY <1>1, <1>2, <1>3 DEF Init, TicketsInit, UsesInv, TicketUsesAccounted

THEOREM UsesInvariant == Spec => []UsesInv
<1>1. LedgerTypeOK /\ UsesInv /\ [Next]_vars => UsesInv'
  <2> SUFFICES ASSUME LedgerTypeOK, UsesInv, [Next]_vars PROVE UsesInv'
    OBVIOUS
  <2>1. CASE UNCHANGED vars
    BY <2>1 DEF vars, ticketVars, UsesInv, TicketUsesAccounted, AttemptsOn, Created
  <2> QED BY <2>1, UsesStep
<1> QED BY <1>1, InitUses, LedgerTypes, PTL DEF Spec

(* Every use of a ticket is unused, taken, spent or retired; retired uses   *)
(* were refunded.                                                           *)
THEOREM UsesAreAccounted == Spec => []TicketUsesAccounted
<1>1. UsesInv => TicketUsesAccounted
  BY DEF UsesInv
<1> QED BY <1>1, UsesInvariant, PTL

(* No change of a ticket by its owner makes the rollback of an attempt      *)
(* impossible.                                                              *)
THEOREM RollbackIsPossible == Spec => []OpenAttemptsCanBeRolledBack
<1>1. LedgerTypeOK /\ UsesInv => OpenAttemptsCanBeRolledBack
  <2> SUFFICES ASSUME LedgerTypeOK, UsesInv, NEW a \in Attempt, attempts[a].state = "open"
               PROVE  CanRestore(attempts[a].ticket)
    BY DEF OpenAttemptsCanBeRolledBack
  <2>1. TicketsTypeOK
    BY DEF LedgerTypeOK
  <2>2. PICK t \in Ticket : t = attempts[a].ticket
    BY <2>1 DEF TicketsTypeOK
  <2>3. TicketInv(t) /\ a \in AttemptsOn(t, "open")
    BY <2>2, UsesInvPerTicket DEF AttemptsOn
  <2>4. ~tickets[t].archived
    BY <2>3 DEF TicketInv
  <2>5. Counted(t, "open") # 0
    BY <2>3, CountedIsNat
  <2>6. tickets[t].remaining < tickets[t].total - tickets[t].retired
    BY <2>1, <2>3, <2>5, TicketFields DEF TicketInv, Balanced
  <2> QED BY <2>2, <2>4, <2>6 DEF CanRestore
<1> QED BY <1>1, LedgerTypes, UsesInvariant, PTL

------------------------------------------------------------------------------
(* The diagnosis of credits.                                                *)
LEMMA OwnersStand ==
  ASSUME LedgerTypeOK, Next, NEW t \in Ticket, Created(t)
  PROVE  tickets'[t].owner = tickets[t].owner
<1>1. TicketsTypeOK
  BY DEF LedgerTypeOK
<1>2. CASE UNCHANGED tickets
  BY <1>2
<1>3. CASE \E b \in Builder, n \in Amount : Grant(b, n)
  BY <1>2, <1>3 DEF Grant, ticketVars
<1>4. CASE \E n \in Intent : ClaimStep(n)
  BY <1>2, <1>4 DEF ClaimStep, ticketVars
<1>5. CASE \E f \in Form : FormStep(f)
  BY <1>2, <1>5 DEF FormStep, ticketVars
<1>6. CASE \E q \in Purchase : PurchaseStep(q)
  BY <1>1, <1>2, <1>6 DEF PurchaseStep, ValidateOperation, CreateTicket, Insert, TicketsTypeOK
<1>7. ASSUME NEW u \in Ticket, TicketStep(u)
      PROVE  tickets'[t].owner = tickets[t].owner
  <2>1. CASE \E uses \in 1 .. MaxUses : CreateSystemTicket(u, uses)
    BY <1>1, <2>1 DEF CreateSystemTicket, Insert, TicketsTypeOK
  <2>2. CASE \E revoked \in BOOLEAN : SetRevoked(u, revoked)
    BY <1>1, <2>2 DEF SetRevoked, TicketsTypeOK
  <2>3. CASE \E delta \in -MaxUses .. MaxUses : UpdateOwnedUses(u, delta)
    BY <1>1, <2>3 DEF UpdateOwnedUses, TicketsTypeOK
  <2>4. CASE ArchiveOwned(u)
    BY <1>1, <2>4 DEF ArchiveOwned, TicketsTypeOK
  <2> QED BY <1>7, <2>1, <2>2, <2>3, <2>4 DEF TicketStep
<1>8. ASSUME NEW a \in Attempt, AttemptStep(a)
      PROVE  tickets'[t].owner = tickets[t].owner
  <2>1. CASE \E u \in Ticket : ReserveTicketCredit(a, u)
    BY <1>1, <2>1 DEF ReserveTicketCredit, TicketsTypeOK
  <2>2. CASE RollbackTicketReservation(a)
    BY <1>1, <2>2 DEF RollbackTicketReservation, TicketsTypeOK
  <2>3. CASE CompleteAccountCreation(a)
    BY <1>2, <2>3 DEF CompleteAccountCreation
  <2> QED BY <1>8, <2>1, <2>2, <2>3 DEF AttemptStep
<1> QED BY <1>3, <1>4, <1>5, <1>6, <1>7, <1>8 DEF Next

(* Only completions touch what is consumed, and the accounts paid.          *)
LEMMA ConsumedSteps ==
  ASSUME LedgerTypeOK, Next
  PROVE  \/ /\ \A b \in Builder : ConsumedKept(b)
            /\ \A a \in Attempt : \/ attempts'[a] = attempts[a]
                                  \/ /\ attempts[a].state # "completed"
                                     /\ attempts'[a].state # "completed"
                                     /\ ~attempts'[a].consumed
         \/ \E a \in Attempt : CompleteAccountCreation(a)
<1>1. TicketsTypeOK
  BY DEF LedgerTypeOK
<1>2. CASE UNCHANGED attempts /\ \A b \in Builder : ConsumedKept(b)
  BY <1>2
<1>3. CASE \E b \in Builder, n \in Amount : Grant(b, n)
  BY <1>2, <1>3, GrantBooks DEF Grant, ticketVars
<1>4. CASE \E n \in Intent : ClaimStep(n)
  BY <1>2, <1>4, ClaimBooks DEF ClaimStep, ticketVars
<1>5. CASE \E f \in Form : FormStep(f)
  BY <1>2, <1>5, FormBooks DEF FormStep, ticketVars
<1>6. CASE \E q \in Purchase : PurchaseStep(q)
  BY <1>2, <1>6, PurchaseBooks DEF PurchaseStep, ValidateOperation, CreateTicket
<1>7. CASE \E t \in Ticket : TicketStep(t)
  BY <1>2, <1>7, TicketBooks DEF TicketStep, CreateSystemTicket, SetRevoked, UpdateOwnedUses,
     ArchiveOwned
<1>8. ASSUME NEW a \in Attempt, AttemptStep(a), ~CompleteAccountCreation(a)
      PROVE  /\ \A b \in Builder : ConsumedKept(b)
             /\ \A c \in Attempt : \/ attempts'[c] = attempts[c]
                                   \/ /\ attempts[c].state # "completed"
                                      /\ attempts'[c].state # "completed"
                                      /\ ~attempts'[c].consumed
  <2>1. \A b \in Builder : ConsumedKept(b)
    BY <1>8, AttemptBooks
  <2>2. /\ attempts[a].state # "completed"
        /\ attempts'[a].state # "completed" /\ ~attempts'[a].consumed
        /\ \A c \in Attempt : c # a => attempts'[c] = attempts[c]
    BY <1>1, <1>8 DEF AttemptStep, ReserveTicketCredit, RollbackTicketReservation, TicketsTypeOK
  <2> QED BY <2>1, <2>2
<1> QED BY <1>3, <1>4, <1>5, <1>6, <1>7, <1>8 DEF Next

(* Every row agrees with the accounts: consumed credits with the accounts   *)
(* paid, and each account with the journal.                                 *)
AccountsAgree ==
  /\ \A b \in Builder : credits[b].consumed = Cardinality(FundedAccounts(b))
  /\ \A a \in Attempt : attempts[a].consumed <=> (\E b \in Builder : a \in FundedAccounts(b))

LEMMA AgreementStep ==
  ASSUME LedgerTypeOK, UsesInv, AccountsAgree, Next
  PROVE  AccountsAgree'
<1>1. /\ CreditsTypeOK /\ TicketsTypeOK
      /\ \A a \in Attempt : attempts[a].state # "none" =>
           /\ attempts[a].ticket \in Ticket /\ Created(attempts[a].ticket)
           /\ tickets'[attempts[a].ticket].owner = tickets[attempts[a].ticket].owner
  BY OwnersStand DEF LedgerTypeOK, TicketsTypeOK, UsesInv
<1>2. ASSUME \A b \in Builder : ConsumedKept(b),
             \A a \in Attempt : \/ attempts'[a] = attempts[a]
                               \/ /\ attempts[a].state # "completed"
                                  /\ attempts'[a].state # "completed"
                                  /\ ~attempts'[a].consumed
      PROVE  AccountsAgree'
  <2>1. \A b \in Builder : FundedAccounts(b)' = FundedAccounts(b)
    BY <1>1, <1>2 DEF FundedAccounts
  <2>2. \A b \in Builder : credits'[b].consumed = Cardinality(FundedAccounts(b)')
    BY <1>2, <2>1 DEF AccountsAgree, ConsumedKept
  <2>3. ASSUME NEW a \in Attempt
        PROVE  attempts'[a].consumed <=> \E b \in Builder : a \in FundedAccounts(b)'
    <3>1. CASE attempts'[a] = attempts[a]
      BY <2>1, <3>1 DEF AccountsAgree
    <3>2. CASE attempts'[a].state # "completed" /\ ~attempts'[a].consumed
      BY <3>2 DEF FundedAccounts
    <3> QED BY <1>2, <3>1, <3>2
  <2> QED BY <2>2, <2>3 DEF AccountsAgree
<1>3. ASSUME NEW a \in Attempt, CompleteAccountCreation(a)
      PROVE  AccountsAgree'
  <2>1. PICK t \in Ticket : t = attempts[a].ticket
    BY <1>1, <1>3 DEF CompleteAccountCreation
  <2>2. /\ tickets' = tickets
        /\ attempts[a].state = "open" /\ attempts'[a].ticket = t
        /\ attempts'[a].state = "completed" /\ attempts'[a].consumed = Owned(t)
        /\ \A c \in Attempt : c # a => attempts'[c] = attempts[c]
    BY <1>1, <1>3, <2>1 DEF CompleteAccountCreation, TicketsTypeOK
  <2>3. \A b \in Builder :
          FundedAccounts(b)' = IF tickets[t].owner = b THEN FundedAccounts(b) \cup {a}
                               ELSE FundedAccounts(b)
    BY <2>2 DEF FundedAccounts
  <2>4. \A b \in Builder : a \notin FundedAccounts(b) /\ IsFiniteSet(FundedAccounts(b))
    BY <2>2, TicketAssumption, FS_Subset DEF FundedAccounts
  <2>5. ASSUME NEW b \in Builder
        PROVE  credits'[b].consumed = Cardinality(FundedAccounts(b)')
    <3>1. CASE tickets[t].owner = b
      <4>1. MarkCreditsAsConsumed(b, 1)
        BY <1>3, <2>1, <3>1 DEF CompleteAccountCreation, Owned
      <4>2. credits'[b].consumed = credits[b].consumed + 1
        BY <1>1, <4>1, ConsumeEffect
      <4>3. Cardinality(FundedAccounts(b) \cup {a}) = Cardinality(FundedAccounts(b)) + 1
        BY <2>4, FS_AddElement
      <4> QED BY <2>3, <3>1, <4>2, <4>3 DEF AccountsAgree
    <3>2. CASE tickets[t].owner # b
      <4>1. credits'[b].consumed = credits[b].consumed
        <5>1. CASE ~Owned(t)
          BY <1>3, <2>1, <5>1 DEF CompleteAccountCreation, creditVars
        <5>2. CASE Owned(t)
          <6>1. PICK d \in Builder : d = tickets[t].owner
            BY <5>2 DEF Owned
          <6>2. MarkCreditsAsConsumed(d, 1)
            BY <1>3, <2>1, <5>2, <6>1 DEF CompleteAccountCreation
          <6>3. Writes(d)
            BY <1>1, <6>2, ConsumeEffect
          <6> QED BY <3>2, <6>1, <6>3 DEF Writes
        <5> QED BY <5>1, <5>2
      <4> QED BY <2>3, <3>2, <4>1 DEF AccountsAgree
    <3> QED BY <3>1, <3>2
  <2>6. ASSUME NEW c \in Attempt
        PROVE  attempts'[c].consumed <=> \E b \in Builder : c \in FundedAccounts(b)'
    <3>1. CASE c = a
      <4>1. Owned(t) <=> \E b \in Builder : tickets[t].owner = b
        BY DEF Owned
      <4>2. \A b \in Builder : a \in FundedAccounts(b)' <=> tickets[t].owner = b
        BY <2>3, <2>4
      <4> QED BY <2>2, <3>1, <4>1, <4>2
    <3>2. CASE c # a
      <4>1. \A b \in Builder : c \in FundedAccounts(b)' <=> c \in FundedAccounts(b)
        BY <2>3, <3>2
      <4> QED BY <2>2, <3>2, <4>1 DEF AccountsAgree
    <3> QED BY <3>1, <3>2
  <2> QED BY <2>5, <2>6 DEF AccountsAgree
<1> QED BY <1>2, <1>3, ConsumedSteps

BooksInv ==
  \A b \in Builder : Explained(b) /\ (~HasRow(b) => audit[b] = NoAudit)

LEMMA BooksStep ==
  ASSUME LedgerTypeOK, BooksInv, Next
  PROVE  BooksInv'
<1>1. Accounted
  BY StepBooks
<1>2. ASSUME NEW b \in Builder
      PROVE  Explained(b)' /\ (~HasRow(b)' => audit'[b] = NoAudit)
  <2>1. credits[b].revision \in Nat
    BY BalanceFields DEF LedgerTypeOK
  <2>2. CASE Kept(b)
    BY <2>2 DEF Kept, BooksInv, Explained, HasRow, ExpectedPending, ExpectedAvailable,
       ExpectedIssued, ExpectedConsumed
  <2>3. CASE ~Kept(b)
    BY <1>1, <2>1, <2>3 DEF Accounted, BooksInv, HasRow
  <2> QED BY <2>2, <2>3
<1> QED BY <1>2 DEF BooksInv

LEMMA InitBooks == Init => BooksInv /\ AccountsAgree
<1> SUFFICES ASSUME Init PROVE BooksInv /\ AccountsAgree
  OBVIOUS
<1>1. \A b \in Builder :
        /\ credits[b].pending = 0 /\ credits[b].available = 0 /\ credits[b].issued = 0
        /\ credits[b].consumed = 0
        /\ audit[b] = NoAudit
  BY DEF Init, CreditsInit, NoRow
<1>2. \A o \in Operation : NoAudit[o] = 0
  BY DEF NoAudit
<1>3. BooksInv
  <2>1. ASSUME NEW b \in Builder
        PROVE  \A o \in Operation : audit[b][o] = 0
    BY <1>1, <1>2
  <2>2. ASSUME NEW b \in Builder
        PROVE  Explained(b)
    BY <1>1, <2>1 DEF Explained, ExpectedPending, ExpectedAvailable, ExpectedIssued,
       ExpectedConsumed, Operation
  <2> QED BY <1>1, <2>2 DEF BooksInv
<1>4. \A a \in Attempt : attempts[a].state = "none" /\ ~attempts[a].consumed
  BY DEF Init, TicketsInit
<1>5. \A b \in Builder : FundedAccounts(b) = {}
  BY <1>4 DEF FundedAccounts
<1>6. \A b \in Builder : credits[b].consumed = Cardinality(FundedAccounts(b))
  BY <1>1, <1>5, FS_EmptySet
<1> QED BY <1>3, <1>4, <1>5, <1>6 DEF AccountsAgree

(* The program's diagnosis of credits finds no mismatch in any state that   *)
(* the operations reach.                                                    *)
THEOREM CreditsAreClean == Spec => []CreditDiagnosisIsClean
<1>1. LedgerTypeOK /\ UsesInv /\ BooksInv /\ AccountsAgree /\ [Next]_vars =>
        BooksInv' /\ AccountsAgree'
  <2> SUFFICES ASSUME LedgerTypeOK, UsesInv, BooksInv, AccountsAgree, [Next]_vars
               PROVE  BooksInv' /\ AccountsAgree'
    OBVIOUS
  <2>1. CASE UNCHANGED vars
    BY <2>1 DEF vars, creditVars, ticketVars, BooksInv, AccountsAgree, Explained, HasRow,
       ExpectedPending, ExpectedAvailable, ExpectedIssued, ExpectedConsumed, FundedAccounts
  <2> QED BY <2>1, BooksStep, AgreementStep
<1>2. BooksInv /\ AccountsAgree => CreditDiagnosisIsClean
  BY DEF BooksInv, AccountsAgree, CreditDiagnosisIsClean
<1> QED BY <1>1, <1>2, InitBooks, LedgerTypes, UsesInvariant, PTL DEF Spec

------------------------------------------------------------------------------
(* Claims.  The operation of a claimed intent is irreversible.              *)
ClaimedIsIrreversible ==
  \A n \in Intent : intents[n].state = "claimed" => chain[n] = "irreversible"

THEOREM ClaimsAreIrreversible == Spec => []ClaimedIsIrreversible
<1>1. Init => ClaimedIsIrreversible
  BY DEF Init, ClaimsInit, NoIntent, ClaimedIsIrreversible
<1>2. LedgerTypeOK /\ ClaimedIsIrreversible /\ [Next]_vars => ClaimedIsIrreversible'
  <2> SUFFICES ASSUME LedgerTypeOK, ClaimedIsIrreversible, [Next]_vars
               PROVE  ClaimedIsIrreversible'
    OBVIOUS
  <2>1. CASE UNCHANGED claimVars
    BY <2>1 DEF claimVars, ClaimedIsIrreversible
  <2>2. ASSUME NEW n \in Intent, ClaimStep(n)
        PROVE  ClaimedIsIrreversible'
    <3>1. CASE \E b \in Builder : CreateClaimIntent(b, n)
      BY <3>1 DEF CreateClaimIntent, ClaimedIsIrreversible
    <3>2. CASE IntentExpires(n)
      BY <3>2 DEF IntentExpires, ClaimedIsIrreversible, LedgerTypeOK, ClaimsTypeOK
    <3>3. CASE BroadcastClaim(n) \/ ClaimFinalises(n) \/ ClaimForkedOut(n)
      BY <3>3 DEF BroadcastClaim, ClaimFinalises, ClaimForkedOut, ClaimedIsIrreversible,
         LedgerTypeOK, ClaimsTypeOK
    <3>4. CASE CompleteClaim(n)
      BY <3>4 DEF CompleteClaim, Complete, VerifyHiveClaim, ClaimedIsIrreversible
    <3> QED BY <2>2, <3>1, <3>2, <3>3, <3>4 DEF ClaimStep
  <2>3. CASE \E b \in Builder, n \in Amount : Grant(b, n)
    BY <2>1, <2>3 DEF Grant
  <2>4. CASE \E f \in Form : FormStep(f)
    BY <2>1, <2>4 DEF FormStep, SubmitEditForm, ReplayAdjustment, RefuseAdjustment,
       AdjustBuilderCredits, claimVars
  <2>5. CASE \E q \in Purchase : PurchaseStep(q)
    BY <2>1, <2>5 DEF PurchaseStep, ValidateOperation, CreateTicket
  <2>6. CASE \E t \in Ticket : TicketStep(t)
    BY <2>1, <2>6 DEF TicketStep, CreateSystemTicket, SetRevoked, UpdateOwnedUses, ArchiveOwned
  <2>7. CASE \E a \in Attempt : AttemptStep(a)
    BY <2>1, <2>7 DEF AttemptStep, ReserveTicketCredit, RollbackTicketReservation,
       CompleteAccountCreation
  <2>8. CASE UNCHANGED vars
    BY <2>1, <2>8 DEF vars
  <2> QED BY <2>2, <2>3, <2>4, <2>5, <2>6, <2>7, <2>8 DEF Next
<1> QED BY <1>1, <1>2, LedgerTypes, PTL DEF Spec
==============================================================================
