----------------------------- MODULE CreditBalances -----------------------------
(***************************************************************************)
(* The credits of the builders (src/lib/credits/core.ts): one row of       *)
(* Credits per builder, and CreditAudit, the journal of what was done to   *)
(* it.  The administrator issues credits, the builder claims them, buys    *)
(* ticket uses with them, gets unused uses back, and an account created    *)
(* with a use consumes it.                                                 *)
(*                                                                         *)
(* Every operation is one transaction: an update of the row with a         *)
(* condition in its WHERE, revision + 1, and one row of the journal; a     *)
(* condition that fails rolls all of it back.  The operators below are     *)
(* that transaction; the actions that run it are in the modules that       *)
(* extend this one.  Of the journal, the sum of the amounts of each        *)
(* operation is kept: no code reads more of it (calculateBreakdown), but   *)
(* for the references that BuilderTickets keeps.                           *)
(***************************************************************************)
EXTENDS Integers

CONSTANTS
  Builder,        (* Hive names of the builders                             *)
  MaxAmount,      (* bound: credits of one grant and of one balance set     *)
  MaxRevision     (* bound: operations on one builder's row                 *)

ASSUME CreditAssumption ==
  /\ MaxAmount \in Nat \ {0}
  /\ MaxRevision \in Nat

VARIABLES
  credits,        (* per builder: the row of Credits                        *)
  audit           (* per builder: the sums of CreditAudit by operation      *)

Amount == 1 .. MaxAmount

(* A row is inserted with revision 1: revision 0 says that there is none.   *)
CreditRow == [pending : Nat, available : Nat, issued : Nat, consumed : Nat, revision : Nat]
Operation == {"assign_credits", "grant_available_credits", "claim_credits", "create_ticket",
              "delete_ticket_refund", "consume_credits", "admin_adjust_pending",
              "admin_adjustment"}

NoRow == [pending |-> 0, available |-> 0, issued |-> 0, consumed |-> 0, revision |-> 0]
NoAudit == [o \in Operation |-> 0]

CreditsInit ==
  /\ credits = [b \in Builder |-> NoRow]
  /\ audit = [b \in Builder |-> NoAudit]

CreditsTypeOK ==
  /\ credits \in [Builder -> CreditRow]
  /\ audit \in [Builder -> [Operation -> Int]]

HasRow(b) == credits[b].revision > 0
Bounded(b) == credits[b].revision < MaxRevision

(* Mutant: the revision is left alone.                                      *)
UpdateKeepsRevision(b, pending, available, issued, consumed) ==
  credits' = [credits EXCEPT ![b] =
                [pending |-> pending, available |-> available, issued |-> issued,
                 consumed |-> consumed, revision |-> IF HasRow(b) THEN credits[b].revision ELSE 1]]

(* UPDATE Credits: the new amounts, and revision + 1.                       *)
Update(b, pending, available, issued, consumed) ==
  credits' = [credits EXCEPT ![b] =
                [pending |-> pending, available |-> available, issued |-> issued,
                 consumed |-> consumed, revision |-> credits[b].revision + 1]]

(* INSERT INTO CreditAudit: two rows when both balances are adjusted, one   *)
(* otherwise.                                                               *)
InsertCreditAudits(b, amounts) ==
  audit' = [audit EXCEPT ![b] = [o \in Operation |-> audit[b][o] + amounts[o]]]

InsertCreditAudit(b, operation, amount) ==
  InsertCreditAudits(b, [o \in Operation |-> IF o = operation THEN amount ELSE 0])

(* A grant to be claimed (assign_credits): inserts the row if there is none.*)
GrantPendingCredits(b, n) ==
  LET c == credits[b] IN
  /\ Update(b, c.pending + n, c.available, c.issued + n, c.consumed)
  /\ InsertCreditAudit(b, "assign_credits", n)

(* A grant that needs no claim (grant_available_credits).                   *)
GrantAvailableCredits(b, n) ==
  LET c == credits[b] IN
  /\ Update(b, c.pending, c.available + n, c.issued + n, c.consumed)
  /\ InsertCreditAudit(b, "grant_available_credits", n)

(* Mutant: less may be pending than the intent was drawn for.               *)
ClaimUnchecked(b, n) ==
  LET c == credits[b] IN
  /\ Update(b, c.pending - n, c.available + n, c.issued, c.consumed)
  /\ InsertCreditAudit(b, "claim_credits", n)

(* Mutant: what is claimed stays pending.                                   *)
ClaimKeepsPending(b, n) ==
  LET c == credits[b] IN
  /\ c.pending >= n
  /\ Update(b, c.pending, c.available + n, c.issued, c.consumed)
  /\ InsertCreditAudit(b, "claim_credits", n)

ClaimCredits(b, n) ==
  LET c == credits[b] IN
  /\ c.pending >= n
  /\ Update(b, c.pending - n, c.available + n, c.issued, c.consumed)
  /\ InsertCreditAudit(b, "claim_credits", n)

DeductCreditsForTicket(b, n) ==
  LET c == credits[b] IN
  /\ c.available >= n
  /\ Update(b, c.pending, c.available - n, c.issued, c.consumed)
  /\ InsertCreditAudit(b, "create_ticket", -n)

RefundCreditsFromTicket(b, n) ==
  LET c == credits[b] IN
  /\ HasRow(b)
  /\ Update(b, c.pending, c.available + n, c.issued, c.consumed)
  /\ InsertCreditAudit(b, "delete_ticket_refund", n)

MarkCreditsAsConsumed(b, n) ==
  LET c == credits[b] IN
  /\ HasRow(b)
  /\ Update(b, c.pending, c.available, c.issued, c.consumed + n)
  /\ InsertCreditAudit(b, "consume_credits", -n)

(* Absolute values for the balances, under the revision they were read with.*)
AdjustCreditBalances(b, expectedRevision, pending, available) ==
  LET c == credits[b] IN
  /\ c.revision = expectedRevision
  /\ Update(b, pending, available, c.issued, c.consumed)
  /\ InsertCreditAudits(b, [o \in Operation |->
       CASE o = "admin_adjust_pending" -> pending - c.pending
         [] o = "admin_adjustment" -> available - c.available
         [] OTHER -> 0])
------------------------------------------------------------------------------
(* What the journal says the balances are (calculateExpectedAvailable and   *)
(* checkConsistency; diagnoseCredits computes the same).                    *)
ExpectedAvailable(b) ==
  LET sum == audit[b] IN
  sum["claim_credits"] + sum["grant_available_credits"] + sum["create_ticket"]
    + sum["delete_ticket_refund"] + sum["admin_adjustment"]
ExpectedIssued(b) == audit[b]["assign_credits"] + audit[b]["grant_available_credits"]
ExpectedPending(b) ==
  audit[b]["assign_credits"] + audit[b]["admin_adjust_pending"] - audit[b]["claim_credits"]
ExpectedConsumed(b) == -audit[b]["consume_credits"]
==============================================================================
