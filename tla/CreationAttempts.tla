--------------------------- MODULE CreationAttempts ---------------------------
(***************************************************************************)
(* The rows that decide what happens to a reserved ticket use: the tables  *)
(* CreationAttempts, Tickets (its remaining_uses) and Accounts, and the    *)
(* operations of src/lib/creation-attempts.ts and                          *)
(* src/utils/db-ticket-validator.ts on them.                               *)
(*                                                                         *)
(* Each operation is one database transaction (src/lib/database.ts runs    *)
(* them one at a time), hence one action.  An operator CanX is the         *)
(* condition under which X commits; where it is false the code returns a   *)
(* failure and the database is unchanged.                                  *)
(*                                                                         *)
(* A lease is the pair (generation, version) its holder remembers.  The    *)
(* random lease_token is fresh for every claim, exactly as the generation  *)
(* is, so the generation stands for both.  The lease duration              *)
(* (ATTEMPT_LEASE_DURATION_SECONDS) and ATTEMPT_STALE_MS are both two      *)
(* minutes from updated_at, so one flag, aged, stands for "the lease of    *)
(* this row has expired" and for "this row is stale".                      *)
(***************************************************************************)
EXTENDS CreationIntents

CONSTANTS
  TotalUses,      (* per ticket: total_uses                                 *)
  NoAccount,      (* no Accounts row                                        *)
  MaxGeneration   (* bound: claims of one attempt                           *)

ASSUME TotalUsesAssumption == TotalUses \in [Ticket -> Nat \ {0}]

VARIABLES
  attempt,        (* CreationAttempts rows                                  *)
  remaining,      (* Tickets.remaining_uses                                 *)
  account         (* Accounts rows                                          *)

db == << attempt, remaining, account >>

OpenStatus == {"reserved", "prepared", "broadcasting"}
Status == OpenStatus \cup {"absent", "completed", "rolled_back"}

(* signed: transaction_id and transaction_expires_at are set.               *)
AttemptRow == [status : Status, version : Nat, generation : Nat,
               leased : BOOLEAN, aged : BOOLEAN, signed : BOOLEAN]
AccountRow == [by : Attempt, status : {"simulated", "broadcasted", "confirmed"}]
Lease == [generation : Nat, version : Nat]
NoLease == [generation |-> 0, version |-> 0]

ASSUME NoAccountAssumption == NoAccount \notin AccountRow

DatabaseTypeOK ==
  /\ attempt \in [Attempt -> AttemptRow]
  /\ remaining \in [Ticket -> Nat]
  /\ account \in [User -> AccountRow \cup {NoAccount}]

DatabaseInit ==
  /\ attempt = [a \in Attempt |->
                  [status |-> "absent", version |-> 0, generation |-> 0,
                   leased |-> FALSE, aged |-> FALSE, signed |-> FALSE]]
  /\ remaining = TotalUses
  /\ account = [u \in User |-> NoAccount]

Open(a) == attempt[a].status \in OpenStatus
OpenAttempts(u) == {a \in Attempt : Intent[a].user = u /\ Open(a)}

------------------------------------------------------------------------------
(* Two minutes pass without a write to the row.                             *)
Age(a) ==
  /\ Open(a)
  /\ ~attempt[a].aged
  /\ attempt' = [attempt EXCEPT ![a].aged = TRUE]
  /\ UNCHANGED << remaining, account >>

(* Mutant: neither the token's generation nor the version is compared.      *)
HoldsUnfenced(a, lease) == attempt[a].leased /\ ~attempt[a].aged

(* The predicate that fences every write made under a lease.                *)
Holds(a, lease) ==
  /\ attempt[a].leased
  /\ ~attempt[a].aged
  /\ attempt[a].generation = lease.generation
  /\ attempt[a].version = lease.version

(* A fenced write that keeps the lease: a new expiry and a new version.     *)
Renewed(row, status) ==
  [row EXCEPT !.status = status, !.version = @ + 1, !.aged = FALSE]
(* A fenced write that gives the lease up.                                  *)
Freed(row, status) == [Renewed(row, status) EXCEPT !.leased = FALSE]
(* The lease to use after a write that kept it.                             *)
NextLease(lease) == [lease EXCEPT !.version = @ + 1]

------------------------------------------------------------------------------
(* Mutant: the UPDATE forgets "remaining_uses > 0".                         *)
CanReserveEmpty(a) ==
  /\ attempt[a].status = "absent"
  /\ OpenAttempts(Intent[a].user) = {}

(* The reservation takes one use and inserts the attempt; the unique index  *)
(* on open usernames makes a second open attempt abort all of it.           *)
CanReserve(a) ==
  /\ attempt[a].status = "absent"
  /\ remaining[Intent[a].ticket] > 0
  /\ OpenAttempts(Intent[a].user) = {}

ReserveTicketCredit(a) ==
  /\ CanReserve(a)
  /\ attempt' = [attempt EXCEPT ![a].status = "reserved"]
  /\ remaining' = [remaining EXCEPT ![Intent[a].ticket] = @ - 1]
  /\ UNCHANGED account

(* Mutant: a lease that has expired still bars every claim.                 *)
ClaimableUnlessLeased(a) == Open(a) /\ ~attempt[a].leased

(* An open attempt without a live lease can be claimed.                     *)
Claimable(a) ==
  /\ Open(a)
  /\ attempt[a].leased => attempt[a].aged

ClaimedLease(a) == [generation |-> attempt[a].generation + 1,
                    version |-> attempt[a].version + 1]

ClaimCreationAttempt(a) ==
  /\ Claimable(a)
  /\ attempt[a].generation < MaxGeneration
  /\ attempt' = [attempt EXCEPT
       ![a].leased = TRUE, ![a].aged = FALSE,
       ![a].generation = @ + 1, ![a].version = @ + 1]
  /\ UNCHANGED << remaining, account >>

CanRelease(a, lease) == Holds(a, lease) /\ Open(a)

ReleaseCreationAttemptLease(a, lease) ==
  /\ CanRelease(a, lease)
  /\ attempt' = [attempt EXCEPT ![a] = Freed(@, @.status)]
  /\ UNCHANGED << remaining, account >>

CanPersistPreparation(a, lease) ==
  Holds(a, lease) /\ attempt[a].status = "reserved"

PersistAttemptPreparation(a, lease) ==
  /\ CanPersistPreparation(a, lease)
  /\ attempt' = [attempt EXCEPT ![a] = [Renewed(@, "prepared") EXCEPT !.signed = TRUE]]
  /\ UNCHANGED << remaining, account >>

CanMarkBroadcasting(a, lease) ==
  Holds(a, lease) /\ attempt[a].status = "prepared"

(* Mutant: the row is renewed but its status is not set.                    *)
MarkNothing(a, lease) ==
  /\ CanMarkBroadcasting(a, lease)
  /\ attempt' = [attempt EXCEPT ![a] = Renewed(@, @.status)]
  /\ UNCHANGED << remaining, account >>

MarkAttemptBroadcasting(a, lease) ==
  /\ CanMarkBroadcasting(a, lease)
  /\ attempt' = [attempt EXCEPT ![a] = Renewed(@, "broadcasting")]
  /\ UNCHANGED << remaining, account >>

(* Mutant: the outcome is written by transaction id alone, without a lease. *)
CanPersistOutcomeUnfenced(a, lease) == attempt[a].signed

(* The outcome names the prepared transaction, so it needs one.             *)
CanPersistOutcome(a, lease) ==
  Holds(a, lease) /\ Open(a) /\ attempt[a].signed

PersistAttemptBroadcastOutcome(a, lease) ==
  /\ CanPersistOutcome(a, lease)
  /\ attempt' = [attempt EXCEPT ![a] =
       Renewed(@, IF Simulated(a) THEN "prepared" ELSE "broadcasting")]
  /\ UNCHANGED << remaining, account >>

(* Rolling back again reports success and writes nothing.                   *)
AlreadyRolledBack(a) == attempt[a].status = "rolled_back"

(* Mutant: rolling back again restores another use.                         *)
CanRollbackTwice(a, lease) ==
  /\ AlreadyRolledBack(a) \/ (Holds(a, lease) /\ Open(a))
  /\ remaining[Intent[a].ticket] < TotalUses[Intent[a].ticket]

(* A use goes back to its ticket at most up to the ticket's total.          *)
CanRollback(a, lease) ==
  /\ Holds(a, lease)
  /\ Open(a)
  /\ remaining[Intent[a].ticket] < TotalUses[Intent[a].ticket]

(* Mutant: the use is restored before the attempt is marked, and only that. *)
RestoreOnly(a, lease) ==
  /\ CanRollback(a, lease)
  /\ remaining' = [remaining EXCEPT ![Intent[a].ticket] = @ + 1]
  /\ UNCHANGED << attempt, account >>

RollbackTicketReservation(a, lease) ==
  /\ CanRollback(a, lease)
  /\ attempt' = [attempt EXCEPT ![a] = Freed(@, "rolled_back")]
  /\ remaining' = [remaining EXCEPT ![Intent[a].ticket] = @ + 1]
  /\ UNCHANGED account

BlockchainStatus(a, hiveMatched) ==
  IF hiveMatched THEN "confirmed"
  ELSE IF Simulated(a) THEN "simulated" ELSE "broadcasted"

(* Mutant: Accounts.username is not unique, the last insert wins.           *)
CanCompleteAgain(a, lease) == Holds(a, lease) /\ Open(a)

(* Completion closes the attempt and inserts the account; Accounts.username *)
(* is unique, so an account of another attempt aborts all of it.            *)
CanComplete(a, lease) ==
  /\ Holds(a, lease)
  /\ Open(a)
  /\ account[Intent[a].user] = NoAccount

CompleteAccountCreation(a, lease, hiveMatched) ==
  /\ CanComplete(a, lease)
  /\ attempt' = [attempt EXCEPT ![a] = Freed(@, "completed")]
  /\ account' = [account EXCEPT ![Intent[a].user] =
                   [by |-> a, status |-> BlockchainStatus(a, hiveMatched)]]
  /\ UNCHANGED remaining

(* Completing again succeeds only against the account this attempt made.    *)
AlreadyCompleted(a, hiveMatched) ==
  /\ attempt[a].status = "completed"
  /\ LET row == account[Intent[a].user] IN
       /\ row # NoAccount
       /\ row.by = a
       /\ \/ row.status = BlockchainStatus(a, hiveMatched)
          \/ hiveMatched /\ row.status \in {"broadcasted", "confirmed"}

CanConfirm(a) ==
  /\ attempt[a].status = "completed"
  /\ ~Simulated(a)
  /\ account[Intent[a].user] # NoAccount
  /\ account[Intent[a].user].by = a
  /\ account[Intent[a].user].status \in {"broadcasted", "confirmed"}

ConfirmCompletedAttemptAccount(a) ==
  /\ CanConfirm(a)
  /\ account' = [account EXCEPT ![Intent[a].user].status = "confirmed"]
  /\ UNCHANGED << attempt, remaining >>
==============================================================================
