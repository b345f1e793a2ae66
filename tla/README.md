# Verification of HiveTicket account creation

TLA+ models, TLC configurations and TLAPS proofs for the server that creates
Hive accounts from tickets. The repository is under `src/`; a path such as
`account.ts:178` below means `src/src/pages/api/create/account.ts`, line 178.

1. [The system](#1-the-system)
2. [Plan](#2-plan)
3. [Modules and how they correspond to the code](#3-modules-and-how-they-correspond-to-the-code)
4. [Runs](#4-runs)
5. [Bounds, fairness and timing assumptions](#5-bounds-fairness-and-timing-assumptions)
6. [What disagrees with the code](#6-what-disagrees-with-the-code)
7. [Proofs](#7-proofs)
8. [What is not modelled](#8-what-is-not-modelled)

## 1. The system

A builder holds *credits* and turns them into *tickets*. A ticket has a number
of uses. A visitor who has a ticket chooses a Hive account name; the server
reserves a use, signs and broadcasts a `create_claimed_account` transaction,
and records the account. Everything the server knows is in one libSQL database,
reached through a process-wide operation queue; several instances of the
application, an operator's script and a background cycle work on it at once.
What happened on chain is known only through Hive's API nodes, which lag, forget
and time out.

| Component (source) | State it keeps | Operations | Interacts with |
|---|---|---|---|
| Creation attempts (`lib/creation-attempts.ts`) | `CreationAttempts`: status `reserved → prepared → broadcasting → completed / rolled_back`, version, lease token, generation, expiry, transaction id and expiration | insert, claim, release, prepare, mark broadcasting, record outcome, complete, roll back | handler, reconcilers |
| Ticket reservation (`utils/db-ticket-validator.ts`) | `Tickets.remaining_uses`, `Accounts` | reserve, roll back, complete, record a matched account, confirm | creation attempts, in the same transactions |
| Handler (`pages/api/create/account.ts`, `lib/recover-owned-account.ts`) | per request: its lease and its snapshots; per instance: the names in progress | session check, preflight, name lock, reclaim of an older attempt, reserve, claim, create, complete | all of the above, Hive, RC queue |
| Reconciler (`lib/creation-reconciler.ts`, `lib/confirm-broadcasted.ts`) | a lease while it runs | claim, re-read, look the transaction up, complete / confirm / roll back / release | creation attempts, Hive |
| Evidence (`lib/creation-evidence.ts`) | none | which conclusion an answer of Hive allows | reconciler, handler |
| Transactions (`lib/hive-transaction-service.ts`, `lib/create/create-account.ts`, `lib/hive-broadcaster.ts`) | none | build, sign, call back, broadcast | handler, RC delegation |
| RC delegation (`lib/create/queue-rc-delegation.ts`, `delegate-rc.ts`) | `Accounts.rc_status` and its lease | claim, delegate, mark, release, recover, look up | background cycle, handler, Hive |
| Reconciliation queue (`db-ticket-validator.ts`, `lib/auto-reconciler.ts`, `scripts/reconcile-pending.ts`) | `PendingReconciliations`: status, attempts, lease, next attempt | enqueue, claim, resolve, fail, send to review, recheck | handler, reconciler |
| Credits (`lib/credits/*`, `lib/admin-mutations.ts`) | balances, revisions, claim intents, `CreditAudit` rows, receipts | grant, adjust by form, open and complete a claim, pay, refund, consume | tickets, Hive |
| Tickets (`lib/tickets/archive-ticket.ts`, `lib/repositories/tickets-repository.ts`, `pages/api/builders/tickets/*`) | tickets, their uses and archive state | create, change uses, revoke, archive and refund | credits, reservations |
| Pages (`components/Form.astro`, `AccountDetails.astro`, `pages/details`, `pages/success`, `lib/form`, `lib/details`) | per tab: name, ticket, key set, what was saved and confirmed | submit, generate keys, download, confirm, create, give up | session, keys-hash and account endpoints |
| Creation cookie (`lib/session-cookies.ts`, `pages/api/create/session.ts`, `keys-hash.ts`) | one signed record per browser; the server keeps no copy | derive a new record from the request's | pages, handler |
| Invitations (`lib/invite/*`) | grants, campaign limits | issue, ask whose a ticket is | tickets, session, handler |
| Builder authentication (`lib/auth/*`) | challenges, blocked accounts | issue, consume, verify, block | credits, reservations |
| Database access (`lib/database.ts`) | per process: a chain of promises, and the transaction of each asynchronous context | execute, read snapshot, transaction, nested ones, retry of a lock | everything |
| Proof of work, rate limits (`lib/pow.ts`, `lib/*rate-limiter*.ts`) | in-memory stores with eviction | issue, verify once, count | handler |

What is hard here, and what each part must keep:

* **Interleaving.** Every `await` of a handler is a point where another
  handler, another instance, the background cycle or the operator's script may
  act on the same row. Only the lease predicate of the `UPDATE`s decides whose
  write counts. *One lease holder per attempt; a decision is final; uses are
  conserved.*
* **Crash and stall.** A process may die, or stop for longer than its lease,
  between any two statements, in particular between the mark `broadcasting`,
  the broadcast and its outcome. *Nothing reaches the network that is not
  recorded as being broadcast; every open attempt is decided in the end.*
* **Unreliable answers.** A broadcast may throw although it was received; a
  status lookup may lag, be forgotten or concern a block that is forked out.
  *A use is never given back for an account that Hive creates; an account is
  confirmed only when it is irreversible.*
* **Repeated requests.** A client repeats its request, perhaps on another instance, while
  the first is still at work. *At most one open attempt per name; one account
  row per name, made by its own attempt.*
* **RC delegation** must not be broadcast twice, must not be recorded without a
  reason, and must not be forgotten.
* **Retries** end: an entry of the reconciliation queue that exhausted its
  budget stays with the operator, and none is forgotten.
* **Ledgers.** A builder's credits pass through pending, available, tickets and
  accounts in transactions that meet in any order, while an administrator
  overwrites balances and Hive may still fork a claim out. *Credits are neither
  lost nor granted twice; no archive takes a use from an open attempt; a stale
  form is refused, a repeated one is recognised.*
* **Access to the database.** Within a process operations wait for each other in a
  chain of promises, nested ones join the one they are made in, and other processes
  know nothing of the chain. *Each isolated statement, snapshot and transaction is
  one step on the store; nobody waits for himself.*
* **State carried by the browser.** The creation cookie is derived from whichever
  request brought it and replaced by whichever answer arrives last, in tabs that
  share it; keys exist in one page only and die with it. *No account gets keys
  that nobody saved, a ticket that was not entered with its name, or somebody
  else's invitation; a page is told "created" only of its own keys.*

`PROJECT.json` lists each hazard at its line with the properties that cover it,
or the reason why none does.

## 2. Plan

In order of importance.

1. **Account creation**: `CreationIntents`, `HiveChain`, `CreationAttempts`,
   `AccountCreation`, with the abstract specification `TicketUse`. Type
   correctness, the lease and account invariants, the use ledger and the
   refinement proved; liveness checked.
2. **RC delegation**: `RcDelegation`. Type correctness and safety proved,
   liveness checked.
3. **Reconciliation queue**: `ReconciliationQueue`. The retry budget and the
   rules of manual review proved, liveness checked.
4. **Ledger of credits**: `CreditBalances`, `CreditClaims`, `CreditAdjustments`,
   `BuilderTickets`, composed in `CreditLedger`, with the abstract specification
   `CreditFlow`. Conservation and the refinement proved.
5. **The visitor's way**: `CreationSession`, `Invitations`, composed with the
   pages in `CreationJourney`. All safety properties proved.
6. **Access to the database**: `DatabaseAccess`, with the abstract specification
   `AtomicStore`, which is what modules 1 to 5 take for granted when they make a
   transaction one action. All safety properties and the refinement proved,
   liveness checked.

All six are done. What could follow:

* in `AccountCreation` and `ReconciliationQueue`, a transaction that takes effect and
  whose process goes on as if it had failed. `AtomicStore` allows it (a lost answer to
  a commit); there, a process that gets no answer is one that crashes;
* that the behaviours excluded by `PromptClaim` (section 5) are the only ones in
  which `ExecutedIsNeverRestored` fails;
* `CreationJourney` with the steps of `AccountCreation` in place of its account
  endpoint. Both together are beyond what can be checked exhaustively: it would be
  a refinement proved by hand.

## 3. Modules and how they correspond to the code

`PROJECT.json` "map" gives the source lines of every definition. An action is
one SQL statement or transaction, or one call to Hive, together with the
synchronous code around it; `await`s are where actions end.

**CreationIntents** - what requests ask for. An attempt is a correlation id: it
stands for the request, its `CreationAttempts` row and its transaction. An id is the
name and the time in milliseconds (`account.ts:1196`), and the column is UNIQUE: of two
requests for one name in one millisecond the second cannot insert its row. `SameIdentity` and `SameMode` are the comparisons a retry
makes; `Rivals` are the other attempts for one name.

**HiveChain** - external chain, and the evidence the code derives from it. Per
attempt `hive[a].tx` says where its transaction is (unsent, sent, in a
reversible or irreversible block) and `hive[a].clock` which blocks have passed
its expiration (none while unsigned, valid, expired for the head block, final
for the irreversible block). `StatusAnswers` is what `find_transaction` may
answer in that state, `EvidenceKinds` what `creation-evidence.ts` makes of it.
The comparison of the operation's fields and of the local clock is the outcome
`review`. `Forget` makes an attempt one about which nobody will ever learn anything:
the nodes answer `too_old` or unknown for good, or show an operation that does not
match. A lookup then ends undecided each time, and the attempt is left open
(`creation-evidence.ts:200`, `creation-reconciler.ts:220`).

**CreationAttempts** - the tables. `attempt[a]` is the row (status, version,
generation, leased, aged, signed), `remaining[t]` is `Tickets.remaining_uses`,
`account[u]` the `Accounts` row with the attempt that made it. For an operation
`X` whose `UPDATE` can match no row, `CanX` is the condition of that `UPDATE`;
where it is false the code returns a failure and nothing changes. `Holds` is the
lease predicate of every fenced write. The random lease token is as fresh as the
generation, so the generation stands for both. The lease duration and
`ATTEMPT_STALE_MS` are both two minutes after `updated_at`: one flag, `aged`,
is both "the lease has expired" and "the row is stale".

**AccountCreation** - the processes. `proc[p]` is where a handler or reconciler
is, the attempt it works on, the lease it remembers and whether the snapshot it
read was signed; `creationsInProgress` is the name lock of `account.ts:136`,
which is per instance. Handler actions carry the names of the functions they
model, in the order of `POST`; `Reclaim...` is the retry path
(`account.ts:160-330`); `Reconcile...` and `rc...` states are
`reconcileCreationAttempt`, which handlers run with the lease they have and
everybody else with one it claims. `Crash` loses a process's memory,
`StorageFails` is a statement that throws where the code catches it, `TimePasses`
ages a row, `HiveForgets` loses an attempt's evidence. Where the code reads a row, returns and reads it again before it
acts (recovery of a reserved retry, reclaim of a broadcasting attempt), the
reads are merged into the last one, on which the code decides.

**TicketUse** - what all of this promises, in 30 lines of actions: a use is
held, then spent or given back; given back only if Hive has not executed the
request and, since `Execute` needs a held or spent use, never will; settled only
when executed for good. `AccountCreation!ImplementsTicketUse` is the refinement,
with `use` computed from the attempt and its account, and `executed` from the
block that holds the transaction.

**RcDelegation** - the RC columns of `Accounts` as a small work queue: `rc[a]`
(status, generation, expiry), `worker[w]` (what it does next under which
generation), Hive's delegation for the account, and three history variables:
`broadcasts` counts the delegations begun per account, `backed` has the accounts for
which one was accepted or seen, `unrecorded` those for which recording it threw.
`refusing` are the accounts whose delegation fails before the broadcast whenever it is
tried: their rows go from pending to processing and back without end. `ahead[a]` are
the rows before `a` in the list of uncertain rows, which is ordered by
`rc_updated_at` and id and cut after `BatchSize` rows
(`queue-rc-delegation.ts:288`): a row enters it behind the others, but among those of
the same second by its id, and keeps its place until it is resolved, however often it
is looked up. Several delegates of one background cycle, or of
the handler that calls `maybeQueueRcDelegation` without waiting, are workers.
The list of pending rows and the claim that follows are merged into the guarded
claim (the claim repeats the list's conditions); that list has the same limit, but
every row taken from it gets a new `rc_updated_at` and goes to its end. Simulated delegations write
nothing, and `removeDelegation` and `renewCreationAttemptLease` have no callers:
they are left out.

**ReconciliationQueue** - the queue of ambiguous creations. `queue[e]` is the row
(status, claims, due, expired), `worker[w]` what a background cycle or a run of
the operator's script does with which entry under which claim. `attempt_count`,
`lease_generation` and the token change in the two claims and nowhere else, always
together: `claims` stands for all three. `decided` are the attempts that are
completed or rolled back; that this is final is `DecisionsAreFinal` of
`AccountCreation`, of which `ReconcileCreationAttempt` here is one step with three
results. `tries` and `reviewed` are history. The list a consumer reads is merged
into its claims, which repeat the list's conditions; the size of a batch, the
minimum age of an entry and dry runs only delay or do nothing. `stopped` are
cycles whose timer was cleared on a signal.

**CreditBalances** - `Credits` and `CreditAudit`, and the seven operations of
`credits/core.ts`, each one transaction: a row of balances with its revision, and
`audit`, per builder and operation the sum of the journal's rows, which is all that
the consistency checks read of it. `ExpectedAvailable`, `ExpectedIssued` and the
others are what `credit-balance-tracker.ts` and `database-diagnostics.ts` compute
from the journal.

**CreditClaims** - claim intents and the operation on Hive by which the builder
claims: `intents[n]` is the row, `chain[n]` the operation (absent, reversible,
irreversible). `overlapped` is history: another claim of the builder was completed
while this intent lived. An amount is pending once and may be named by two
intents; `Complete` deletes the intent it used. A call takes its `now` before it waits
for its transaction (`claim-service.ts:131`): `IntentExpires` is the moment from which
no call still to come, nor one that waits, is in time.

**CreditAdjustments** - the administrator's balance form: `commands[f]` is what was
sent, with the balances and the revision the form was opened with, `receipts` the
idempotency receipts, `answers` what the page was last told. A form may be sent
again at any time, also after later operations.

**BuilderTickets** - tickets, `purchases` (a purchase validates the balance before
the transaction that spends it, so two steps), `attempts` as far as the ledger is
concerned, and `references`, the sums of the journal per ticket.

**CreditLedger** composes the four, every operation one transaction
(`withTransaction`), and states what the program's own diagnosis looks for.
`GrantAvailableCredits` is exported and tested but called by no endpoint; it is
modelled as possible. The comments of tickets, lists, notifications and refusals
that change nothing are left out, and so are adapters that only translate errors.

**CreditFlow** - the promise: credits are pending, available, held by a ticket or
consumed, and each step moves a number of them from one place to the next or back.
Only the administrator makes or destroys credits, and `flow` carries the books that
say how many: `issued`, and what the forms added to or took from each balance
(`adjustedPending`, `adjustedAvailable`). A grant adds to `issued` what it adds to a
balance; the form may set the two balances to any value, and books the difference of
each; every other step leaves the books alone. So a claim or a purchase that made or
lost a credit would be no step of `CreditFlow`. `CreditLedger!Flow` computes what is
held as a sum over the builder's tickets, of uses unused and uses taken by open
attempts, and takes the books from `Credits.issued` and the journal.

**CreationSession** - the creation cookie as a record, and what each endpoint makes
of the one it was sent. The two hashes are injective as far as the code compares
them, so they are the key set and the intent.

**Invitations** - `grants`, whose each invitation code is. The identity a request
comes with, or that it comes with none, is chosen freely per call, since a person
signs in and out at will in the provider's own pages. It is read for an invitation
only (`SignedIn`).

**CreationJourney** - `tabs[b]` is the page of a tab (form, details that are being
opened, details, on the way to success, success) with its name, ticket, keys and
what it believes was saved and confirmed; `jar` the cookie, which all tabs share;
`calls[c]` a request in flight with the cookie it was sent with, how far the server
is with it, or its answer. The answer of `keys-hash` is a function of the
request (`HasAnswer`, `Succeeds`), so that endpoint needs no step. A page is left in
two ways. A reload ends the calls of the document (`Abandoned`, `NoBrowser`: the server
may go on with an account, and its answer reaches nobody). A navigation within the site
replaces the page through `ClientRouter` and leaves its calls alone (`LeftBehind`,
`NoTab`): `keys-hash` and `account` are asked without an `AbortSignal`
(`download-handler.ts:44`, `account-submit.ts:108`), so that their answer still sets
the cookie although no page waits for it. A page waits for one call at a time: its
buttons and `keyConfirmationPromise` see to it. What the account endpoint does with
Hive, leases and crashes is in `AccountCreation`; here a request opens an attempt
and then completes it, rolls it back, leaves it, or finds that the reconciler was
faster. `born`, `backups` and `entered` are history: what the person did; `paidBy` is,
per invitation, who was signed in where its use was reserved.

Left out of it: execution mode, which is configuration; sessions without a
ticket, which cannot confirm keys; proof of work, timing tokens and rate limits,
which refuse calls as a lost one is refused; the page's own checks of name and
ticket, which the server repeats; a read that fails after the account was recorded
and the cookie finished, so that the answer is an error which carries the new cookie
(`account.ts:1074`).

Two things this model shows of the pages, both harmless to its properties. A page
keeps `keysConfirmedOnServer` when its cookie has expired or another tab has
replaced it: its account request is then refused until it is reloaded. And a
request whose own earlier call is still open may be told that the name is taken.

**AtomicStore** - what access to the database promises: a unit of work takes effect at
one moment, on the store as it is then, and wholly; it is answered with a result only
after that. One that is answered with an error may have taken effect, but then wholly:
the answer to a commit may be lost.

**DatabaseAccess** - how `database.ts` keeps that promise. A call is one use of
`execute`, `withReadSnapshot` or `withTransaction`, and constants say in which process
and in which callback it is made, to any depth. `chain[p]` is the promises of
`databaseOperationQueue`, oldest first; `state[c]` how far a call is: `queued` behind
the previous one, `opening` (the statement or `BEGIN`, tried again while it finds the
database locked), `open`, `joined` for a nested call that runs in the transaction of
its context, `applied` when the database has done it and has not answered, `undoing`,
and `returned`, `thrown`, or `lost` with its process. `view` is the store a transaction
works on and `written` what it wrote. `saw` and `applied` are history.
A nested call has no step at the database of its own: `Join` and `Leave` only run the
callback. `Crash` empties a process's chain; the database rolls back what it had open.
The reads and writes of statements are abstracted to the statements themselves: the
store is the set of those that wrote.

Two things in it are not in `database.ts`. The database is external: a transaction
begun in write mode excludes other writers, reads see the store as of `BEGIN` (SQLite
fixes a snapshot at its first read, which nothing in the code tells apart), a commit is
atomic. And callbacks keep no error to themselves (`Running`): each place in a
transaction that catches one of a statement or nested call throws again
(`db-ticket-validator.ts:877`, `admin-mutations.ts:364`), and none makes two calls at
once. `NestedFailureUndoesAll` shows what depends on it.

**MCAccountCreation, MCRcDelegation, MCCreditLedger, MCCreationJourney,
MCDatabaseAccess** instantiate these for TLC. **AccountCreationInvariant** states the inductive
invariant in named parts; **AccountCreationTyping**, **AccountCreationProofs**,
**RcDelegationProofs**, **ReconciliationQueueProofs**, **CreditLedgerProofs**,
**CreditFlowProofs**, **CreationJourneyProofs** and **DatabaseAccessProofs** hold the
proofs.

Definitions commented as *mutants* are wrong versions of the definition below
them, used to show that each property can fail; nothing else refers to them.

## 4. Runs

| Run | Instance | Properties | What it shows |
|---|---|---|---|
| `AccountCreation` | two broadcasting requests of one client for one name, on two instances, one reconciler, a ticket of two uses, two setbacks, losses of evidence among them (2.8 million states) | `TicketUsesConserved`, `ExecutedIsNeverRestored`, `SingleLeaseHolder`, `ConfirmedIsIrreversible`, `CompletedHasAccount`, `BroadcastIsRecorded`, `DecisionsAreFinal`, `ImplementsTicketUse` | retries, double clicks, reclaiming, crashes and stalls at any step keep the ledger, the leases and the accounts right, under `PromptClaim` |
| `Recovery` | a broadcast and a simulation of one name with the only use of a ticket, one fair reconciler, two setbacks, losses of evidence among them (0.3 million states) | `TypeOK`, `EveryAttemptDecided` | a ticket is not overdrawn, simulations are undone, and whatever dies, every reserved use is spent or given back in the end, unless the name's account belongs to another attempt or the nodes have lost what would decide |
| `StalledClaim` | as `AccountCreation`, without `PromptClaim` | `ExecutedIsNeverRestored` is violated | finding 1 |
| `TwoBroadcasts` | as `AccountCreation`, no setbacks | `ExecutedNameIsItsOwn` is violated | finding 2 |
| `RcDelegation` | two fair workers, two accounts, lists of one row, two setbacks, recording may throw (0.2 million states) | `NoBlindSecondBroadcast`, `DelegatedIsBacked`, `EveryDelegationSettles`, `UncertainIsResolved` | RC is broadcast at most once, unless recording an accepted delegation threw; it is recorded as delegated only with a reason; nothing stays pending or processing for ever unless its delegation is refused for good; an uncertain row is resolved when Hive keeps showing the delegation, unless it stands behind a full list of rows whose delegation Hive does not keep showing |
| `RcRecordFails` | as `RcDelegation`, one account | `BroadcastAtMostOnce` is violated | finding 3 |
| `ReconciliationQueue` | two background cycles, one run of the script at a time, one entry, a budget of two attempts, two rechecks, three setbacks (66 thousand states) | `RetryBudget`, `ReviewedIsNotRequeued`, `ReviewNeedsOperator`, `ResolvedIsDecided`, `EveryEntrySettles` | takeovers do not exceed the budget, nobody's late write and no dead recheck returns a reviewed entry to the retries, and every entry is resolved or put before an operator |
| `CreditClaims` | one builder, two claim intents, one form that may be repeated, four operations on the balances (1.8 million states) | `LedgerTypeOK`, `IntentsStayCovered`, `ClaimsAreBacked`, `AdjustsWhatItRead`, `AppliedIsNeverRefused` | credits become available only against an irreversible operation and once per operation; a live intent stays covered; the form overwrites what it was opened with and nothing else, and a repeated one is recognised |
| `CreditTickets` | one builder, a claim intent, a form, a purchase, a ticket of the builder or the administrator, two attempts, five operations (0.8 million states) | `CreditDiagnosisIsClean`, `TicketUsesAccounted`, `OpenAttemptsCanBeRolledBack`, `CreditsAreConserved`, `ImplementsCreditFlow` | whatever order grants, claims, forms, purchases, changes of uses, archives, reservations, rollbacks and completions come in, balances, journal, tickets and accounts agree, every credit is in one place, and only grants and forms make or destroy any, as many as they book |
| `CreationAudit` | two tickets, two purchases, two attempts, six operations, no intent and no form | `CreationAuditMatchesTicket` is violated | finding 4 |
| `CreationJourney` | two tabs of one browser, two calls in flight, two names, an ordinary ticket and two invitation codes, two identities, three key sets, two entries, one setback (2 million states) | `KeysWereSaved`, `TicketWasEntered`, `CreatedIsTrue`, `SuccessIsTrue`, `InvitesAreSpentByTheirOwner`, `OneAccountPerInvitee` | whatever order requests, answers, sign-ins and cookies arrive in, accounts get saved keys, entered tickets and their owner's invitation, and pages are told the truth |
| `DatabaseAccess` | one process: a write transaction with another nested in it, and a read snapshot with two reads and a transaction wrongly nested in it; another process: an isolated write; one retry (0.1 million states) | `AllOrNothing`, `NestedFailureUndoesAll`, `SnapshotIsCoherent`, `ImplementsAtomicStore`, `EveryCallSettles` | whatever is locked, refused, thrown at any depth, lost or killed: transactions are whole, the reads of a snapshot see one store although the other process commits between them, nothing waits for ever, and each call is one step of `AtomicStore` |

The type invariants of RC delegation, the queue, the journey and the database access,
and `FirstCalledFirstServed` and `WritersAreSerial` of the latter, are proved for every
instance (section 7) and are in no run.

Deadlock is not checked: requests end, when every row is decided nothing is
left to do, the ledger stops at the bound of its operations, the calls of
`DatabaseAccess` are made once each, and a visitor may
stop, or run out of key sets. What must not stop is stated as liveness.

## 5. Bounds, fairness and timing assumptions

**Bounds.**

* `MaxSetbacks` limits, together, crashes, failing statements, stalls of a lease
  holder, losses of an attempt's evidence, and undecided lookups of open attempts whose
  evidence is there; for RC also refusals that pass, errors of recording, forks and
  changes by hand. That an attempt is forgotten, or that Hive refuses a delegation for
  good, is one setback: what follows, a lookup without a decision or a refusal at each
  try, is without limit. Two are what the longest takeover needs: one process stalls,
  the one that takes over dies or stalls too, and the rest runs normally. The queue's
  run allows three. Ageing of a row nobody holds is not a setback, so abandoned rows
  can be taken over freely.
* `MaxGeneration` limits the claims of a row: 3 in the safety runs, the owner and
  two takeovers. In the liveness runs a claim refused by the bound would be a
  row taken up no more. 7 in `Recovery` and 3 in `RcDelegation` are what their setbacks
  can lead to where a row is to be decided; only a row that is exempt, forgotten by the
  nodes or refused for good, is claimed until the bound ends it.
* `Recovery` has one reconciler, so that a lease it abandons is taken up by itself or
  by a handler; reconcilers that compete are the workers of `ReconciliationQueue`, and
  the proofs of safety are for any number.
* Two requests suffice for the conflicts of a name: the unique index on open names
  leaves a third one nothing but the refusals the second meets.
* In `ReconciliationQueue` the budget is two attempts instead of ten: one claim
  that is followed by a retry, one that is the last, and the takeovers beyond.
  Entries do not interact, so one suffices. The claims need no bound of their own:
  beyond the budget only rechecks (`MaxReviews`) and setbacks add to them.
* In `RcDelegation` two accounts, which share the workers and the list of uncertain
  rows. `BatchSize` is one instead of fifty: a row inside the list and one behind it.
  The proofs cover any numbers.
* `MaxRevision` limits the operations on one builder's balances (4, 5 and 6): grant,
  claim, adjust and repeat; grant, claim, pay, adjust and archive; or grant, pay,
  change, archive, with two left to interfere. `MaxUses` is 2, so that a ticket can be
  used in part. `MaxAmount`, the credits of one grant, is 2 in `CreditClaims`, so that
  halves and overlaps of two claims exist; in `CreditTickets` it is 1, and two
  grants make the 2. One builder: no operation touches two.
* `MaxEntries` is the number of pairs of a name and a ticket that are submitted: two
  are needed for cookies to be confused. `MaxSetbacks` is one reload, navigation, lost
  message or expiry: the retry after it, and what the first call still does, are the case of
  interest. Two calls in flight are one per tab, or a page's retry beside the
  request it gave up. Two identities are an invitation's owner and somebody else, who
  has an invitation of his own or none.

* In `DatabaseAccess` a call is made once: a second execution of the same code is
  another call. `MaxRetries` is one instead of three: a try that succeeds after a
  lock, and one that gives up; the count belongs to the loop of one call and ends with
  it. Two processes and one level of nesting are the cases
  `database.ts` tells apart; the proofs are for any depth.

Symmetry sets contain model values that are only compared; no run with symmetry
checks liveness. The refinement in `CreditTickets` is a safety property.

The theorems of section 7 hold for all values of these constants.

**Fairness** (`FairSpec`). A handler or reconciler that has begun goes on (weak
fairness of its next step; the runtime schedules a resumed promise). Reconcilers
keep taking up open attempts (strong fairness of `StartReconcile` per attempt):
`auto-reconciler.ts:285` runs the cycle on an interval and each cycle lists all
stale attempts, oldest first and without a limit. Strong, because an attempt leaves and
re-enters the list as its lease changes hands. Time passes, the expiration comes, the
last irreversible block advances. Requests need not come, blocks need not include
anything, forks are not excluded but do not go on for ever.

Of Hive's nodes it is assumed that, for an attempt they have not lost (`forgotten`),
lookups end undecided only finitely often: a node that lags, is unavailable or
contradicts the local clock stops doing so. This is what the limit on undecided lookups
says. `EveryAttemptDecided` excepts the attempts that are lost: `too_old`, a
mismatch that stays, an `unknown` that stays. The code releases their lease, lists
them again in the next cycle, and leaves them open for ever, as its tests expect
(`creation-evidence.test.ts:119`, `reconciliation-state.test.ts:170`): their use stays
held until an operator acts.

For RC the cycle recovers, claims and looks up again and again. A row is claimed and
refused without end if its delegation is refused for good (a delegator without RC, say):
`EveryDelegationSettles` excepts it, so what it says of the others assumes that
refusals end. A row is taken up when it is listed (`TakeUp`); that it always comes to be
listed is not assumed, and not so: rows whose lookup decides nothing keep their place at
the head of the list, and with a full list of them (fifty, `constants.ts:157`) those
behind are never looked up again. `UncertainIsResolved` says exactly this, and is
conditional on Hive showing the delegation from some point on. Of Hive it is assumed
that among lookups of a row repeated for ever one is answered by a node that is up to
date (strong fairness of `LookupUncertain` per account, against `LookupFails`).
For the queue the timer launches cycle after cycle, a cycle claims what
is due (strong fairness per entry, since entries become due, claimed and due
again), and leases and delays end; operators need not come, and an instance may be
shut down at any time, as long as one is not.

For access to the database (`FairSpec` of `DatabaseAccess`): the database answers every
request, with a result or an error, a callback that awaits nothing comes to an end, and
a promise whose predecessor is resolved goes on. That a call is made is not assumed.

**PromptClaim.** A handler does not stall for two minutes between the
transaction that reserves its use and the claim that follows it
(`account.ts`, `reserveTicketCredit` then `claimCreationAttempt`: two consecutive
statements). Finding 1 shows what happens otherwise. The results that need it
say so; `TypeOK`, `SingleLeaseHolder`, `ConfirmedIsIrreversible`,
`CompletedHasAccount`, `DecisionsAreFinal` and `TicketUsesConserved` do not.

**No liveness in the ledger and the journey.** Nothing obliges a builder, an
administrator or a visitor to act, and the code promises a page nothing but an
answer; that open attempts are decided is `EveryAttemptDecided`.

## 6. What disagrees with the code

Four places in which the code does other than a comment, a test or its own diagnosis
says. That an attempt whose evidence is lost stays open, and that a full list of
unresolved rows hides those behind it, contradicts nothing that is written there: both
are stated with the properties they limit (section 5, fairness).

1. **A retry may give back a use whose account is being created** (`StalledClaim`).
   `account.ts:178` reads an older attempt, `:198` rolls it back on that read
   after claiming it, and does not read it again under the claim, as the
   reconciler does (`creation-reconciler.ts:167`). If the older handler stalls
   between its reservation and its claim, and the retry stalls until the older
   one has broadcast and its lease has run out, the use is restored although Hive
   executes the transaction. `account.ts:764`: "account MIGHT have been created,
   do NOT rollback". Two stalls of two minutes are needed: rare, and a re-read
   under the claim removes it.
2. **Two instances may broadcast for one name, and the reconciler cannot set it
   right** (`TwoBroadcasts`). The existing-account check (`account.ts:503`)
   precedes the lock and is not repeated; once the first attempt is completed
   the unique index on open names no longer bars a second. If Hive executes the
   second transaction, `Accounts.username` stays with the first, whose
   transaction never executes, and the second attempt stays open for ever
   (`EveryAttemptDecided` excepts it, by `NameTaken`). `account.ts:133`: "The
   reconciler handles that case safely."
3. **A delegation whose recording throws is broadcast again** (`RcRecordFails`).
   `queue-rc-delegation.ts:124` awaits `markRcDelegated` inside the `try` of the
   delegation; if it throws, the `catch` takes it for a failure before the
   broadcast and releases the row as pending. The test at
   `queue-rc-delegation.test.ts:242` asks for no "blind second broadcast".
4. **The diagnosis reports consistent databases** (`CreationAudit`).
   `database-diagnostics.ts:311` requires that the journal row of a ticket's creation
   has the amount of its total uses; `updateOwnedUses` changes the total afterwards
   and writes a journal row of its own. Every legal change of uses is then reported
   as critical.

## 7. Proofs

Every theorem is for all values of the constants that satisfy the named
assumptions: any number of requests (finitely many, for the ledger),
reconcilers, instances, names, tickets, workers, setbacks and claims.

**AccountCreation.** `BaseInv` (module `AccountCreationInvariant`) is inductive
without any timing assumption:

* `TypeInv`: types, and which step remembers a lease about which attempt;
* `RowsOK`: a reserved row is unsigned, a signed one has an expiration, a leased
  one a generation;
* `LeasesOK`: nobody remembers a lease from the future, and no two processes the
  same generation of one row. `SingleLeaseHolder` follows, since the lease
  predicate compares generations;
* `SentOK`: only a row past `prepared` can have sent its transaction, a
  simulation never does;
* `EvidenceOK`: what a process has read from Hive is irreversible, so it is still
  true when the process acts on it;
* `AccountsOK`: completed attempts and accounts correspond, and a confirmed
  account's transaction is irreversible.

The proof first tabulates what each action does to rows, accounts, chain and
processes (`RowSteps`, `AccountSteps`, `ChainGrows`, `NextMoves`) and then shows
each part kept from those tables (`RowsKept`, `LeasesKept`, ...), so that no
part needs all of `Next` again. Results: `TypeInvariant`, `BaseInvariant`,
`LeaseHolderUnique`, `ConfirmationIsFinal`, `CompletionMatchesAccount` and the
action property `DecisionsStay`.

Under `PromptClaim`, `PromptInv` is inductive relative to `BaseInv`:
`RolledBackOK` (a use given back belongs to a transaction that never executes or
that no handler is about to send), `RollbacksOK` (what a process remembers when
it is about to roll back still holds: its handler is `Abandoned`, or nobody
wrote the row while the process held its lease) and `ClaimsOK`. It is needed
because `ExecutedIsNeverRestored` speaks of the present, while the decision to
roll back is taken from a past read. Results: `ExecutedUseIsSpent`,
`SentIsRecorded`.

`UsesAreConserved` is proved by counting: a step that
changes the status of one attempt changes `remaining` by what the cardinalities
of the attempt sets change by (`FiniteSetTheorems`). `UsesImplementPromise` is
the refinement: initial states map to initial states, and each step maps to a
step of `TicketUse` or a stutter, by cases on what happens to one attempt's use.

**RcDelegation.** The invariant is typing plus: of the workers past a claim, one
at most works on an account, and its row is not pending; a row says delegated only
if `backed`, and so is the account of every worker about to say so; and, except for
accounts in `unrecorded`, neither a pending row nor the row of a worker about to
broadcast or to release it has been broadcast. It holds for lists of any length and
order, refusals for good among the steps. Results:
`RcTypeInvariant`, `DelegatedHasBacking`, `BroadcastOnce`.

**ReconciliationQueue.** Review comes after the last automatic claim and the
count of claims never falls: `ReviewOK` says that a reviewed entry's count is at
least the budget, `WorkersOK` that so is the claim of whoever is about to release
it, and `TriesOK` that a claim allows at most one automatic reconciliation.
Results: `QueueTypeInvariant`, `BudgetHolds`, `ReviewedStays`,
`ResolutionIsFounded` and the action property `ReviewIsTheOperators`.

**Credits.** `CreditLedgerProofs` first proves what each of the seven transactions
does to a builder's balances and journal (`GrantPendingEffect` to `AdjustEffect`),
and from these that they keep a balance *explained* by the journal (`StepBooks`).
`RevisionsTell` - the same revision means the same balances, as no step changes the
latter without the former - carries `AdjustsWhatItRead`; `UsesInv`, counting attempts
per ticket with `FiniteSetTheorems`, carries `TicketUsesAccounted` and
`OpenAttemptsCanBeRolledBack`; `BooksInv` with the agreement of journal and accounts
carries `CreditDiagnosisIsClean`. `IntentsStayCovered` needs the guard of the
administrator's form (`ClaimActive`) and is inductive with typing. 

`CreditFlowProofs` adds what is about sums. `SumFunctionOnSet` of the community
modules is a `CHOOSE` of a recursive function on the subsets of a set. Its first
section proves by induction over finite sets that such a function exists and is
unique (`RecursionExists`, `RecursionIsUnique`; the induction is `SubsetInduction`,
from the well-foundedness of the strict subset ordering), and from this that a sum
changes by what its terms change by (`SumPeels` to `SumGrows`). With them:

* `ClaimsAreBackedUp`: a step that is not a completed claim books nothing as claimed
  and leaves the completed intents alone (`NothingClaimed`, `ClaimsStand`); a completed
  one adds its intent to the sum and its amount to the journal (`ClaimAddsUp`);
* `EveryStepMoves`: each step of the ledger leaves every balance and every ticket's
  credits alone (`Stands`) or is, for one builder, one of seven movements (`Claims`,
  `Moves`), in which the row, the journal and the sum over the builder's tickets
  change together;
* hence `CreditsConserved`, and `LedgerImplementsFlow`, the refinement of
  `CreditFlow`: since the books are part of `flow`, each movement is matched with the
  one action of `CreditFlow` that books as much.

`FlowInv` is the invariant these need besides `LedgerTypeOK` and `UsesInv`: an
intent's amount is positive, and a builder has finitely many tickets. `Ticket` and
`Intent` may be infinite: that what is summed is finite is proved, not assumed.

**The visitor's way.** Every record that is under way - the cookie, a call, a page,
a row - is accounted for by what the person did (`JarOk`, `CallOk`, `PageOk`,
`RowOk`), and what the person did only grows: so a record that was right when it was
made stays right wherever and however late it arrives (`GrowthKeeps`). On the
server's side a use is on its ticket, or held by one attempt, or spent on one
account (`TicketInv`), and only the call that opened an attempt concludes it
(`HeldInv`), which is needed because the reconciler may have closed that attempt and
another call opened a new one for the same name. `PaidInv` is about who was signed in:
every call that ever reserved an invitation's use was its owner's, and whatever holds
the use has been paid for by one. All six properties of the run are
proved, with its types, for any number of tabs, calls, names, tickets, identities and key sets.

**Access to the database.** Three invariants build on the types. `ChainOK`: a call that
is under way is in its process's chain, once, and whoever has left the queue has only
settled calls before it; `ServedInOrder` is part of it. `NestingOK`: a nested call is
awaited by the callback around it, and one that threw keeps that callback from
returning. It is about a tree of calls of unknown depth, so what it says of a whole
transaction needs an induction: `NoneAwaited` and `NoneThrown` take, of the nested calls
that would break it, one whose parent does not (`NestingIsWellFounded`, the assumption
that no call is made inside itself). `StoreOK`: what a transaction wrote is what its
statements were told they wrote, the store has all or nothing of it, and the view of an
open write transaction is the store itself. From these, `SerialWriters`,
`WholeTransactions`, `FailureUndoesAll` and `CoherentSnapshots`, and the refinement
`AccessIsAtomic`: a snapshot maps to one step when it begins, anything else when the
database applies it, and that the step sees the current store is `WritersAreSerial`.

**Only model-checked**: the liveness properties (`EveryAttemptDecided`,
`EveryDelegationSettles`, `UncertainIsResolved`, `EveryEntrySettles`,
`EveryCallSettles`), since `ENABLED` and fairness are outside what the prover
supports. Every invariant, action property and refinement that a passing run checks
is a theorem. The induction theorems of the library that take an operator are not
usable with the provers at hand; where a proof needs induction, over the sets of
terms of a sum, it is by a least element of a well-founded order.

## 8. What is not modelled

* The queue inside `AccountCreation`: there, a reconciler takes up any open
  attempt, which is what the stale list (`recoverStaleCreationAttempts`) does, with
  or without an entry. It does so also with an attempt whose entry waits in manual
  review: the entry then stays there until an operator's recheck finds the attempt
  decided.
* In `AccountCreation`, the credit and journal rows that reservation and completion
  write (they are in `BuilderTickets`) and the checks of a reservation on the
  ticket's owner, archive state and invitation, which appear as a refusal that is
  always possible.
* Invitations: the switch and the limit of the campaign. Both are read in the
  transaction that issues, and a transaction is one action here, so that the limit
  would hold by the shape of the model; issuing is merely possible. The page that
  tells a person the state of the invitation makes three reads without a
  transaction (`grants.ts:144`) and may show the state before a change: nothing is
  decided on it.
* Builder authentication: a challenge is consumed by one `DELETE ... RETURNING`,
  a name blocked by one `INSERT`; what lies between is signature verification and
  stateless cookies.
* That `AccountCreation` and the other modules are composed with `DatabaseAccess`: their
  transactions are single actions, which `AccessIsAtomic` justifies, and SQLite's own
  locking and snapshots are external. The schema and its installation are not modelled.
* Proof of work and rate limits: per-instance stores that can only refuse a call,
  which every model here lets happen at any time.
* Beekeeper, serialisation, node fail-over and health checks; the comparison of
  the fields of an operation, which is the outcome `review`.
* The login of administrators and builders (stateless or third party), migrations
  and the schema guard (run once), the diagnoses other than that of credits (they read
  the same tables and change nothing), notifications and the audit log (written after
  the decision; what is read back of it, receipts, is modelled), key derivation, the
  key file and the PDF, and the administrator's pages apart from the balance form.

About a sixth of the implementation is mapped. Most of the rest is
user interface, translation tables, styling, parsing and validation of input, type
declarations, tests' helpers and the Hive client, in which nothing happens that a
model of states would say something about.
