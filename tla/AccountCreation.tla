---------------------------- MODULE AccountCreation ----------------------------
(***************************************************************************)
(* Creating an account: the POST /api/create/account handlers and the      *)
(* reconcilers, interleaved at every await.                                *)
(*                                                                         *)
(* A request handler (src/pages/api/create/account.ts) is the process of   *)
(* the correlation id it generates.  A reconciler is the background cycle  *)
(* (src/lib/auto-reconciler.ts, confirm-broadcasted.ts) or the operator's  *)
(* script; both, and the handlers on their error and retry paths, run      *)
(* reconcileCreationAttempt (src/lib/creation-reconciler.ts).              *)
(*                                                                         *)
(* Every action is one database statement or transaction, or one call to   *)
(* the chain, together with the synchronous code around it.  A crash stops *)
(* a process between two of them and leaves the database as it is.         *)
(***************************************************************************)
EXTENDS CreationAttempts, HiveChain, FiniteSets

CONSTANTS
  Reconciler,     (* the reconciling processes                              *)
  Instance,       (* application instances                                  *)
  InstanceOf,     (* which instance serves a request                        *)
  PromptClaim,    (* timing: no handler stalls two minutes between          *)
                  (* reserving a use and claiming its own attempt           *)
  MaxSetbacks,    (* bound: crashes, failing statements, two-minute stalls, *)
                  (* losses of the evidence on Hive, and undecided answers  *)
                  (* before it is lost                                      *)
  NoAttempt       (* a reconciler between two attempts                      *)

Process == Attempt \cup Reconciler

ASSUME ProcessAssumption ==
  /\ Attempt \cap Reconciler = {}
  /\ NoAttempt \notin Attempt
  /\ InstanceOf \in [Attempt -> Instance]
  /\ PromptClaim \in BOOLEAN
  /\ MaxSetbacks \in Nat

(* However many requests come, there are finitely many.                     *)
ASSUME FinitelyManyAssumption == IsFiniteSet(Attempt)

VARIABLES
  proc,                 (* per process: where it is and what it remembers   *)
  creationsInProgress,  (* requests that hold their instance's name lock    *)
  setbacks

vars == << attempt, remaining, account, hive,
           proc, creationsInProgress, setbacks >>

(* The next step of a process.  The first row are steps of the handler, the *)
(* second of its reclaiming of an older attempt, the third of               *)
(* reconcileCreationAttempt.                                                *)
PC == {"idle", "session", "preflight", "lock", "reclaim", "reserve", "claim",
       "prepare", "mark", "broadcast", "outcome", "complete", "confirm", "undo", "done"}
        \cup {"reclaimStale", "reclaimExpired", "rollbackStale", "rollbackExpired"}
        \cup {"rcClaim", "rcReread", "rcEvidence", "rcComplete", "rcConfirm",
              "rcRollback", "rcRelease"}

(* target: the attempt the process works on; lease: the lease it remembers; *)
(* seen: whether the snapshot it read had a signed transaction.             *)
ProcState == [pc : PC, target : Attempt \cup {NoAttempt},
              lease : Lease, seen : BOOLEAN]

Idle(p) == [pc |-> "idle", target |-> IF p \in Attempt THEN p ELSE NoAttempt,
            lease |-> NoLease, seen |-> FALSE]

TypeOK ==
  /\ DatabaseTypeOK
  /\ ChainTypeOK
  /\ proc \in [Process -> ProcState]
  /\ creationsInProgress \subseteq Attempt
  /\ setbacks \in 0 .. MaxSetbacks

Init ==
  /\ DatabaseInit
  /\ ChainInit
  /\ proc = [p \in Process |-> Idle(p)]
  /\ creationsInProgress = {}
  /\ setbacks = 0

(* What may go wrong, or stay undecided, only so often.                     *)
Setback == setbacks < MaxSetbacks /\ setbacks' = setbacks + 1

At(p, pc) == proc[p].pc = pc
Move(p, pc) == proc' = [proc EXCEPT ![p].pc = pc]
MoveWith(p, pc, lease) == proc' = [proc EXCEPT ![p].pc = pc, ![p].lease = lease]

(* A handler answers and its finally block frees the name; a reconciler     *)
(* turns to its next attempt.                                               *)
Finish(p) ==
  /\ proc' = [proc EXCEPT ![p] =
                IF p \in Attempt THEN [Idle(p) EXCEPT !.pc = "done"] ELSE Idle(p)]
  /\ creationsInProgress' = creationsInProgress \ {p}

Target(p) == proc[p].target
MyLease(p) == proc[p].lease

(* Read an attempt's row and start reconciling it with the given lease.     *)
Reconcile(p, a, lease) ==
  IF Open(a)
    THEN /\ proc' = [proc EXCEPT ![p] =
              [pc |-> IF lease = NoLease THEN "rcClaim" ELSE "rcReread",
               target |-> a, lease |-> lease, seen |-> attempt[a].signed]]
         /\ UNCHANGED creationsInProgress
    ELSE Finish(p)

------------------------------------------------------------------------------
(* The handler.                                                             *)

(* The session check: an account ends it, and so does, read afterwards, an  *)
(* open attempt of another mode.                                            *)
CheckSessionAndIdempotency(r) ==
  /\ At(r, "idle")
  /\ IF account[Intent[r].user] # NoAccount
       THEN Finish(r)
       ELSE Move(r, "session") /\ UNCHANGED creationsInProgress
  /\ UNCHANGED << db, hive, setbacks >>

CheckOpenAttempt(r) ==
  /\ At(r, "session")
  /\ IF \E o \in OpenAttempts(Intent[r].user) : ~SameMode(o, r)
       THEN Finish(r)
       ELSE Move(r, "preflight") /\ UNCHANGED creationsInProgress
  /\ UNCHANGED << db, hive, setbacks >>

(* The preflight queries Hive.  If it refuses, the handler may find its own *)
(* earlier attempt and reconcile it; it does so without the name lock.      *)
RunCreationPreflight(r) ==
  /\ At(r, "preflight")
  /\ \/ Move(r, "lock") /\ UNCHANGED creationsInProgress
     \/ Finish(r)
     \/ \E o \in OpenAttempts(Intent[r].user) :
          /\ SameIdentity(o, r) /\ SameMode(o, r)
          /\ Reconcile(r, o, NoLease)
  /\ UNCHANGED << db, hive, setbacks >>

AcquireCreationLock(r) ==
  /\ At(r, "lock")
  /\ IF \E q \in creationsInProgress :
          /\ InstanceOf[q] = InstanceOf[r]
          /\ Intent[q].user = Intent[r].user
       THEN Finish(r)
       ELSE /\ Move(r, "reclaim")
            /\ creationsInProgress' = creationsInProgress \cup {r}
  /\ UNCHANGED << db, hive, setbacks >>

(* What to do about an older open attempt of the same name.                 *)
ReclaimOpenAttempt(r, o) ==
  IF ~SameMode(o, r) \/ ~SameIdentity(o, r)
    THEN Finish(r)
    ELSE IF attempt[o].status # "broadcasting"
    THEN IF attempt[o].aged
           THEN /\ proc' = [proc EXCEPT ![r].pc = "reclaimStale", ![r].target = o]
                /\ UNCHANGED creationsInProgress
           ELSE Finish(r)
    ELSE \/ Finish(r)
         \/ Reconcile(r, o, NoLease)
         \/ Move(r, "reserve") /\ UNCHANGED creationsInProgress
         \/ /\ "not_executed" \in Evidence(o)
            /\ proc' = [proc EXCEPT ![r].pc = "reclaimExpired", ![r].target = o]
            /\ UNCHANGED creationsInProgress

ReclaimOpenAttemptForRetry(r) ==
  /\ At(r, "reclaim")
  /\ IF OpenAttempts(Intent[r].user) = {}
       THEN Move(r, "reserve") /\ UNCHANGED creationsInProgress
       ELSE \E o \in OpenAttempts(Intent[r].user) : ReclaimOpenAttempt(r, o)
  /\ UNCHANGED << db, hive, setbacks >>

(* Go on to reserve a use for the request's own attempt.                    *)
GoReserve(r) ==
  /\ proc' = [proc EXCEPT ![r] = [Idle(r) EXCEPT !.pc = "reserve"]]
  /\ UNCHANGED creationsInProgress

(* Claim the older attempt.  The handler goes on without it when it found   *)
(* it stale, and gives up when it found it expired on Hive.                 *)
ReclaimClaim(r) ==
  /\ proc[r].pc \in {"reclaimStale", "reclaimExpired"}
  /\ LET o == Target(r)
         next == IF At(r, "reclaimStale") THEN "rollbackStale" ELSE "rollbackExpired"
     IN \/ /\ ClaimCreationAttempt(o)
           /\ MoveWith(r, next, ClaimedLease(o))
           /\ UNCHANGED creationsInProgress
        \/ /\ ~Claimable(o)
           /\ IF At(r, "reclaimStale") THEN GoReserve(r) ELSE Finish(r)
           /\ UNCHANGED db
  /\ UNCHANGED << hive, setbacks >>

ReclaimRollback(r) ==
  /\ proc[r].pc \in {"rollbackStale", "rollbackExpired"}
  /\ LET o == Target(r) IN
       \/ RollbackTicketReservation(o, MyLease(r)) /\ GoReserve(r)
       \/ AlreadyRolledBack(o) /\ GoReserve(r) /\ UNCHANGED db
       \/ /\ ~CanRollback(o, MyLease(r)) /\ ~AlreadyRolledBack(o)
          /\ IF At(r, "rollbackStale") THEN GoReserve(r) ELSE Finish(r)
          /\ UNCHANGED db
  /\ UNCHANGED << hive, setbacks >>

(* The reservation is refused also for a revoked or archived ticket, a      *)
(* blocked owner or a foreign invitation: always a possible outcome here.   *)
ReserveTicket(r) ==
  /\ At(r, "reserve")
  /\ \/ ReserveTicketCredit(r) /\ Move(r, "claim") /\ UNCHANGED creationsInProgress
     \/ Finish(r) /\ UNCHANGED db
  /\ UNCHANGED << hive, setbacks >>

ClaimOwnAttempt(r) ==
  /\ At(r, "claim")
  /\ \/ /\ ClaimCreationAttempt(r)
        /\ MoveWith(r, "prepare", ClaimedLease(r))
        /\ UNCHANGED creationsInProgress
     \/ ~Claimable(r) /\ Finish(r) /\ UNCHANGED db
  /\ UNCHANGED << hive, setbacks >>

------------------------------------------------------------------------------
(* The handler's calls to the chain.                                        *)

(* Without final evidence the handler queues the attempt for reconciliation *)
(* and answers; the attempt keeps its lease.                                *)
Ambiguous(r) == IF Simulated(r) THEN Move(r, "undo") /\ UNCHANGED creationsInProgress
                                ELSE Finish(r)

(* "The account exists": whether it is the attempt's own or a foreign one,  *)
(* the handler gives nothing back by itself.  It reconciles its own attempt *)
(* under the lease it holds (handleAccountAlreadyExists,                    *)
(* rollbackForeignAccount), as after any other business error.              *)
ReconcileOwnAttempt(r) == Reconcile(r, r, MyLease(r))

(* createAccount throws.                                                    *)
ChainError(r) ==
  \/ Ambiguous(r)
  \/ ~Simulated(r) /\ ReconcileOwnAttempt(r)

PrepareTransaction(r) ==
  /\ At(r, "prepare")
  /\ \/ /\ PersistAttemptPreparation(r, MyLease(r))
        /\ SignTransaction(r)
        /\ MoveWith(r, IF Simulated(r) THEN "outcome" ELSE "mark", NextLease(MyLease(r)))
        /\ UNCHANGED creationsInProgress
     \/ /\ ~CanPersistPreparation(r, MyLease(r))
        /\ Ambiguous(r)
        /\ UNCHANGED << db, hive >>
     \/ ChainError(r) /\ UNCHANGED << db, hive >>
  /\ UNCHANGED setbacks

MarkBroadcasting(r) ==
  /\ At(r, "mark")
  /\ \/ /\ MarkAttemptBroadcasting(r, MyLease(r))
        /\ MoveWith(r, "broadcast", NextLease(MyLease(r)))
        /\ UNCHANGED creationsInProgress
     \/ /\ ~CanMarkBroadcasting(r, MyLease(r))
        /\ Ambiguous(r)
        /\ UNCHANGED db
  /\ UNCHANGED << hive, setbacks >>

(* The network may have received a transaction whose broadcast throws.      *)
Broadcast(r) ==
  /\ At(r, "broadcast")
  /\ \/ /\ ReceiveTransaction(r)
        /\ \/ Move(r, "outcome") /\ UNCHANGED creationsInProgress
           \/ ChainError(r)
     \/ ChainError(r) /\ UNCHANGED hive
  /\ UNCHANGED << db, setbacks >>

(* A simulation that did not pass every check is undone.                    *)
PersistOutcome(r) ==
  /\ At(r, "outcome")
  /\ \/ /\ PersistAttemptBroadcastOutcome(r, MyLease(r))
        /\ \/ MoveWith(r, "complete", NextLease(MyLease(r)))
           \/ Simulated(r) /\ MoveWith(r, "undo", NextLease(MyLease(r)))
        /\ UNCHANGED creationsInProgress
     \/ /\ ~CanPersistOutcome(r, MyLease(r))
        /\ Ambiguous(r)
        /\ UNCHANGED db
  /\ UNCHANGED << hive, setbacks >>

CompleteInDatabase(r) ==
  /\ At(r, "complete")
  /\ LET completed == IF Simulated(r) THEN Finish(r)
                      ELSE Move(r, "confirm") /\ UNCHANGED creationsInProgress
     IN \/ CompleteAccountCreation(r, MyLease(r), FALSE) /\ completed
        \/ AlreadyCompleted(r, FALSE) /\ completed /\ UNCHANGED db
        \/ /\ ~CanComplete(r, MyLease(r)) /\ ~AlreadyCompleted(r, FALSE)
           /\ Ambiguous(r)
           /\ UNCHANGED db
  /\ UNCHANGED << hive, setbacks >>

(* One look at the chain for an account recorded as broadcasted, by the     *)
(* handler that recorded it or by a reconciler.                             *)
ConfirmOnHive(p) ==
  /\ At(p, "confirm")
  /\ \/ /\ "created" \in Evidence(Target(p))
        /\ MoveWith(p, IF p \in Attempt THEN "rcConfirm" ELSE "rcComplete", NoLease)
        /\ UNCHANGED creationsInProgress
     \/ Undecided(Target(p)) /\ Finish(p)
  /\ UNCHANGED << db, hive, setbacks >>

UndoSimulation(r) ==
  /\ At(r, "undo")
  /\ \/ RollbackTicketReservation(r, MyLease(r))
     \/ ~CanRollback(r, MyLease(r)) /\ UNCHANGED db
  /\ Finish(r)
  /\ UNCHANGED << hive, setbacks >>

------------------------------------------------------------------------------
(* reconcileCreationAttempt, step by step, for any process.                 *)

(* Give up: the lease is released if there is one.                          *)
GiveUp(p) == IF MyLease(p) = NoLease THEN Finish(p)
             ELSE Move(p, "rcRelease") /\ UNCHANGED creationsInProgress

ReconcileClaim(p) ==
  /\ At(p, "rcClaim")
  /\ \/ /\ ClaimCreationAttempt(Target(p))
        /\ MoveWith(p, "rcReread", ClaimedLease(Target(p)))
        /\ UNCHANGED creationsInProgress
     \/ ~Claimable(Target(p)) /\ Finish(p) /\ UNCHANGED db
  /\ UNCHANGED << hive, setbacks >>

(* The row is read again under the lease: if its transaction is another     *)
(* one than before, the attempt is left alone.                              *)
ReconcileReread(p) ==
  /\ At(p, "rcReread")
  /\ LET row == attempt[Target(p)] IN
       Move(p, CASE row.signed # proc[p].seen             -> "rcRelease"
                 [] row.status \in {"reserved", "prepared"} -> "rcRollback"
                 [] OTHER                                 -> "rcEvidence")
  /\ UNCHANGED << db, hive, creationsInProgress, setbacks >>

(* The chain is asked.  Without a decisive answer the attempt stays as it is*)
(* and its lease is released.  Only so many answers are undecided while the *)
(* nodes still have the evidence, and as many as there are lookups once they*)
(* have lost it.                                                            *)
ReconcileEvidence(p) ==
  /\ At(p, "rcEvidence")
  /\ \/ "created" \in Evidence(Target(p)) /\ Move(p, "rcComplete") /\ UNCHANGED setbacks
     \/ "not_executed" \in Evidence(Target(p)) /\ Move(p, "rcRollback") /\ UNCHANGED setbacks
     \/ /\ Undecided(Target(p)) /\ Move(p, "rcRelease")
        /\ IF Open(Target(p)) /\ ~hive[Target(p)].forgotten
             THEN Setback ELSE UNCHANGED setbacks
  /\ UNCHANGED << db, hive, creationsInProgress >>

(* persistHiveMatchedAccount.                                               *)
PersistHiveMatchedAccount(p) ==
  /\ At(p, "rcComplete")
  /\ LET a == Target(p) IN
       \/ /\ CompleteAccountCreation(a, MyLease(p), TRUE)
          /\ Move(p, "rcConfirm") /\ UNCHANGED creationsInProgress
       \/ /\ AlreadyCompleted(a, TRUE)
          /\ Move(p, "rcConfirm") /\ UNCHANGED << db, creationsInProgress >>
       \/ /\ ~CanComplete(a, MyLease(p)) /\ ~AlreadyCompleted(a, TRUE)
          /\ GiveUp(p) /\ UNCHANGED db
  /\ UNCHANGED << hive, setbacks >>

ReconcileConfirm(p) ==
  /\ At(p, "rcConfirm")
  /\ \/ ConfirmCompletedAttemptAccount(Target(p)) /\ Finish(p)
     \/ ~CanConfirm(Target(p)) /\ GiveUp(p) /\ UNCHANGED db
  /\ UNCHANGED << hive, setbacks >>

(* A rollback that fails is reported and leaves the lease to expire.        *)
ReconcileRollback(p) ==
  /\ At(p, "rcRollback")
  /\ \/ RollbackTicketReservation(Target(p), MyLease(p))
     \/ ~CanRollback(Target(p), MyLease(p)) /\ UNCHANGED db
  /\ Finish(p)
  /\ UNCHANGED << hive, setbacks >>

ReconcileRelease(p) ==
  /\ At(p, "rcRelease")
  /\ \/ ReleaseCreationAttemptLease(Target(p), MyLease(p))
     \/ ~CanRelease(Target(p), MyLease(p)) /\ UNCHANGED db
  /\ Finish(p)
  /\ UNCHANGED << hive, setbacks >>

------------------------------------------------------------------------------
(* The background reconciler and what surrounds the processes.              *)

(* A reconciler takes up any open attempt: it lists the stale ones, works   *)
(* off its queue, or is given a correlation id by the operator.             *)
StartReconcile(w, a) ==
  /\ At(w, "idle")
  /\ Open(a)
  /\ Reconcile(w, a, NoLease)
  /\ UNCHANGED << db, hive, setbacks >>

StartConfirm(w, u) ==
  /\ At(w, "idle")
  /\ account[u] # NoAccount
  /\ account[u].status = "broadcasted"
  /\ proc' = [proc EXCEPT ![w] = [@ EXCEPT !.pc = "confirm", !.target = account[u].by]]
  /\ UNCHANGED << db, hive, creationsInProgress, setbacks >>

Running(p) == proc[p].pc \notin {"idle", "done"}

(* A process dies, or an exception ends its handler: its memory is lost.    *)
Crash(p) ==
  /\ Running(p)
  /\ Setback
  /\ Finish(p)
  /\ UNCHANGED << db, hive >>

(* A database statement throws where the code catches it: the reconciler    *)
(* releases its lease, a simulating handler rolls back.                     *)
StorageFails(p) ==
  /\ \/ /\ proc[p].pc \in {"rcReread", "rcComplete", "rcConfirm"}
        /\ MyLease(p) # NoLease
        /\ Move(p, "rcRelease")
     \/ /\ proc[p].pc \in {"prepare", "outcome", "complete"}
        /\ p \in Attempt /\ Simulated(p)
        /\ Move(p, "undo")
  /\ Setback
  /\ UNCHANGED << db, hive, creationsInProgress >>

(* Two minutes pass without a write to the row.  Every step that holds the  *)
(* lease normally takes less: a holder that stalls is a setback.            *)
TimePasses(a) ==
  /\ Age(a)
  /\ PromptClaim => ~At(a, "claim")
  /\ IF \E p \in Process : Target(p) = a /\ Holds(a, MyLease(p))
       THEN Setback ELSE UNCHANGED setbacks
  /\ UNCHANGED << hive, proc, creationsInProgress >>

------------------------------------------------------------------------------
RequestStep(r) ==
  \/ CheckOpenAttempt(r)
  \/ RunCreationPreflight(r)
  \/ AcquireCreationLock(r)
  \/ ReclaimOpenAttemptForRetry(r)
  \/ ReclaimClaim(r)
  \/ ReclaimRollback(r)
  \/ ReserveTicket(r)
  \/ ClaimOwnAttempt(r)
  \/ PrepareTransaction(r)
  \/ MarkBroadcasting(r)
  \/ Broadcast(r)
  \/ PersistOutcome(r)
  \/ CompleteInDatabase(r)
  \/ UndoSimulation(r)

ReconcileStep(p) ==
  \/ ConfirmOnHive(p)
  \/ ReconcileClaim(p)
  \/ ReconcileReread(p)
  \/ ReconcileEvidence(p)
  \/ PersistHiveMatchedAccount(p)
  \/ ReconcileConfirm(p)
  \/ ReconcileRollback(p)
  \/ ReconcileRelease(p)

(* A broadcast attempt's evidence is lost for good, sooner or later.        *)
HiveForgets(a) ==
  /\ ~Simulated(a)
  /\ Forget(a)
  /\ Setback
  /\ UNCHANGED << db, proc, creationsInProgress >>

HiveStep(a) == ChainStep(a) /\ UNCHANGED << db, proc, creationsInProgress, setbacks >>

Next ==
  \/ \E r \in Attempt : CheckSessionAndIdempotency(r) \/ RequestStep(r)
  \/ \E w \in Reconciler : (\E a \in Attempt : StartReconcile(w, a))
                           \/ (\E u \in User : StartConfirm(w, u))
  \/ \E p \in Process : ReconcileStep(p) \/ Crash(p) \/ StorageFails(p)
  \/ \E a \in Attempt : TimePasses(a) \/ HiveStep(a) \/ HiveForgets(a)

Spec == Init /\ [][Next]_vars

(* A process that has begun goes on; time passes; the chain's irreversible  *)
(* block advances.  An open attempt that a reconciler can take up again and *)
(* again is taken up.  Requests need not come, blocks need not include.     *)
Fairness ==
  /\ \A r \in Attempt : WF_vars(RequestStep(r))
  /\ \A p \in Process : WF_vars(ReconcileStep(p))
  /\ \A a \in Attempt :
       /\ WF_vars(TimePasses(a))
       /\ WF_vars(ClockExpires(a) /\ HiveStep(a))
       /\ SF_vars((BecomeIrreversible(a) \/ ExpirationFinal(a)) /\ HiveStep(a))
       /\ SF_vars(\E w \in Reconciler : StartReconcile(w, a))

FairSpec == Spec /\ Fairness

------------------------------------------------------------------------------
(* Properties.                                                              *)

Uses(t, statuses) ==
  Cardinality({a \in Attempt : Intent[a].ticket = t /\ attempt[a].status \in statuses})

(* Every use of a ticket is where it should be: still on the ticket, held   *)
(* by an open attempt, or spent by a completed one.  No interleaving of     *)
(* reservations, rollbacks, retries and reconcilers loses or forges a use   *)
(* (db-ticket-validator.ts reserves, restores and completes separately).    *)
TicketUsesConserved ==
  \A t \in Ticket :
    remaining[t] + Uses(t, OpenStatus \cup {"completed"}) = TotalUses[t]

(* A ticket use is never given back for an account that Hive has created:   *)
(* account.ts 764, "account MIGHT have been created, do NOT rollback".      *)
ExecutedIsNeverRestored ==
  \A a \in Attempt : InBlock(a) => attempt[a].status # "rolled_back"

(* Only one process at a time can write to an open attempt: the lease fences*)
(* every earlier owner (creation-attempts.ts 398).                          *)
SingleLeaseHolder ==
  \A p, q \in Process :
    p # q /\ Target(p) = Target(q) /\ Target(p) # NoAttempt
      => ~(Holds(Target(p), MyLease(p)) /\ Holds(Target(q), MyLease(q)))

(* An account is recorded as confirmed only once its own transaction is     *)
(* irreversible: a fork can no longer undo it.                              *)
ConfirmedIsIrreversible ==
  \A u \in User : account[u] # NoAccount /\ account[u].status = "confirmed"
                    => hive[account[u].by].tx = "irreversible"

(* Completed attempts and accounts correspond one to one, in the mode of    *)
(* the attempt: none is completed without its account, and no account name  *)
(* is recorded for two attempts.                                            *)
CompletedHasAccount ==
  \A a \in Attempt :
    LET row == account[Intent[a].user] IN
      attempt[a].status = "completed"
        <=> row # NoAccount /\ row.by = a /\ (row.status = "simulated" <=> Simulated(a))

(* Nothing reaches the network that the database does not already record as *)
(* being broadcast, whatever crashes, stalls and retries came before: what  *)
(* Hive may execute can always be found again.                              *)
BroadcastIsRecorded ==
  [][\A a \in Attempt :
       hive[a].tx = "unsent" /\ hive'[a].tx = "sent"
         => attempt[a].status = "broadcasting"]_vars

(* A decided attempt stays decided, and a recorded account is never taken   *)
(* over by another attempt nor downgraded from confirmed.                   *)
DecisionsAreFinal ==
  [][/\ \A a \in Attempt : attempt[a].status \in {"completed", "rolled_back"}
                             => attempt'[a].status = attempt[a].status
     /\ \A u \in User : account[u] # NoAccount
          => /\ account'[u] # NoAccount
             /\ account'[u].by = account[u].by
             /\ account[u].status = "confirmed" => account'[u].status = "confirmed"]_vars

NameTaken(a) == account[Intent[a].user] # NoAccount /\ account[Intent[a].user].by # a

(* Every reserved use is eventually either spent on its account or given    *)
(* back, whatever died on the way, with two exceptions: the name's account  *)
(* was recorded for another attempt (the run TwoBroadcasts shows how that   *)
(* can happen), or the nodes no longer have what would decide the attempt,  *)
(* so that every lookup ends undecided and leaves it open for the operator  *)
(* (creation-evidence.ts:200-203, creation-reconciler.ts:220-225).  Assumed *)
(* of Hive is that otherwise a lookup becomes decisive after finitely many  *)
(* undecided ones.  What is decided stays so (DecisionsAreFinal), so that   *)
(* once there are no more requests this moment is the last.                 *)
EveryAttemptDecided ==
  []<>(\A a \in Attempt : ~Open(a) \/ NameTaken(a) \/ hive[a].forgotten)

(* The account Hive has created is not recorded for another attempt of the  *)
(* same name: account.ts 133, "two instances could both attempt the         *)
(* on-chain broadcast. The reconciler handles that case safely."            *)
ExecutedNameIsItsOwn ==
  \A a \in Attempt : hive[a].tx = "irreversible" => ~NameTaken(a)

------------------------------------------------------------------------------
(* What became of an attempt's use, as TicketUse describes it.              *)
UseOf(a) ==
  CASE attempt[a].status = "absent"      -> "none"
    [] attempt[a].status \in OpenStatus  -> "held"
    [] attempt[a].status = "rolled_back" -> "returned"
    [] OTHER -> IF account[Intent[a].user].status = "confirmed" THEN "settled" ELSE "spent"

Promise == INSTANCE TicketUse WITH
  left <- remaining,
  use <- [a \in Attempt |-> UseOf(a)],
  executed <- [a \in Attempt |-> InBlock(a)]

(* The leases, retries and reconcilers implement the simple life of a use:  *)
(* in particular no use is given back whose transaction can still enter a   *)
(* block, and none is settled that a fork can still undo.                   *)
ImplementsTicketUse == Promise!UseSpec
==============================================================================
