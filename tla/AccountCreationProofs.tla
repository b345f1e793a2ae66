------------------------- MODULE AccountCreationProofs -------------------------
(***************************************************************************)
(* Proofs about AccountCreation, second part: its safety, for every number *)
(* of requests, names, tickets, instances and reconcilers.  The uses of a  *)
(* ticket come last: they are conserved, and the leases, retries and       *)
(* reconcilers implement their simple life as TicketUse describes it.      *)
(***************************************************************************)
EXTENDS AccountCreationTyping, FiniteSetTheorems

------------------------------------------------------------------------------
(* What a step writes, with who writes it and what the writer knows.        *)

RollsBack(p, a, lease) ==
  /\ Target(p) = a
  /\ lease = MyLease(p)
  /\ \/ proc[p].pc \in {"rollbackStale", "rollbackExpired", "rcRollback"}
     \/ p = a /\ At(a, "undo")

RowWritten(a) ==
  \/ ReserveTicketCredit(a) /\ At(a, "reserve")
  \/ ClaimCreationAttempt(a)
  \/ Age(a) /\ (PromptClaim => ~At(a, "claim"))
  \/ MarkAttemptBroadcasting(a, MyLease(a)) /\ At(a, "mark")
  \/ PersistAttemptBroadcastOutcome(a, MyLease(a)) /\ At(a, "outcome")
  \/ CompleteAccountCreation(a, MyLease(a), FALSE) /\ At(a, "complete")
  \/ \E lease \in Lease :
       \/ ReleaseCreationAttemptLease(a, lease)
       \/ /\ RollbackTicketReservation(a, lease)
          /\ \E p \in Process : RollsBack(p, a, lease)
       \/ /\ CompleteAccountCreation(a, lease, TRUE)
          /\ hive[a].tx = "irreversible"
  \/ ConfirmCompletedAttemptAccount(a) /\ hive[a].tx = "irreversible"

TablesStep ==
  \/ UNCHANGED << db, hive >>
  \/ \E a \in Attempt :
       \/ /\ RowWritten(a)
          /\ UNCHANGED hive
       \/ /\ PersistAttemptPreparation(a, MyLease(a)) /\ At(a, "prepare")
          /\ SignTransaction(a)
       \/ /\ ReceiveTransaction(a) /\ At(a, "broadcast")
          /\ UNCHANGED db
       \/ /\ ChainStep(a) \/ Forget(a)
          /\ UNCHANGED db

LEMMA RequestTables ==
  ASSUME TypeInv, NEW r \in Attempt, CheckSessionAndIdempotency(r) \/ RequestStep(r)
  PROVE  TablesStep
<1>0. r \in Process
  BY DEF Process
<1> USE DEF TablesStep
<1>1. CASE UNCHANGED << db, hive >>
  BY <1>1
<1>2. CASE ReclaimClaim(r)
  BY <1>0, <1>2, Here DEF ReclaimClaim, RowWritten
<1>3. CASE ReclaimRollback(r)
  BY <1>0, <1>3, Here DEF ReclaimRollback, RowWritten, RollsBack
<1>4. CASE ReserveTicket(r)
  BY <1>4 DEF ReserveTicket, RowWritten
<1>5. CASE ClaimOwnAttempt(r)
  BY <1>5 DEF ClaimOwnAttempt, RowWritten
<1>6. CASE PrepareTransaction(r)
  BY <1>6 DEF PrepareTransaction
<1>7. CASE MarkBroadcasting(r)
  BY <1>7 DEF MarkBroadcasting, RowWritten
<1>8. CASE Broadcast(r)
  BY <1>8 DEF Broadcast
<1>9. CASE PersistOutcome(r)
  BY <1>9 DEF PersistOutcome, RowWritten
<1>10. CASE CompleteInDatabase(r)
  BY <1>10 DEF CompleteInDatabase, RowWritten
<1>11. CASE UndoSimulation(r)
  BY <1>0, <1>11, Here DEF UndoSimulation, RowWritten, RollsBack, At, OwnPC
<1> QED
  BY <1>1, <1>2, <1>3, <1>4, <1>5, <1>6, <1>7, <1>8, <1>9, <1>10, <1>11
  DEF RequestStep, CheckSessionAndIdempotency, CheckOpenAttempt, RunCreationPreflight,
      AcquireCreationLock, ReclaimOpenAttemptForRetry

LEMMA ReconcilerTables ==
  ASSUME TypeInv, EvidenceOK, NEW p \in Process, ReconcileStep(p)
  PROVE  TablesStep
<1> USE DEF TablesStep
<1>1. Target(p) \in Attempt /\ MyLease(p) \in Lease
  BY Here DEF At, ReconcileStep, ConfirmOnHive, ReconcileClaim, ReconcileReread,
     ReconcileEvidence, PersistHiveMatchedAccount, ReconcileConfirm, ReconcileRollback,
     ReconcileRelease
<1>2. CASE UNCHANGED << db, hive >>
  BY <1>2
<1>3. CASE ReconcileClaim(p)
  BY <1>1, <1>3 DEF ReconcileClaim, RowWritten
<1>4. CASE PersistHiveMatchedAccount(p) \/ ReconcileConfirm(p)
  BY <1>1, <1>4 DEF PersistHiveMatchedAccount, ReconcileConfirm, RowWritten, EvidenceOK, At
<1>5. CASE ReconcileRollback(p)
  BY <1>1, <1>5 DEF ReconcileRollback, RowWritten, RollsBack, At
<1>6. CASE ReconcileRelease(p)
  BY <1>1, <1>6 DEF ReconcileRelease, RowWritten
<1> QED
  BY <1>2, <1>3, <1>4, <1>5, <1>6
  DEF ReconcileStep, ConfirmOnHive, ReconcileReread, ReconcileEvidence

LEMMA NextTables ==
  ASSUME TypeInv, EvidenceOK, [Next]_vars
  PROVE  TablesStep
<1>1. ASSUME NEW a \in Attempt, TimePasses(a)
      PROVE  TablesStep
  BY <1>1 DEF TimePasses, TablesStep, RowWritten
<1>2. ASSUME NEW a \in Attempt, HiveStep(a) \/ HiveForgets(a)
      PROVE  TablesStep
  BY <1>2 DEF HiveStep, HiveForgets, TablesStep
<1>3. CASE UNCHANGED << db, hive >>
  BY <1>3 DEF TablesStep
<1> QED
  BY <1>1, <1>2, <1>3, RequestTables, ReconcilerTables
  DEF Next, StartReconcile, StartConfirm, Crash, StorageFails, vars, db

------------------------------------------------------------------------------
(* How a step moves a process, and what it knows where it arrives.          *)

(* The lease it remembers is none, the old one, the old one renewed by its  *)
(* own write, or one it has just claimed.                                   *)
LeaseKnown(p) ==
  \/ MyLease(p)' = NoLease
  \/ /\ Target(p)' = Target(p)
     /\ Target(p) \in Attempt
     /\ \/ MyLease(p)' = MyLease(p)
        \/ /\ MyLease(p)' = NextLease(MyLease(p))
           /\ attempt'[Target(p)].version = attempt[Target(p)].version + 1
           /\ attempt'[Target(p)].generation = attempt[Target(p)].generation
        \/ /\ MyLease(p)' = ClaimedLease(Target(p))
           /\ ClaimCreationAttempt(Target(p))

(* The handler's steps follow each other.                                   *)
HandlerOrder(p) ==
  /\ At(p, "claim")' => ReserveTicketCredit(p) /\ At(p, "reserve")
  /\ At(p, "prepare")' => ClaimCreationAttempt(p) /\ At(p, "claim")
  /\ At(p, "mark")' => /\ PersistAttemptPreparation(p, MyLease(p)) /\ At(p, "prepare")
                       /\ ~Simulated(p)
  /\ At(p, "broadcast")' => MarkAttemptBroadcasting(p, MyLease(p)) /\ At(p, "mark")
  /\ At(p, "outcome")' =>
       \/ PersistAttemptPreparation(p, MyLease(p)) /\ At(p, "prepare")
       \/ ReceiveTransaction(p) /\ At(p, "broadcast")
  /\ At(p, "undo")' => Simulated(p)

(* What it has read of the row or of the chain.                             *)
HasRead(p) ==
  /\ At(p, "reclaimStale")' =>
       /\ Target(p)' \in Attempt
       /\ Open(Target(p)') /\ attempt[Target(p)'].aged
       /\ attempt[Target(p)'].status # "broadcasting"
       /\ UNCHANGED << db, hive >>
  /\ At(p, "rollbackStale")' => At(p, "reclaimStale") /\ Target(p)' = Target(p)
  /\ At(p, "reclaimExpired")' => NeverExecutes(Target(p)')
  /\ At(p, "rollbackExpired")' => At(p, "reclaimExpired") /\ Target(p)' = Target(p)
  /\ proc'[p].pc \in {"rcComplete", "rcConfirm"} => hive[Target(p)'].tx = "irreversible"
  /\ At(p, "rcRollback")' =>
       /\ Target(p)' = Target(p) /\ MyLease(p)' = MyLease(p)
       /\ UNCHANGED << db, hive >>
       /\ attempt[Target(p)].status \in {"reserved", "prepared"} \/ NeverExecutes(Target(p))

Moves(p) ==
  /\ \A q \in Process \ {p} : proc'[q] = proc[q]
  /\ LeaseKnown(p)
  /\ p \in Attempt => HandlerOrder(p)
  /\ HasRead(p)

LEMMA EvidenceIsSound ==
  ASSUME NEW a \in Attempt, ChainTypeOK
  PROVE  /\ "created" \in Evidence(a) => hive[a].tx = "irreversible"
         /\ "not_executed" \in Evidence(a) => NeverExecutes(a)
<1>1. ASSUME NEW s \in StatusAnswers(a), "created" \in EvidenceKinds(s)
      PROVE  hive[a].tx = "irreversible"
  <2>1. s = "within_irreversible_block"
    BY <1>1 DEF EvidenceKinds
  <2> QED BY <1>1, <2>1 DEF StatusAnswers
<1>2. ASSUME NEW s \in StatusAnswers(a), "not_executed" \in EvidenceKinds(s)
      PROVE  NeverExecutes(a)
  <2>1. s = "expired_irreversible"
    BY <1>2 DEF EvidenceKinds
  <2> QED BY <1>2, <2>1 DEF StatusAnswers, NeverExecutes
<1> QED BY <1>1, <1>2 DEF Evidence

(* A process that ends or gives up knows nothing.                           *)
LEMMA FinishMoves ==
  ASSUME NEW p \in Process, Finishes(p)
  PROVE  Moves(p)
BY DEF Finishes, MovesTo, Moves, LeaseKnown, HandlerOrder, HasRead, At, Target, MyLease

LEMMA ReconcileMoves ==
  ASSUME TypeInv, NEW p \in Process, NEW a \in Attempt, NEW lease,
         lease = NoLease \/ (a = Target(p) /\ lease = MyLease(p)),
         \/ /\ MovesTo(p, IF lease = NoLease THEN "rcClaim" ELSE "rcReread", a, lease)
            /\ Open(a)
            /\ UNCHANGED creationsInProgress
         \/ Finishes(p) /\ creationsInProgress' = creationsInProgress \ {p}
  PROVE  Moves(p)
<1>1. CASE Finishes(p)
  BY <1>1, FinishMoves
<1>2. CASE MovesTo(p, IF lease = NoLease THEN "rcClaim" ELSE "rcReread", a, lease)
  BY <1>2 DEF MovesTo, Moves, LeaseKnown, HandlerOrder, HasRead, At, Target, MyLease
<1> QED BY <1>1, <1>2

(* A step to a place about which nothing needs to be known.                 *)
LEMMA PlainMoves ==
  ASSUME NEW p \in Process, NEW pc, NEW l, MovesTo(p, pc, Target(p), l),
         pc \notin {"claim", "prepare", "mark", "broadcast", "outcome", "undo",
                    "reclaimStale", "rollbackStale", "reclaimExpired", "rollbackExpired",
                    "rcComplete", "rcConfirm", "rcRollback"},
         l = NoLease \/ (Target(p) \in Attempt /\ l = MyLease(p))
  PROVE  Moves(p)
BY DEF MovesTo, Moves, LeaseKnown, HandlerOrder, HasRead, At, Target, MyLease

LEMMA RequestMoves ==
  ASSUME TypeInv, NEW r \in Attempt, CheckSessionAndIdempotency(r) \/ RequestStep(r)
  PROVE  Moves(r)
<1>0. r \in Process /\ proc \in [Process -> ProcState] /\ MyLease(r) \in Lease /\ NoLease \in Lease
  BY Here DEF Process, NoLease, Lease
<1> USE DEF At
<1>1. CASE Finish(r)
  BY <1>0, <1>1, FinishStep, FinishMoves
<1>2. ASSUME NEW pc \in PC, Move(r, pc), Target(r) \in Attempt,
             pc \in {"session", "preflight", "lock", "reclaim", "reserve", "complete",
                     "confirm"}
      PROVE  Moves(r)
  <2>1. MovesTo(r, pc, Target(r), MyLease(r))
    BY <1>0, <1>2, MoveStep
  <2> QED BY <1>0, <1>2, <2>1, PlainMoves
<1>3. ASSUME NEW a \in Attempt, NEW lease \in Lease, Reconcile(r, a, lease),
             lease = NoLease \/ (a = Target(r) /\ lease = MyLease(r))
      PROVE  Moves(r)
  BY <1>0, <1>3, ReconcileStart, ReconcileMoves DEF TypeInv
<1>4. ASSUME proc[r].pc \in OwnPC \ {"idle", "done"}, Ambiguous(r) \/ ChainError(r)
      PROVE  Moves(r)
  <2>1. CASE Move(r, "undo") /\ Simulated(r)
    <3>1. MovesTo(r, "undo", Target(r), MyLease(r)) /\ Target(r) \in Attempt
      BY <1>0, <1>4, <2>1, Here, MoveStep DEF PC
    <3> QED BY <2>1, <3>1 DEF MovesTo, Moves, LeaseKnown, HandlerOrder, HasRead, Target, MyLease
  <2>2. Target(r) = r
    BY <1>0, <1>4, Here
  <2> QED BY <1>0, <1>1, <1>3, <1>4, <2>1, <2>2 DEF Ambiguous, ChainError, ReconcileOwnAttempt
<1>5. CASE CheckSessionAndIdempotency(r)
  BY <1>0, <1>1, <1>2, <1>5, Here DEF CheckSessionAndIdempotency, OwnPC, EarlyPC, PC
<1>6. CASE CheckOpenAttempt(r)
  BY <1>0, <1>1, <1>2, <1>6, Here DEF CheckOpenAttempt, PC
<1>7. CASE RunCreationPreflight(r)
  BY <1>0, <1>1, <1>2, <1>3, <1>7, Here DEF RunCreationPreflight, PC, OpenAttempts
<1>8. CASE AcquireCreationLock(r)
  BY <1>0, <1>1, <1>2, <1>8, Here DEF AcquireCreationLock, PC
<1>9. CASE ReclaimOpenAttemptForRetry(r)
  <2>1. ASSUME NEW o \in OpenAttempts(Intent[r].user),
               proc' = [proc EXCEPT ![r].pc = "reclaimStale", ![r].target = o],
               attempt[o].status # "broadcasting", attempt[o].aged
        PROVE  Moves(r)
    <3>1. MovesTo(r, "reclaimStale", o, MyLease(r)) /\ Open(o)
      BY <1>0, <2>1, ReclaimStart DEF PC, OpenAttempts
    <3>2. MyLease(r) = NoLease /\ UNCHANGED << db, hive >>
      BY <1>0, <1>9, Here DEF ReclaimOpenAttemptForRetry, UnleasedPC, EarlyPC
    <3> QED
      BY <2>1, <3>1, <3>2
      DEF MovesTo, Moves, LeaseKnown, HandlerOrder, HasRead, Target, MyLease, OpenAttempts
  <2>2. ASSUME NEW o \in OpenAttempts(Intent[r].user),
               proc' = [proc EXCEPT ![r].pc = "reclaimExpired", ![r].target = o],
               "not_executed" \in Evidence(o)
        PROVE  Moves(r)
    <3>1. MovesTo(r, "reclaimExpired", o, MyLease(r)) /\ NeverExecutes(o)
      BY <1>0, <2>2, ReclaimStart, Here, EvidenceIsSound DEF PC, OpenAttempts
    <3>2. MyLease(r) = NoLease
      BY <1>0, <1>9, Here DEF ReclaimOpenAttemptForRetry, UnleasedPC, EarlyPC
    <3> QED
      BY <3>1, <3>2
      DEF MovesTo, Moves, LeaseKnown, HandlerOrder, HasRead, Target, MyLease
  <2>3. ASSUME NEW o \in OpenAttempts(Intent[r].user), ReclaimOpenAttempt(r, o)
        PROVE  Moves(r)
    BY <1>0, <1>1, <1>2, <1>3, <1>9, <2>1, <2>2, <2>3, Here
    DEF ReclaimOpenAttempt, ReclaimOpenAttemptForRetry, PC, OpenAttempts
  <2> QED BY <1>0, <1>2, <1>9, <2>3, Here DEF ReclaimOpenAttemptForRetry, PC
<1>10. ASSUME GoReserve(r)
       PROVE  Moves(r)
  BY <1>0, <1>10, GoReserveStep
  DEF MovesTo, Moves, LeaseKnown, HandlerOrder, HasRead, Target, MyLease
<1>11. CASE ReclaimClaim(r)
  <2> DEFINE next == IF At(r, "reclaimStale") THEN "rollbackStale" ELSE "rollbackExpired"
  <2>1. CASE ClaimCreationAttempt(Target(r)) /\ MoveWith(r, next, ClaimedLease(Target(r)))
    <3>1. Target(r) \in Attempt /\ proc[r].pc \in {"reclaimStale", "reclaimExpired"}
      BY <1>0, <1>11, Here DEF ReclaimClaim
    <3>2. ClaimedLease(Target(r)) \in Lease
      BY <1>0, <2>1, <3>1, Here, ClaimOperation
    <3>3. MovesTo(r, next, Target(r), ClaimedLease(Target(r)))
      BY <1>0, <2>1, <3>2, MoveWithStep DEF PC
    <3> QED
      BY <2>1, <3>1, <3>3
      DEF MovesTo, Moves, LeaseKnown, HandlerOrder, HasRead, Target, MyLease
  <2> QED BY <1>1, <1>10, <1>11, <2>1 DEF ReclaimClaim
<1>12. CASE ReclaimRollback(r)
  BY <1>1, <1>10, <1>12 DEF ReclaimRollback
<1>13. CASE ReserveTicket(r)
  <2>1. CASE ReserveTicketCredit(r) /\ Move(r, "claim")
    <3>1. MovesTo(r, "claim", Target(r), MyLease(r)) /\ Target(r) \in Attempt
      BY <1>0, <1>13, <2>1, Here, MoveStep DEF PC, ReserveTicket
    <3> QED
      BY <1>13, <2>1, <3>1
      DEF ReserveTicket, MovesTo, Moves, LeaseKnown, HandlerOrder, HasRead, Target, MyLease
  <2> QED BY <1>1, <1>13, <2>1 DEF ReserveTicket
<1>14. CASE ClaimOwnAttempt(r)
  <2>1. CASE ClaimCreationAttempt(r) /\ MoveWith(r, "prepare", ClaimedLease(r))
    <3>1. Target(r) = r /\ ClaimedLease(r) \in Lease
      BY <1>0, <1>14, <2>1, Here, ClaimOperation DEF ClaimOwnAttempt, OwnPC
    <3>2. MovesTo(r, "prepare", r, ClaimedLease(r))
      BY <1>0, <2>1, <3>1, MoveWithStep DEF PC
    <3> QED
      BY <1>14, <2>1, <3>1, <3>2
      DEF ClaimOwnAttempt, MovesTo, Moves, LeaseKnown, HandlerOrder, HasRead, Target, MyLease
  <2> QED BY <1>1, <1>14, <2>1 DEF ClaimOwnAttempt
<1>15. ASSUME NEW s, NEW leased, NEW signed, FencedTo(r, MyLease(r), s, leased, signed),
              NEW pc \in PC, MoveWith(r, pc, NextLease(MyLease(r))), Target(r) = r
       PROVE  /\ MovesTo(r, pc, r, NextLease(MyLease(r)))
              /\ LeaseKnown(r)
  <2>1. MovesTo(r, pc, r, NextLease(MyLease(r)))
    BY <1>0, <1>15, NextLeaseTyped, MoveWithStep
  <2> QED BY <1>15, <2>1 DEF MovesTo, LeaseKnown, FencedTo, Target, MyLease
<1>16. CASE PrepareTransaction(r)
  <2>1. Target(r) = r /\ DatabaseTypeOK
    BY <1>0, <1>16, Here DEF PrepareTransaction, OwnPC
  <2>2. CASE /\ PersistAttemptPreparation(r, MyLease(r))
             /\ MoveWith(r, IF Simulated(r) THEN "outcome" ELSE "mark", NextLease(MyLease(r)))
    <3> DEFINE pc == IF Simulated(r) THEN "outcome" ELSE "mark"
    <3>1. MovesTo(r, pc, r, NextLease(MyLease(r))) /\ LeaseKnown(r)
      BY <2>1, <2>2, <1>15, FencedOperations DEF PC
    <3> QED
      BY <1>16, <2>2, <3>1
      DEF PrepareTransaction, MovesTo, Moves, HandlerOrder, HasRead
  <2> QED BY <1>4, <1>16, <2>2 DEF PrepareTransaction, OwnPC
<1>17. CASE MarkBroadcasting(r)
  <2>1. Target(r) = r /\ DatabaseTypeOK
    BY <1>0, <1>17, Here DEF MarkBroadcasting, OwnPC
  <2>2. CASE MarkAttemptBroadcasting(r, MyLease(r))
             /\ MoveWith(r, "broadcast", NextLease(MyLease(r)))
    <3>1. MovesTo(r, "broadcast", r, NextLease(MyLease(r))) /\ LeaseKnown(r)
      BY <2>1, <2>2, <1>15, FencedOperations DEF PC
    <3> QED
      BY <1>17, <2>2, <3>1 DEF MarkBroadcasting, MovesTo, Moves, HandlerOrder, HasRead
  <2> QED BY <1>4, <1>17, <2>2 DEF MarkBroadcasting, OwnPC
<1>18. CASE Broadcast(r)
  <2>1. CASE ReceiveTransaction(r) /\ Move(r, "outcome")
    <3>1. MovesTo(r, "outcome", Target(r), MyLease(r)) /\ Target(r) \in Attempt
      BY <1>0, <1>18, <2>1, Here, MoveStep DEF PC, Broadcast
    <3> QED
      BY <1>18, <2>1, <3>1
      DEF Broadcast, MovesTo, Moves, LeaseKnown, HandlerOrder, HasRead, Target, MyLease
  <2> QED BY <1>4, <1>18, <2>1 DEF Broadcast, OwnPC
<1>19. CASE PersistOutcome(r)
  <2>1. Target(r) = r /\ DatabaseTypeOK
    BY <1>0, <1>19, Here DEF PersistOutcome, OwnPC
  <2>2. ASSUME PersistAttemptBroadcastOutcome(r, MyLease(r)), NEW pc \in {"complete", "undo"},
               MoveWith(r, pc, NextLease(MyLease(r))), pc = "undo" => Simulated(r)
        PROVE  Moves(r)
    <3>1. MovesTo(r, pc, r, NextLease(MyLease(r))) /\ LeaseKnown(r)
      BY <2>1, <2>2, <1>15, FencedOperations DEF PC
    <3> QED BY <2>2, <3>1 DEF MovesTo, Moves, HandlerOrder, HasRead
  <2> QED BY <1>4, <1>19, <2>2 DEF PersistOutcome, OwnPC
<1>20. CASE CompleteInDatabase(r)
  BY <1>0, <1>1, <1>2, <1>4, <1>20, Here DEF CompleteInDatabase, PC, OwnPC
<1>21. CASE UndoSimulation(r)
  BY <1>1, <1>21 DEF UndoSimulation
<1> QED
  BY <1>5, <1>6, <1>7, <1>8, <1>9, <1>11, <1>12, <1>13, <1>14, <1>16, <1>17, <1>18, <1>19,
     <1>20, <1>21
  DEF RequestStep

LEMMA ReconcilerMoves ==
  ASSUME TypeInv, EvidenceOK, NEW p \in Process, ReconcileStep(p)
  PROVE  Moves(p)
<1> USE DEF At
<1>0. /\ proc \in [Process -> ProcState] /\ MyLease(p) \in Lease /\ NoLease \in Lease
      /\ Target(p) \in Attempt
  BY Here DEF NoLease, Lease, ReconcileStep, ConfirmOnHive, ReconcileClaim, ReconcileReread,
     ReconcileEvidence, PersistHiveMatchedAccount, ReconcileConfirm, ReconcileRollback,
     ReconcileRelease
<1>1. CASE Finish(p)
  BY <1>0, <1>1, FinishStep, FinishMoves
<1>2. CASE Move(p, "rcRelease") \/ Move(p, "rcEvidence")
  <2>1. \E pc \in {"rcRelease", "rcEvidence"} : MovesTo(p, pc, Target(p), MyLease(p))
    BY <1>0, <1>2, MoveStep DEF PC
  <2> QED BY <1>0, <2>1, PlainMoves
<1>3. ASSUME NEW pc \in {"rcComplete", "rcConfirm"}, NEW l \in {NoLease, MyLease(p)},
             MovesTo(p, pc, Target(p), l), hive[Target(p)].tx = "irreversible"
      PROVE  Moves(p)
  BY <1>0, <1>3 DEF MovesTo, Moves, LeaseKnown, HandlerOrder, HasRead, Target, MyLease
<1>4. ASSUME Move(p, "rcRollback"), UNCHANGED << db, hive >>,
             attempt[Target(p)].status \in {"reserved", "prepared"} \/ NeverExecutes(Target(p))
      PROVE  Moves(p)
  <2>1. MovesTo(p, "rcRollback", Target(p), MyLease(p))
    BY <1>0, <1>4, MoveStep DEF PC
  <2> QED BY <1>0, <1>4, <2>1 DEF MovesTo, Moves, LeaseKnown, HandlerOrder, HasRead, Target, MyLease
<1>5. CASE ConfirmOnHive(p)
  BY <1>0, <1>1, <1>3, <1>5, Here, EvidenceIsSound, MoveWithStep DEF ConfirmOnHive, PC
<1>6. CASE ReconcileClaim(p)
  <2>1. CASE ClaimCreationAttempt(Target(p)) /\ MoveWith(p, "rcReread", ClaimedLease(Target(p)))
    <3>1. MovesTo(p, "rcReread", Target(p), ClaimedLease(Target(p)))
      BY <1>0, <2>1, Here, ClaimOperation, MoveWithStep DEF PC
    <3> QED
      BY <1>0, <2>1, <3>1
      DEF MovesTo, Moves, LeaseKnown, HandlerOrder, HasRead, Target, MyLease
  <2> QED BY <1>1, <1>6, <2>1 DEF ReconcileClaim
<1>7. CASE ReconcileReread(p)
  BY <1>2, <1>4, <1>7 DEF ReconcileReread
<1>8. CASE ReconcileEvidence(p)
  <2>1. CASE "created" \in Evidence(Target(p)) /\ Move(p, "rcComplete")
    BY <1>0, <1>3, <2>1, Here, EvidenceIsSound, MoveStep DEF PC
  <2> QED BY <1>0, <1>2, <1>4, <1>8, <2>1, Here, EvidenceIsSound DEF ReconcileEvidence
<1>9. CASE PersistHiveMatchedAccount(p)
  <2>1. CASE Move(p, "rcConfirm")
    BY <1>0, <1>3, <1>9, <2>1, MoveStep DEF PC, PersistHiveMatchedAccount, EvidenceOK
  <2> QED BY <1>1, <1>2, <1>9, <2>1 DEF PersistHiveMatchedAccount, GiveUp
<1>10. CASE ReconcileConfirm(p) \/ ReconcileRollback(p) \/ ReconcileRelease(p)
  BY <1>1, <1>2, <1>10 DEF ReconcileConfirm, ReconcileRollback, ReconcileRelease, GiveUp
<1> QED BY <1>5, <1>6, <1>7, <1>8, <1>9, <1>10 DEF ReconcileStep

(* Every step moves at most one process.                                    *)
LEMMA NextMoves ==
  ASSUME TypeInv, EvidenceOK, [Next]_vars
  PROVE  UNCHANGED proc \/ \E p \in Process : Moves(p)
<1>1. ASSUME NEW r \in Attempt, CheckSessionAndIdempotency(r) \/ RequestStep(r)
      PROVE  \E p \in Process : Moves(p)
  BY <1>1, RequestMoves DEF Process
<1>2. ASSUME NEW w \in Reconciler, NEW a \in Attempt, StartReconcile(w, a)
      PROVE  \E p \in Process : Moves(p)
  <2>1. w \in Process /\ NoLease \in Lease
    BY DEF Process, NoLease, Lease
  <2> QED BY <1>2, <2>1, ReconcileStart, ReconcileMoves DEF StartReconcile, TypeInv
<1>3. ASSUME NEW w \in Reconciler, NEW u \in User, StartConfirm(w, u)
      PROVE  \E p \in Process : Moves(p)
  <2>1. w \in Process
    BY DEF Process
  <2>2. account[u].by \in Attempt
    BY <1>3, <2>1, Here DEF StartConfirm, DatabaseTypeOK, AccountRow
  <2>3. MovesTo(w, "confirm", account[u].by, MyLease(w)) /\ MyLease(w) = NoLease
    BY <1>3, <2>1, <2>2, Here, ConfirmStart DEF StartConfirm, At, UnleasedPC, EarlyPC
  <2> QED
    BY <2>1, <2>3
    DEF MovesTo, Moves, LeaseKnown, HandlerOrder, HasRead, At, Target, MyLease
<1>4. ASSUME NEW p \in Process, Crash(p)
      PROVE  \E q \in Process : Moves(q)
  BY <1>4, Here, FinishStep, FinishMoves DEF Crash
<1>5. ASSUME NEW p \in Process, StorageFails(p)
      PROVE  \E q \in Process : Moves(q)
  <2>1. Target(p) \in Attempt
    BY <1>5, Here DEF StorageFails
  <2>2. CASE Move(p, "rcRelease")
    BY <2>1, <2>2, Here, MoveStep, PlainMoves DEF PC
  <2>3. CASE p \in Attempt /\ Simulated(p) /\ Move(p, "undo")
    <3>1. MovesTo(p, "undo", Target(p), MyLease(p))
      BY <2>3, Here, MoveStep DEF PC
    <3> QED
      BY <2>1, <2>3, <3>1
      DEF MovesTo, Moves, LeaseKnown, HandlerOrder, HasRead, At, Target, MyLease
  <2> QED BY <1>5, <2>2, <2>3 DEF StorageFails
<1>6. ASSUME NEW p \in Process, ReconcileStep(p)
      PROVE  \E q \in Process : Moves(q)
  BY <1>6, ReconcilerMoves
<1> QED
  BY <1>1, <1>2, <1>3, <1>4, <1>5, <1>6 DEF Next, TimePasses, HiveStep, HiveForgets, vars

------------------------------------------------------------------------------
(* The same for the fields of one row.                                      *)

Same(a) ==
  /\ attempt'[a].signed = attempt[a].signed
  /\ UNCHANGED hive

Reserves(a) ==
  /\ attempt[a].status = "absent" /\ attempt'[a].status = "reserved"
  /\ attempt'[a].version = attempt[a].version
  /\ attempt'[a].generation = attempt[a].generation
  /\ attempt'[a].leased = attempt[a].leased
  /\ attempt'[a].aged = attempt[a].aged
  /\ Same(a) /\ At(a, "reserve")

Claims(a) ==
  /\ Claimable(a)
  /\ attempt'[a].status = attempt[a].status
  /\ attempt'[a].version = attempt[a].version + 1
  /\ attempt'[a].generation = attempt[a].generation + 1
  /\ attempt'[a].leased = TRUE
  /\ attempt'[a].aged = FALSE
  /\ Same(a)

Ages(a) ==
  /\ Open(a) /\ ~attempt[a].aged
  /\ attempt'[a].status = attempt[a].status
  /\ attempt'[a].version = attempt[a].version
  /\ attempt'[a].generation = attempt[a].generation
  /\ attempt'[a].leased = attempt[a].leased
  /\ attempt'[a].aged = TRUE
  /\ Same(a) /\ (PromptClaim => ~At(a, "claim"))

Fences(a, lease) ==
  /\ Holds(a, lease) /\ Open(a)
  /\ attempt'[a].version = attempt[a].version + 1
  /\ attempt'[a].generation = attempt[a].generation
  /\ attempt'[a].aged = FALSE
  /\ attempt'[a].leased \in {attempt[a].leased, FALSE}
  /\ \/ attempt'[a].status = attempt[a].status /\ Same(a)
     \/ /\ attempt[a].status = "reserved" /\ attempt'[a].status = "prepared"
        /\ attempt'[a].signed = TRUE /\ SignTransaction(a)
        /\ At(a, "prepare") /\ lease = MyLease(a)
     \/ /\ attempt[a].status = "prepared" /\ attempt'[a].status = "broadcasting"
        /\ Same(a) /\ At(a, "mark") /\ lease = MyLease(a)
     \/ /\ attempt[a].signed
        /\ attempt'[a].status = IF Simulated(a) THEN "prepared" ELSE "broadcasting"
        /\ Same(a) /\ At(a, "outcome") /\ lease = MyLease(a)
     \/ /\ attempt'[a].status = "rolled_back"
        /\ Same(a) /\ \E p \in Process : RollsBack(p, a, lease)
     \/ /\ attempt'[a].status = "completed"
        /\ Same(a) /\ (At(a, "complete") \/ hive[a].tx = "irreversible")

RowStep(a) ==
  /\ Writes(a)
  /\ Reserves(a) \/ Claims(a) \/ Ages(a) \/ \E lease \in Lease : Fences(a, lease)

LEMMA RowSteps ==
  ASSUME TypeInv, TablesStep
  PROVE  \/ UNCHANGED << attempt, hive >>
         \/ UNCHANGED attempt /\ \E a \in Attempt : ChainStep(a) \/ Forget(a)
         \/ UNCHANGED attempt /\ \E a \in Attempt : ReceiveTransaction(a) /\ At(a, "broadcast")
         \/ \E a \in Attempt : RowStep(a)
<1>1. DatabaseTypeOK
  BY DEF TypeInv, TypeOK
<1>2. ASSUME NEW a \in Attempt, RowWritten(a), UNCHANGED hive
      PROVE  UNCHANGED << attempt, hive >> \/ RowStep(a)
  <2>1. a \in Process /\ MyLease(a) \in Lease
    BY Here DEF Process
  <2>2. CASE ReserveTicketCredit(a) /\ At(a, "reserve")
    BY <1>1, <1>2, <2>2, ReserveOperation DEF RowStep, Reserves, Same
  <2>3. CASE ClaimCreationAttempt(a)
    BY <1>1, <1>2, <2>3, ClaimOperation DEF RowStep, Claims, Same
  <2>4. CASE Age(a) /\ (PromptClaim => ~At(a, "claim"))
    BY <1>1, <1>2, <2>4, AgeOperation DEF RowStep, Ages, Same
  <2>5. CASE MarkAttemptBroadcasting(a, MyLease(a)) /\ At(a, "mark")
    <3>1. Fences(a, MyLease(a)) /\ Writes(a)
      BY <1>1, <1>2, <2>5, FencedOperations
      DEF Fences, FencedTo, Same, Holds, MarkAttemptBroadcasting, CanMarkBroadcasting
    <3> QED BY <2>1, <3>1 DEF RowStep
  <2>6. CASE PersistAttemptBroadcastOutcome(a, MyLease(a)) /\ At(a, "outcome")
    <3>1. Fences(a, MyLease(a)) /\ Writes(a)
      BY <1>1, <1>2, <2>6, FencedOperations
      DEF Fences, FencedTo, Same, Holds, PersistAttemptBroadcastOutcome, CanPersistOutcome
    <3> QED BY <2>1, <3>1 DEF RowStep
  <2>7. CASE CompleteAccountCreation(a, MyLease(a), FALSE) /\ At(a, "complete")
    <3>1. Fences(a, MyLease(a)) /\ Writes(a)
      BY <1>1, <1>2, <2>7, FencedOperations DEF Fences, FencedTo, Same
    <3> QED BY <2>1, <3>1 DEF RowStep
  <2>8. ASSUME NEW lease \in Lease, ReleaseCreationAttemptLease(a, lease)
        PROVE  RowStep(a)
    BY <1>1, <1>2, <2>8, FencedOperations DEF RowStep, Fences, FencedTo, Same
  <2>9. ASSUME NEW lease \in Lease, RollbackTicketReservation(a, lease),
               \E p \in Process : RollsBack(p, a, lease)
        PROVE  RowStep(a)
    BY <1>1, <1>2, <2>9, FencedOperations DEF RowStep, Fences, FencedTo, Same
  <2>10. ASSUME NEW lease \in Lease, CompleteAccountCreation(a, lease, TRUE),
                hive[a].tx = "irreversible"
         PROVE  RowStep(a)
    BY <1>1, <1>2, <2>10, FencedOperations DEF RowStep, Fences, FencedTo, Same
  <2>11. CASE ConfirmCompletedAttemptAccount(a)
    BY <1>2, <2>11 DEF ConfirmCompletedAttemptAccount
  <2> QED
    BY <1>2, <2>2, <2>3, <2>4, <2>5, <2>6, <2>7, <2>8, <2>9, <2>10, <2>11 DEF RowWritten
<1>3. ASSUME NEW a \in Attempt, PersistAttemptPreparation(a, MyLease(a)), At(a, "prepare"),
             SignTransaction(a)
      PROVE  RowStep(a)
  <2>1. a \in Process /\ MyLease(a) \in Lease
    BY Here DEF Process
  <2>2. Fences(a, MyLease(a)) /\ Writes(a)
    BY <1>1, <1>3, FencedOperations
    DEF Fences, FencedTo, Holds, PersistAttemptPreparation, CanPersistPreparation
  <2> QED BY <2>1, <2>2 DEF RowStep
<1> QED BY <1>2, <1>3 DEF TablesStep, db

(* What the chain has decided stays decided; only the handler's own steps   *)
(* sign and send.                                                           *)
LEMMA ChainGrows ==
  ASSUME TypeInv, TablesStep, NEW b \in Attempt
  PROVE  /\ hive[b].tx = "irreversible" => hive'[b].tx = "irreversible"
         /\ NeverExecutes(b) => NeverExecutes(b)'
         /\ hive[b].tx = "unsent" =>
              hive'[b].tx = "unsent" \/ (At(b, "broadcast") /\ ReceiveTransaction(b))
         /\ hive'[b].tx = "unsent" => hive[b].tx = "unsent"
         /\ (hive'[b].clock = "none" <=> hive[b].clock = "none")
              \/ (At(b, "prepare") /\ SignTransaction(b))
<1>1. ChainTypeOK
  BY DEF TypeInv, TypeOK
<1>2. \/ UNCHANGED hive
      \/ \E a \in Attempt : \/ SignTransaction(a) /\ At(a, "prepare")
                            \/ ReceiveTransaction(a) /\ At(a, "broadcast")
                            \/ ChainStep(a) \/ Forget(a)
  BY DEF TablesStep
<1>3. CASE UNCHANGED hive
  BY <1>3 DEF NeverExecutes, InBlock
<1>4. ASSUME NEW a \in Attempt, SignTransaction(a), At(a, "prepare")
      PROVE  /\ hive'[b].tx = hive[b].tx
             /\ NeverExecutes(b) => NeverExecutes(b)'
             /\ b # a => hive'[b] = hive[b]
  BY <1>1, <1>4 DEF ChainTypeOK, SignTransaction, NeverExecutes, InBlock
<1>5. ASSUME NEW a \in Attempt, ReceiveTransaction(a), At(a, "broadcast")
      PROVE  /\ hive'[b].clock = hive[b].clock
             /\ hive[b].tx = "irreversible" => hive'[b].tx = "irreversible"
             /\ hive'[b].tx = "unsent" => hive[b].tx = "unsent"
             /\ NeverExecutes(b) => NeverExecutes(b)'
             /\ b # a => hive'[b] = hive[b]
  BY <1>1, <1>5 DEF ChainTypeOK, ReceiveTransaction, NeverExecutes, InBlock
<1>6. ASSUME NEW a \in Attempt, ChainStep(a) \/ Forget(a)
      PROVE  /\ hive'[b].clock = "none" <=> hive[b].clock = "none"
             /\ hive[b].tx = "irreversible" => hive'[b].tx = "irreversible"
             /\ hive'[b].tx = "unsent" <=> hive[b].tx = "unsent"
             /\ NeverExecutes(b) => NeverExecutes(b)'
  BY <1>1, <1>6
  DEF ChainTypeOK, ChainStep, IncludeTransaction, ForkOut, BecomeIrreversible, ClockExpires,
      ExpirationFinal, Forget, NeverExecutes, InBlock
<1> QED BY <1>2, <1>3, <1>4, <1>5, <1>6

LEMMA RowsKept ==
  ASSUME TypeInv, RowsOK, TablesStep
  PROVE  RowsOK'
<1>1. /\ attempt \in [Attempt -> AttemptRow]
      /\ hive \in [Attempt -> [tx : TxPlace, clock : TxClock, forgotten : BOOLEAN]]
  BY DEF TypeInv, TypeOK, DatabaseTypeOK, ChainTypeOK
<1>2. CASE UNCHANGED << attempt, hive >>
  BY <1>2 DEF RowsOK
<1>3. CASE UNCHANGED attempt /\ \E a \in Attempt : ChainStep(a) \/ Forget(a)
  BY <1>1, <1>3 DEF RowsOK, ChainStep, IncludeTransaction, ForkOut, BecomeIrreversible,
     ClockExpires, ExpirationFinal, Forget
<1>4. CASE UNCHANGED attempt /\ \E a \in Attempt : ReceiveTransaction(a)
  BY <1>1, <1>4 DEF RowsOK, ReceiveTransaction
<1>5. ASSUME NEW a \in Attempt, RowStep(a)
      PROVE  RowsOK'
  <2>1. /\ \A b \in Attempt \ {a} : attempt'[b] = attempt[b] /\ hive'[b] = hive[b]
        /\ attempt'[a].signed <=> hive'[a].clock # "none"
    BY <1>1, <1>5
    DEF RowStep, Reserves, Claims, Ages, Fences, Same, Writes, SignTransaction, RowsOK
  <2>2. /\ attempt'[a].status = "absent" => ~attempt'[a].leased /\ ~attempt'[a].aged
        /\ attempt'[a].status \in {"absent", "reserved"} => ~attempt'[a].signed
    BY <1>1, <1>5
    DEF RowStep, Reserves, Claims, Ages, Fences, Same, RowsOK, Open, OpenStatus, Claimable
  <2>3. attempt'[a].leased => attempt'[a].generation > 0
    <3>1. attempt[a].generation \in Nat
      BY <1>1 DEF AttemptRow
    <3>2. \/ attempt'[a].generation = attempt[a].generation + 1
          \/ /\ attempt'[a].generation = attempt[a].generation
             /\ attempt'[a].leased => attempt[a].leased
      <4>1. CASE Claims(a)
        BY <4>1 DEF Claims
      <4>2. CASE Reserves(a) \/ Ages(a)
        BY <4>2 DEF Reserves, Ages
      <4>3. ASSUME NEW lease \in Lease, Fences(a, lease)
            PROVE  /\ attempt'[a].generation = attempt[a].generation
                   /\ attempt[a].leased
        BY <4>3 DEF Fences, Holds
      <4> QED BY <1>5, <4>1, <4>2, <4>3 DEF RowStep
    <3>3. attempt[a].leased => attempt[a].generation > 0
      BY DEF RowsOK
    <3> QED BY <3>1, <3>2, <3>3
  <2> QED BY <2>1, <2>2, <2>3 DEF RowsOK
<1> QED BY <1>2, <1>3, <1>4, <1>5, RowSteps

(* A row's version and generation only grow, and grow with every claim.     *)
LEMMA RowsGrow ==
  ASSUME TypeInv, TablesStep, NEW b \in Attempt
  PROVE  /\ attempt'[b].version >= attempt[b].version
         /\ attempt'[b].generation >= attempt[b].generation
<1>1. attempt[b].version \in Nat /\ attempt[b].generation \in Nat
  BY DEF TypeInv, TypeOK, DatabaseTypeOK, AttemptRow
<1>2. /\ attempt'[b].version \in {attempt[b].version, attempt[b].version + 1}
      /\ attempt'[b].generation \in {attempt[b].generation, attempt[b].generation + 1}
  <2>1. ASSUME NEW a \in Attempt, RowStep(a), a # b
        PROVE  attempt'[b] = attempt[b]
    BY <2>1 DEF RowStep, Writes
  <2>2. CASE RowStep(b)
    BY <2>2 DEF RowStep, Reserves, Claims, Ages, Fences
  <2> QED BY <2>1, <2>2, RowSteps
<1> QED BY <1>1, <1>2

LEMMA LeasesKept ==
  ASSUME TypeInv, TypeInv', LeasesOK, TablesStep,
         UNCHANGED proc \/ \E p \in Process : Moves(p)
  PROVE  LeasesOK'
<1> DEFINE Behind(p) ==
       Target(p) \in Attempt =>
         /\ MyLease(p).generation <= attempt[Target(p)].generation
         /\ MyLease(p).version <= attempt[Target(p)].version
           Apart(p, q) ==
       Target(p) = Target(q) /\ Target(p) \in Attempt
         /\ MyLease(p).generation = MyLease(q).generation
         => MyLease(p).generation = 0
<1>1. /\ \A b \in Attempt : /\ attempt[b].version \in Nat /\ attempt'[b].version \in Nat
                            /\ attempt[b].generation \in Nat /\ attempt'[b].generation \in Nat
      /\ \A p \in Process : /\ MyLease(p).generation \in Nat /\ MyLease(p)'.generation \in Nat
                            /\ MyLease(p).version \in Nat /\ MyLease(p)'.version \in Nat
  BY DEF TypeInv, TypeOK, DatabaseTypeOK, AttemptRow, ProcState, Lease, MyLease
<1>2. /\ \A p \in Process : Behind(p)
      /\ \A p, q \in Process : p # q => Apart(p, q)
  BY DEF LeasesOK
<1>3. ASSUME NEW p \in Process, proc'[p] = proc[p]
      PROVE  Behind(p)'
  <2>1. Target(p)' = Target(p) /\ MyLease(p)' = MyLease(p)
    BY <1>3 DEF Target, MyLease
  <2> QED BY <1>1, <1>2, <2>1, RowsGrow
<1>4. CASE UNCHANGED proc
  <2>1. \A p, q \in Process : p # q => Apart(p, q)'
    BY <1>2, <1>4 DEF Target, MyLease
  <2> QED BY <1>3, <1>4, <2>1 DEF LeasesOK
<1>5. ASSUME NEW p \in Process, Moves(p)
      PROVE  LeasesOK'
  <2>1. \A q \in Process \ {p} : /\ proc'[q] = proc[q]
                                 /\ Target(q)' = Target(q) /\ MyLease(q)' = MyLease(q)
    BY <1>5 DEF Moves, Target, MyLease
  <2>2. NoLease.generation = 0 /\ NoLease.version = 0
    BY DEF NoLease
  <2>3. CASE MyLease(p)' = NoLease
    <3>1. Behind(p)'
      BY <1>1, <2>2, <2>3
    <3>2. \A q \in Process \ {p} : Apart(p, q)' /\ Apart(q, p)'
      BY <2>2, <2>3
    <3> QED BY <1>2, <1>3, <2>1, <3>1, <3>2 DEF LeasesOK
  <2>4. CASE /\ Target(p)' = Target(p) /\ Target(p) \in Attempt
             /\ MyLease(p)' = MyLease(p)
    <3>1. Behind(p)'
      BY <1>1, <1>2, <2>4, RowsGrow
    <3>2. \A q \in Process \ {p} : Apart(p, q)' /\ Apart(q, p)'
      BY <1>2, <2>1, <2>4
    <3> QED BY <1>2, <1>3, <2>1, <3>1, <3>2 DEF LeasesOK
  <2>5. CASE /\ Target(p)' = Target(p) /\ Target(p) \in Attempt
             /\ MyLease(p)' = NextLease(MyLease(p))
             /\ attempt'[Target(p)].version = attempt[Target(p)].version + 1
             /\ attempt'[Target(p)].generation = attempt[Target(p)].generation
    <3>1. /\ MyLease(p)'.generation = MyLease(p).generation
          /\ MyLease(p)'.version = MyLease(p).version + 1
      BY <2>5, Here, NextLeaseTyped
    <3>2. Behind(p)'
      BY <1>1, <1>2, <2>5, <3>1
    <3>3. \A q \in Process \ {p} : Apart(p, q)' /\ Apart(q, p)'
      BY <1>2, <2>1, <2>5, <3>1
    <3> QED BY <1>2, <1>3, <2>1, <3>2, <3>3 DEF LeasesOK
  <2>6. CASE /\ Target(p)' = Target(p) /\ Target(p) \in Attempt
             /\ MyLease(p)' = ClaimedLease(Target(p))
             /\ ClaimCreationAttempt(Target(p))
    <3> DEFINE a == Target(p)
    <3>1. /\ MyLease(p)'.generation = attempt[a].generation + 1
          /\ MyLease(p)'.version = attempt[a].version + 1
          /\ attempt'[a].generation = attempt[a].generation + 1
          /\ attempt'[a].version = attempt[a].version + 1
      BY <2>6, Here, ClaimOperation
    <3>2. Behind(p)'
      BY <1>1, <2>6, <3>1
    <3>3. ASSUME NEW q \in Process \ {p}, Target(q)' = a
          PROVE  MyLease(q)'.generation # MyLease(p)'.generation
      <4>1. MyLease(q)'.generation <= attempt[a].generation
        BY <1>2, <2>1, <2>6, <3>3
      <4> QED BY <1>1, <2>6, <3>1, <4>1
    <3>4. \A q \in Process \ {p} : Apart(p, q)' /\ Apart(q, p)'
      BY <2>6, <3>3
    <3> QED BY <1>2, <1>3, <2>1, <3>2, <3>4 DEF LeasesOK
  <2> QED BY <1>5, <2>3, <2>4, <2>5, <2>6 DEF Moves, LeaseKnown
<1> QED BY <1>4, <1>5

LEMMA EvidenceKept ==
  ASSUME TypeInv, TypeInv', EvidenceOK, TablesStep,
         UNCHANGED proc \/ \E p \in Process : Moves(p)
  PROVE  EvidenceOK'
<1> DEFINE Known(p) ==
       /\ proc[p].pc \in {"rcComplete", "rcConfirm"} => hive[Target(p)].tx = "irreversible"
       /\ proc[p].pc \in {"reclaimExpired", "rollbackExpired"} => NeverExecutes(Target(p))
<1>1. \A b \in Attempt : /\ hive[b].tx = "irreversible" => hive'[b].tx = "irreversible"
                         /\ NeverExecutes(b) => NeverExecutes(b)'
  BY ChainGrows
<1>2. \A p \in Process : proc'[p].pc \notin {"idle", "done"} => Target(p)' \in Attempt
  BY DEF TypeInv, ProcessesOK
<1>3. ASSUME NEW p \in Process, proc'[p] = proc[p]
      PROVE  Known(p)'
  <2>1. Target(p)' = Target(p) /\ Known(p)
    BY <1>3 DEF Target, EvidenceOK
  <2> QED BY <1>1, <1>2, <1>3, <2>1 DEF NeverExecutes, InBlock
<1>4. ASSUME NEW p \in Process, Moves(p)
      PROVE  Known(p)'
  <2>1. CASE proc'[p].pc \in {"rcComplete", "rcConfirm"}
    BY <1>1, <1>2, <1>4, <2>1 DEF Moves, HasRead
  <2>2. CASE proc'[p].pc \in {"reclaimExpired", "rollbackExpired"}
    <3>1. NeverExecutes(Target(p)') /\ Target(p)' \in Attempt
      BY <1>2, <1>4, <2>2 DEF Moves, HasRead, EvidenceOK, At
    <3> QED BY <1>1, <2>2, <3>1 DEF NeverExecutes, InBlock
  <2> QED BY <2>1, <2>2
<1>5. \A p \in Process : Known(p)'
  BY <1>3, <1>4 DEF Moves
<1> QED BY <1>5 DEF EvidenceOK

(* The handler of b has stayed where it was, or has moved in its order.     *)
LEMMA HandlerStep ==
  ASSUME UNCHANGED proc \/ \E p \in Process : Moves(p), NEW b \in Attempt
  PROVE  proc'[b] = proc[b] \/ HandlerOrder(b)
<1>1. b \in Process
  BY DEF Process
<1> QED BY <1>1 DEF Moves

LEMMA SentKept ==
  ASSUME TypeInv, SentOK, TablesStep,
         UNCHANGED proc \/ \E p \in Process : Moves(p)
  PROVE  SentOK'
<1> DEFINE Early == {"absent", "reserved", "prepared"}
<1> SUFFICES ASSUME NEW b \in Attempt
             PROVE  /\ attempt'[b].status \in Early =>
                         hive'[b].tx = "unsent" /\ ~At(b, "broadcast")'
                    /\ Simulated(b) => /\ hive'[b].tx = "unsent"
                                       /\ attempt'[b].status # "broadcasting"
                                       /\ ~At(b, "mark")' /\ ~At(b, "broadcast")'
                    /\ At(b, "undo")' => Simulated(b)
  BY DEF SentOK, Simulated
<1>1. /\ attempt[b].status \in Early => hive[b].tx = "unsent" /\ ~At(b, "broadcast")
      /\ Simulated(b) => /\ hive[b].tx = "unsent" /\ attempt[b].status # "broadcasting"
                         /\ ~At(b, "mark") /\ ~At(b, "broadcast")
      /\ At(b, "undo") => Simulated(b)
  BY DEF SentOK
<1>2. /\ At(b, "broadcast")' =>
           At(b, "broadcast") \/ (MarkAttemptBroadcasting(b, MyLease(b)) /\ At(b, "mark"))
      /\ At(b, "mark")' => At(b, "mark") \/ ~Simulated(b)
      /\ At(b, "undo")' => At(b, "undo") \/ Simulated(b)
  BY HandlerStep DEF HandlerOrder, At
<1>3. MarkAttemptBroadcasting(b, MyLease(b)) => attempt'[b].status = "broadcasting"
  <2>1. b \in Process /\ DatabaseTypeOK
    BY DEF Process, TypeInv, TypeOK
  <2> QED BY <2>1, FencedOperations DEF FencedTo
<1>4. /\ attempt'[b].status \in Early => attempt[b].status \in Early
      /\ attempt'[b].status = "broadcasting" =>
           attempt[b].status = "broadcasting" \/ At(b, "mark") \/ ~Simulated(b)
  <2>1. ASSUME NEW a \in Attempt, RowStep(a), a # b
        PROVE  attempt'[b] = attempt[b]
    BY <2>1 DEF RowStep, Writes
  <2>2. CASE RowStep(b)
    <3>1. CASE Reserves(b) \/ Claims(b) \/ Ages(b)
      BY <3>1 DEF Reserves, Claims, Ages
    <3>2. ASSUME NEW lease, Fences(b, lease)
          PROVE  /\ attempt'[b].status \in Early => attempt[b].status \in Early
                 /\ attempt'[b].status = "broadcasting" =>
                      attempt[b].status = "broadcasting" \/ At(b, "mark") \/ ~Simulated(b)
      BY <1>1, <3>2 DEF Fences, Open, OpenStatus
    <3> QED BY <2>2, <3>1, <3>2 DEF RowStep
  <2> QED BY <2>1, <2>2, RowSteps
<1>5. hive[b].tx = "unsent" /\ ~At(b, "broadcast") => hive'[b].tx = "unsent"
  BY ChainGrows
<1> QED BY <1>1, <1>2, <1>3, <1>4, <1>5

------------------------------------------------------------------------------
(* Accounts.                                                                *)

(* An account is written when it is completed or confirmed; otherwise no    *)
(* attempt is completed.                                                    *)
LEMMA AccountSteps ==
  ASSUME TypeInv, TablesStep
  PROVE  \/ /\ UNCHANGED account
            /\ \A a \in Attempt : attempt'[a].status = "completed" <=> attempt[a].status = "completed"
         \/ \E a \in Attempt, lease \in Lease, m \in BOOLEAN :
              CompleteAccountCreation(a, lease, m) /\ (m => hive[a].tx = "irreversible")
         \/ \E a \in Attempt :
              ConfirmCompletedAttemptAccount(a) /\ hive[a].tx = "irreversible"
<1>0. DatabaseTypeOK
  BY DEF TypeInv, TypeOK
<1>1. CASE UNCHANGED db
  BY <1>1 DEF db
<1>2. ASSUME NEW a \in Attempt, RowWritten(a) \/ PersistAttemptPreparation(a, MyLease(a)),
             ~\E lease \in Lease, m \in BOOLEAN :
                 CompleteAccountCreation(a, lease, m) /\ (m => hive[a].tx = "irreversible"),
             ~(ConfirmCompletedAttemptAccount(a) /\ hive[a].tx = "irreversible")
      PROVE  /\ UNCHANGED account
             /\ Writes(a)
             /\ attempt'[a].status # "completed" /\ attempt[a].status # "completed"
  <2>1. CASE ReserveTicketCredit(a)
    BY <1>0, <2>1, ReserveOperation DEF ReserveTicketCredit
  <2>2. CASE ClaimCreationAttempt(a)
    BY <1>0, <2>2, ClaimOperation DEF ClaimCreationAttempt, Claimable, Open, OpenStatus
  <2>3. CASE Age(a)
    BY <1>0, <2>3, AgeOperation DEF Age, Open, OpenStatus
  <2>4. ASSUME NEW lease,
               \/ ReleaseCreationAttemptLease(a, lease)
               \/ PersistAttemptPreparation(a, lease)
               \/ MarkAttemptBroadcasting(a, lease)
               \/ PersistAttemptBroadcastOutcome(a, lease)
               \/ RollbackTicketReservation(a, lease)
        PROVE  /\ UNCHANGED account
               /\ Writes(a)
               /\ attempt'[a].status # "completed" /\ attempt[a].status # "completed"
    <3>1. UNCHANGED account
      BY <2>4 DEF ReleaseCreationAttemptLease, PersistAttemptPreparation,
         MarkAttemptBroadcasting, PersistAttemptBroadcastOutcome, RollbackTicketReservation
    <3> QED BY <1>0, <2>4, <3>1, FencedOperations DEF FencedTo, Open, OpenStatus
  <2>5. MyLease(a) \in Lease
    BY Here DEF Process
  <2> QED BY <1>2, <2>1, <2>2, <2>3, <2>4, <2>5 DEF RowWritten
<1>3. ASSUME NEW a \in Attempt, RowWritten(a) \/ PersistAttemptPreparation(a, MyLease(a))
      PROVE  \/ /\ UNCHANGED account
                /\ \A b \in Attempt :
                     attempt'[b].status = "completed" <=> attempt[b].status = "completed"
             \/ \E lease \in Lease, m \in BOOLEAN :
                  CompleteAccountCreation(a, lease, m) /\ (m => hive[a].tx = "irreversible")
             \/ ConfirmCompletedAttemptAccount(a) /\ hive[a].tx = "irreversible"
  BY <1>2, <1>3 DEF Writes
<1> QED BY <1>1, <1>3 DEF TablesStep

LEMMA AccountsKept ==
  ASSUME TypeInv, SentOK, AccountsOK, TablesStep
  PROVE  AccountsOK'
<1> DEFINE Match(a) == LET row == account[Intent[a].user] IN
             attempt[a].status = "completed"
               <=> row # NoAccount /\ row.by = a /\ (row.status = "simulated" <=> Simulated(a))
           Owner(u) == account[u] # NoAccount =>
             /\ Intent[account[u].by].user = u
             /\ account[u].status = "confirmed" => hive[account[u].by].tx = "irreversible"
<1>1. /\ \A a \in Attempt : Match(a)
      /\ \A u \in User : Owner(u)
  BY DEF AccountsOK, CompletedHasAccount
<1>2. /\ DatabaseTypeOK
      /\ \A a \in Attempt : Intent[a].user \in User
      /\ \A u \in User : account[u] # NoAccount => account[u] \in AccountRow
  BY IntentAssumption DEF TypeInv, TypeOK, DatabaseTypeOK
<1>3. \A b \in Attempt : hive[b].tx = "irreversible" => hive'[b].tx = "irreversible"
  BY ChainGrows
<1> SUFFICES (\A a \in Attempt : Match(a)') /\ (\A u \in User : Owner(u)')
  BY DEF AccountsOK, CompletedHasAccount, Simulated
<1>4. ASSUME UNCHANGED account,
             \A a \in Attempt : attempt'[a].status = "completed" <=> attempt[a].status = "completed"
      PROVE  (\A a \in Attempt : Match(a)') /\ (\A u \in User : Owner(u)')
  <2>1. \A a \in Attempt : Match(a)'
    BY <1>1, <1>4 DEF Simulated
  <2>2. \A u \in User : Owner(u)'
    BY <1>1, <1>2, <1>3, <1>4 DEF AccountRow
  <2> QED BY <2>1, <2>2
<1>5. ASSUME NEW a \in Attempt, NEW lease, NEW m \in BOOLEAN,
             CompleteAccountCreation(a, lease, m), m => hive[a].tx = "irreversible"
      PROVE  (\A b \in Attempt : Match(b)') /\ (\A u \in User : Owner(u)')
  <2> DEFINE n == Intent[a].user
             row == [by |-> a, status |-> BlockchainStatus(a, m)]
  <2>1. /\ account[n] = NoAccount
        /\ account' = [account EXCEPT ![n] = row]
        /\ attempt'[a].status = "completed"
        /\ \A b \in Attempt \ {a} : attempt'[b] = attempt[b]
    BY <1>2, <1>5, FencedOperations DEF CompleteAccountCreation, CanComplete, FencedTo, Writes
  <2>2. row \in AccountRow /\ row # NoAccount /\ row.by = a
    BY NoAccountAssumption DEF AccountRow, BlockchainStatus
  <2>3. /\ row.status = "confirmed" => hive[a].tx = "irreversible"
        /\ row.status = "simulated" <=> Simulated(a)
    BY <1>5 DEF BlockchainStatus, SentOK
  <2> HIDE DEF row
  <2>4. account'[n] = row /\ \A u \in User \ {n} : account'[u] = account[u]
    BY <1>2, <2>1 DEF DatabaseTypeOK
  <2>5. \A u \in User : Owner(u)'
    BY <1>1, <1>2, <1>3, <2>2, <2>3, <2>4 DEF AccountRow
  <2>6. ASSUME NEW b \in Attempt
        PROVE  Match(b)'
    <3>1. CASE Intent[b].user # n
      BY <1>1, <1>2, <2>1, <2>4, <3>1 DEF Simulated
    <3>2. CASE Intent[b].user = n /\ b # a
      BY <1>1, <1>2, <2>1, <2>2, <2>4, <3>2 DEF Simulated
    <3>3. CASE b = a
      BY <2>1, <2>2, <2>3, <2>4, <3>3 DEF Simulated
    <3> QED BY <3>1, <3>2, <3>3
  <2> QED BY <2>5, <2>6
<1>6. ASSUME NEW a \in Attempt, ConfirmCompletedAttemptAccount(a), hive[a].tx = "irreversible"
      PROVE  (\A b \in Attempt : Match(b)') /\ (\A u \in User : Owner(u)')
  <2> DEFINE n == Intent[a].user
             row == [account[n] EXCEPT !.status = "confirmed"]
  <2>1. /\ account' = [account EXCEPT ![n] = row]
        /\ UNCHANGED attempt
        /\ attempt[a].status = "completed" /\ ~Simulated(a)
        /\ account[n] # NoAccount /\ account[n].by = a /\ account[n].status # "simulated"
    BY <1>6 DEF ConfirmCompletedAttemptAccount, CanConfirm
  <2>2. /\ row \in AccountRow /\ row # NoAccount
        /\ row.by = a /\ row.status = "confirmed"
    BY <1>2, <2>1, NoAccountAssumption DEF AccountRow
  <2> HIDE DEF row
  <2>3. account'[n] = row /\ \A u \in User \ {n} : account'[u] = account[u]
    BY <1>2, <2>1 DEF DatabaseTypeOK
  <2>4. \A u \in User : Owner(u)'
    BY <1>1, <1>2, <1>3, <1>6, <2>2, <2>3 DEF AccountRow
  <2>5. ASSUME NEW b \in Attempt
        PROVE  Match(b)'
    <3>1. CASE Intent[b].user # n
      BY <1>1, <1>2, <2>1, <2>3, <3>1 DEF Simulated
    <3>2. CASE Intent[b].user = n
      BY <1>1, <2>1, <2>2, <2>3, <3>2 DEF Simulated
    <3> QED BY <3>1, <3>2
  <2> QED BY <2>4, <2>5
<1> QED BY <1>4, <1>5, <1>6, AccountSteps

------------------------------------------------------------------------------
(* What holds in any case.                                                  *)

LEMMA InitBase ==
  ASSUME Init
  PROVE  BaseInv
<1>1. TypeInv
  BY InitTyped
<1>2. \A p \in Process : proc[p].pc = "idle"
                         /\ MyLease(p).generation = 0 /\ MyLease(p).version = 0
  BY DEF Init, Idle, MyLease, NoLease
<1>3. \A a \in Attempt :
        /\ a \in Process
        /\ attempt[a].status = "absent" /\ ~attempt[a].leased /\ ~attempt[a].aged
        /\ ~attempt[a].signed /\ attempt[a].generation = 0 /\ attempt[a].version = 0
        /\ hive[a].tx = "unsent" /\ hive[a].clock = "none"
  BY DEF Init, DatabaseInit, ChainInit, Process
<1>4. \A u \in User : account[u] = NoAccount
  BY DEF Init, DatabaseInit
<1>5. RowsOK /\ LeasesOK
  BY <1>2, <1>3 DEF RowsOK, LeasesOK
<1>6. SentOK /\ EvidenceOK
  BY <1>2, <1>3 DEF SentOK, EvidenceOK, At
<1>7. AccountsOK
  BY <1>3, <1>4, IntentAssumption DEF AccountsOK, CompletedHasAccount
<1> QED BY <1>1, <1>5, <1>6, <1>7 DEF BaseInv

LEMMA NextBase ==
  ASSUME BaseInv, [Next]_vars
  PROVE  BaseInv'
<1>1. TypeInv /\ RowsOK /\ LeasesOK /\ SentOK /\ EvidenceOK /\ AccountsOK
  BY DEF BaseInv
<1>2. TypeInv' /\ TablesStep /\ (UNCHANGED proc \/ \E p \in Process : Moves(p))
  BY <1>1, NextTyped, NextTables, NextMoves
<1> QED
  BY <1>1, <1>2, RowsKept, LeasesKept, SentKept, EvidenceKept, AccountsKept DEF BaseInv

(* The invariant that holds in any case: typing, rows, leases, sent         *)
(* transactions, evidence and accounts.                                     *)
THEOREM BaseInvariant == Spec => []BaseInv
<1>1. Init => BaseInv
  BY InitBase
<1>2. BaseInv /\ [Next]_vars => BaseInv'
  BY NextBase
<1> QED BY <1>1, <1>2, PTL DEF Spec

(* No two processes can write to an open attempt: leases are fenced by      *)
(* generations that no two processes share.                                 *)
THEOREM LeaseHolderUnique == Spec => []SingleLeaseHolder
<1>1. BaseInv => SingleLeaseHolder
  <2> SUFFICES ASSUME BaseInv,
                      NEW p \in Process, NEW q \in Process, p # q,
                      Target(p) = Target(q), Target(p) # NoAttempt,
                      Holds(Target(p), MyLease(p)), Holds(Target(q), MyLease(q))
               PROVE  FALSE
    BY DEF SingleLeaseHolder
  <2>1. Target(p) \in Attempt
    BY DEF BaseInv, TypeInv, TypeOK, ProcState, Target
  <2>2. attempt[Target(p)].generation = 0
    BY <2>1 DEF Holds, BaseInv, LeasesOK
  <2>3. attempt[Target(p)].generation > 0
    BY <2>1 DEF Holds, BaseInv, RowsOK
  <2> QED BY <2>2, <2>3
<1> QED BY <1>1, BaseInvariant, PTL

(* An account recorded as confirmed is irreversible on Hive.                *)
THEOREM ConfirmationIsFinal == Spec => []ConfirmedIsIrreversible
<1>1. BaseInv => ConfirmedIsIrreversible
  BY DEF BaseInv, AccountsOK, ConfirmedIsIrreversible
<1> QED BY <1>1, BaseInvariant, PTL

(* Completed attempts and accounts correspond.                              *)
THEOREM CompletionMatchesAccount == Spec => []CompletedHasAccount
<1>1. BaseInv => CompletedHasAccount
  BY DEF BaseInv, AccountsOK
<1> QED BY <1>1, BaseInvariant, PTL

(* No step reopens a decided attempt, hands an account to another attempt,  *)
(* or takes a confirmation back.                                            *)
THEOREM DecisionsStay == Spec => DecisionsAreFinal
<1> DEFINE Stay ==
       /\ \A a \in Attempt : attempt[a].status \in {"completed", "rolled_back"}
                               => attempt'[a].status = attempt[a].status
       /\ \A u \in User : account[u] # NoAccount
            => /\ account'[u] # NoAccount
               /\ account'[u].by = account[u].by
               /\ account[u].status = "confirmed" => account'[u].status = "confirmed"
<1>1. ASSUME BaseInv, [Next]_vars
      PROVE  Stay
  <2>1. TypeInv /\ TablesStep
    BY <1>1, NextTables DEF BaseInv
  <2>2. ASSUME NEW b \in Attempt, attempt[b].status \in {"completed", "rolled_back"}
        PROVE  attempt'[b].status = attempt[b].status
    <3>1. ASSUME NEW a \in Attempt, RowStep(a), a # b
          PROVE  attempt'[b] = attempt[b]
      BY <3>1 DEF RowStep, Writes
    <3>2. ~RowStep(b)
      BY <2>2 DEF RowStep, Reserves, Claims, Claimable, Ages, Fences, Open, OpenStatus
    <3> QED BY <2>1, <3>1, <3>2, RowSteps
  <2>3. ASSUME NEW u \in User, account[u] # NoAccount
        PROVE  /\ account'[u] # NoAccount
               /\ account'[u].by = account[u].by
               /\ account[u].status = "confirmed" => account'[u].status = "confirmed"
    <3>1. account \in [User -> AccountRow \cup {NoAccount}] /\ account[u] \in AccountRow
      BY <2>1, <2>3 DEF TypeInv, TypeOK, DatabaseTypeOK
    <3>2. CASE UNCHANGED account
      BY <2>3, <3>2
    <3>3. ASSUME NEW a \in Attempt, NEW lease \in Lease, NEW m \in BOOLEAN,
                 CompleteAccountCreation(a, lease, m)
          PROVE  account'[u] = account[u]
      <4>1. Intent[a].user # u
        BY <2>3, <3>3 DEF CompleteAccountCreation, CanComplete
      <4> QED BY <3>1, <3>3, <4>1 DEF CompleteAccountCreation
    <3>4. ASSUME NEW a \in Attempt, ConfirmCompletedAttemptAccount(a)
          PROVE  account'[u] = account[u]
                   \/ account'[u] = [account[u] EXCEPT !.status = "confirmed"]
      BY <3>1, <3>4 DEF ConfirmCompletedAttemptAccount
    <3>5. LET row == [account[u] EXCEPT !.status = "confirmed"] IN
            row \in AccountRow /\ row.by = account[u].by /\ row.status = "confirmed"
      BY <3>1 DEF AccountRow
    <3> QED BY <2>1, <2>3, <3>2, <3>3, <3>4, <3>5, NoAccountAssumption, AccountSteps
  <2> QED BY <2>2, <2>3
<1>2. BaseInv /\ [Next]_vars => [Stay]_vars
  BY <1>1
<1> QED BY <1>2, BaseInvariant, PTL DEF Spec, DecisionsAreFinal

------------------------------------------------------------------------------
(* What PromptClaim adds.                                                   *)

(* A process that can write an attempt's row under the lease it remembers   *)
(* could write it before the step, and nobody has written it since.         *)
LEMMA HoldersRowIsUnchanged ==
  ASSUME BaseInv, TablesStep, NEW p \in Process, Target(p) \in Attempt,
         proc'[p] = proc[p], Holds(Target(p), MyLease(p))'
  PROVE  Holds(Target(p), MyLease(p)) /\ attempt'[Target(p)] = attempt[Target(p)]
<1> DEFINE b == Target(p)
           l == MyLease(p)
<1>1. /\ attempt'[b].leased /\ ~attempt'[b].aged
      /\ attempt'[b].generation = l.generation /\ attempt'[b].version = l.version
  BY DEF Holds, Target, MyLease
<1>2. /\ attempt[b].version \in Nat /\ attempt[b].generation \in Nat
      /\ l.version \in Nat /\ l.generation \in Nat
  BY DEF BaseInv, TypeInv, TypeOK, DatabaseTypeOK, AttemptRow, ProcState, Lease, MyLease
<1>3. l.generation <= attempt[b].generation /\ l.version <= attempt[b].version
  BY DEF BaseInv, LeasesOK
<1>4. ~RowStep(b)
  <2>1. ~Reserves(b)
    BY <1>1 DEF Reserves, BaseInv, RowsOK
  <2>2. ~Claims(b)
    BY <1>1, <1>2, <1>3 DEF Claims
  <2>3. ~Ages(b)
    BY <1>1 DEF Ages
  <2>4. ASSUME NEW lease \in Lease
        PROVE  ~Fences(b, lease)
    <3>1. Fences(b, lease) => attempt'[b].version = attempt[b].version + 1
      BY DEF Fences
    <3> QED BY <1>1, <1>2, <1>3, <3>1
  <2> QED BY <2>1, <2>2, <2>3, <2>4 DEF RowStep
<1>5. ASSUME NEW a \in Attempt, RowStep(a), a # b
      PROVE  attempt'[b] = attempt[b]
  BY <1>5 DEF RowStep, Writes
<1>6. attempt'[b] = attempt[b]
  BY <1>4, <1>5, RowSteps DEF BaseInv
<1> QED BY <1>1, <1>6 DEF Holds

(* A use is given back only for a transaction that never executes, or that  *)
(* no handler is about to send.                                             *)
LEMMA RollbackIsSafe ==
  ASSUME BaseInv, RollbacksOK, NEW b \in Attempt, NEW lease, NEW p \in Process,
         Holds(b, lease), Open(b), RollsBack(p, b, lease)
  PROVE  \/ NeverExecutes(b)
         \/ /\ hive[b].tx = "unsent" /\ ~At(b, "broadcast")
            /\ attempt[b].status # "broadcasting"
<1>1. CASE At(p, "rollbackStale")
  BY <1>1 DEF RollsBack, RollbacksOK, BaseInv, SentOK, Open, OpenStatus, At
<1>2. CASE At(p, "rollbackExpired")
  BY <1>2 DEF RollsBack, BaseInv, EvidenceOK, At
<1>3. CASE At(p, "rcRollback")
  BY <1>3 DEF RollsBack, RollbacksOK, BaseInv, SentOK
<1>4. CASE p = b /\ At(b, "undo")
  BY <1>4 DEF BaseInv, SentOK
<1> QED BY <1>1, <1>2, <1>3, <1>4 DEF RollsBack, At

LEMMA RolledBackKept ==
  ASSUME BaseInv, RolledBackOK, RollbacksOK, TablesStep,
         UNCHANGED proc \/ \E p \in Process : Moves(p)
  PROVE  RolledBackOK'
<1> SUFFICES ASSUME NEW b \in Attempt
             PROVE  /\ attempt'[b].status = "rolled_back" =>
                         NeverExecutes(b)' \/ (hive'[b].tx = "unsent" /\ ~At(b, "broadcast")')
                    /\ At(b, "broadcast")' /\ hive'[b].tx = "unsent" =>
                         attempt'[b].status = "broadcasting" \/ NeverExecutes(b)'
  BY DEF RolledBackOK
<1>1. /\ attempt[b].status = "rolled_back" =>
           NeverExecutes(b) \/ (hive[b].tx = "unsent" /\ ~At(b, "broadcast"))
      /\ At(b, "broadcast") /\ hive[b].tx = "unsent" =>
           attempt[b].status = "broadcasting" \/ NeverExecutes(b)
  BY DEF RolledBackOK
<1>2. /\ NeverExecutes(b) => NeverExecutes(b)'
      /\ hive[b].tx = "unsent" /\ ~At(b, "broadcast") => hive'[b].tx = "unsent"
      /\ hive'[b].tx = "unsent" => hive[b].tx = "unsent"
  BY ChainGrows DEF BaseInv
<1>3. At(b, "broadcast")' => At(b, "broadcast") \/ attempt'[b].status = "broadcasting"
  <2>1. b \in Process /\ DatabaseTypeOK
    BY DEF Process, BaseInv, TypeInv, TypeOK
  <2> QED BY <2>1, HandlerStep, FencedOperations DEF HandlerOrder, At, FencedTo
<1>4. \/ attempt'[b].status = attempt[b].status
      \/ attempt[b].status # "broadcasting" /\ attempt'[b].status # "rolled_back"
      \/ attempt'[b].status = "completed" /\ hive[b].tx # "unsent"
      \/ NeverExecutes(b)
      \/ ~At(b, "broadcast") /\ attempt'[b].status # "rolled_back"
      \/ /\ hive[b].tx = "unsent" /\ ~At(b, "broadcast")
         /\ attempt[b].status # "broadcasting"
  <2>1. ASSUME NEW a \in Attempt, RowStep(a), a # b
        PROVE  attempt'[b] = attempt[b]
    BY <2>1 DEF RowStep, Writes
  <2>2. CASE Reserves(b) \/ Claims(b) \/ Ages(b)
    BY <2>2 DEF Reserves, Claims, Ages
  <2>3. ASSUME NEW lease \in Lease, Fences(b, lease), NEW p \in Process, RollsBack(p, b, lease)
        PROVE  \/ NeverExecutes(b)
               \/ /\ hive[b].tx = "unsent" /\ ~At(b, "broadcast")
                  /\ attempt[b].status # "broadcasting"
    BY <2>3, RollbackIsSafe DEF Fences
  <2>4. ASSUME NEW lease \in Lease, Fences(b, lease)
        PROVE  \/ attempt'[b].status = attempt[b].status
               \/ \E p \in Process : RollsBack(p, b, lease)
               \/ attempt'[b].status = "completed" /\ hive[b].tx # "unsent"
               \/ ~At(b, "broadcast") /\ attempt'[b].status # "rolled_back"
    BY <2>4 DEF Fences, At
  <2> QED BY <2>1, <2>2, <2>3, <2>4, RowSteps DEF RowStep, BaseInv
<1> QED BY <1>1, <1>2, <1>3, <1>4

(* A handler that has lost its attempt does not get it back.                *)
LEMMA AbandonedStays ==
  ASSUME BaseInv, RolledBackOK, TablesStep, TypeInv',
         UNCHANGED proc \/ \E p \in Process : Moves(p),
         NEW b \in Attempt, Abandoned(b), attempt[b].status \notin {"absent", "broadcasting"}
  PROVE  Abandoned(b)' /\ attempt'[b].status \notin {"absent", "broadcasting"}
<1>1. b \in Process /\ DatabaseTypeOK
  BY DEF Process, BaseInv, TypeInv, TypeOK
<1>2. proc[b].pc \in {"prepare", "mark", "outcome"} => ~Holds(b, MyLease(b))
  <2>1. MyLease(b).generation \in Nat /\ attempt[b].generation \in Nat
    BY <1>1, Here DEF BaseInv, Lease, DatabaseTypeOK, AttemptRow
  <2> QED BY <2>1 DEF Abandoned, Holds
<1>3. attempt'[b].status \notin {"absent", "broadcasting"}
  <2>1. ASSUME NEW a \in Attempt, RowStep(a), a # b
        PROVE  attempt'[b] = attempt[b]
    BY <2>1 DEF RowStep, Writes
  <2>2. ASSUME RowStep(b)
        PROVE  attempt'[b].status \notin {"absent", "broadcasting"}
    BY <1>2, <2>2 DEF RowStep, Reserves, Claims, Ages, Fences, At
  <2> QED BY <2>1, <2>2, RowSteps DEF BaseInv
<1>4. proc'[b] = proc[b] \/ (HandlerOrder(b) /\ proc'[b].pc \notin {"claim", "prepare", "mark", "outcome"})
  <2>1. SUFFICES ASSUME HandlerOrder(b)
                 PROVE  proc'[b].pc \notin {"claim", "prepare", "mark", "outcome"}
    BY HandlerStep
  <2>2. ~At(b, "claim")'
    BY <2>1 DEF HandlerOrder, ReserveTicketCredit, CanReserve
  <2>3. ~At(b, "prepare")'
    BY <2>1 DEF HandlerOrder, Abandoned
  <2>4. ~(PersistAttemptPreparation(b, MyLease(b)) /\ At(b, "prepare"))
    BY <1>2 DEF PersistAttemptPreparation, CanPersistPreparation, At
  <2>5. ~(ReceiveTransaction(b) /\ At(b, "broadcast"))
    BY DEF ReceiveTransaction, RolledBackOK, NeverExecutes
  <2> QED BY <2>1, <2>2, <2>3, <2>4, <2>5 DEF HandlerOrder, At
<1>5. Abandoned(b)'
  <2>1. CASE proc'[b].pc \notin {"claim", "prepare", "mark", "outcome"}
    BY <2>1 DEF Abandoned, At
  <2>2. CASE proc'[b] = proc[b] /\ proc[b].pc \in {"prepare", "mark", "outcome"}
    <3>1. /\ Target(b) = b /\ MyLease(b)' = MyLease(b)
          /\ MyLease(b).generation \in Nat /\ attempt[b].generation \in Nat
          /\ attempt'[b].generation \in Nat
      BY <1>1, <2>2, Here
      DEF OwnPC, BaseInv, Lease, DatabaseTypeOK, AttemptRow, MyLease, TypeInv, TypeOK
    <3>2. MyLease(b).generation <= attempt[b].generation
      BY <1>1, <3>1 DEF BaseInv, LeasesOK
    <3>3. CASE MyLease(b).generation < attempt[b].generation
      <4>1. attempt'[b].generation >= attempt[b].generation
        BY RowsGrow DEF BaseInv
      <4> QED BY <2>2, <3>1, <3>3, <4>1 DEF Abandoned, At
    <3>4. CASE attempt[b].aged
      <4>1. ASSUME NEW a \in Attempt, RowStep(a), a # b
            PROVE  attempt'[b] = attempt[b]
        BY <4>1 DEF RowStep, Writes
      <4>2. CASE Claims(b)
        BY <2>2, <3>1, <3>2, <4>2 DEF Claims, Abandoned, At
      <4>3. CASE Ages(b)
        BY <2>2, <4>3 DEF Ages, Abandoned, At
      <4>4. ~Reserves(b) /\ \A lease \in Lease : ~Fences(b, lease)
        BY <3>4 DEF Reserves, Fences, Holds
      <4>5. CASE attempt'[b] = attempt[b]
        BY <2>2, <3>4, <4>5 DEF Abandoned, At
      <4> QED BY <4>1, <4>2, <4>3, <4>4, <4>5, RowSteps DEF RowStep, BaseInv
    <3> QED BY <2>2, <3>3, <3>4 DEF Abandoned
  <2>3. ~(proc'[b] = proc[b] /\ proc[b].pc = "claim")
    BY DEF Abandoned, At
  <2> QED BY <1>4, <2>1, <2>2, <2>3
<1> QED BY <1>3, <1>5

LEMMA RollbacksKept ==
  ASSUME BaseInv, PromptInv, TablesStep, TypeInv',
         UNCHANGED proc \/ \E p \in Process : Moves(p)
  PROVE  RollbacksOK'
<1> SUFFICES ASSUME NEW p \in Process
             PROVE  /\ proc'[p].pc \in {"reclaimStale", "rollbackStale"} =>
                         /\ Abandoned(Target(p))'
                         /\ attempt'[Target(p)'].status \notin {"absent", "broadcasting"}
                    /\ At(p, "rcRollback")' /\ Holds(Target(p), MyLease(p))' =>
                         \/ attempt'[Target(p)'].status \in {"reserved", "prepared"}
                         \/ NeverExecutes(Target(p))'
  BY DEF RollbacksOK
<1>1. RolledBackOK /\ RollbacksOK /\ ClaimsOK
  BY DEF PromptInv
<1>2. proc'[p].pc \notin {"idle", "done"} => Target(p)' \in Attempt
  BY DEF TypeInv, ProcessesOK
<1>3. proc'[p] = proc[p] \/ HasRead(p)
  BY DEF Moves
<1>4. ASSUME proc'[p].pc \in {"reclaimStale", "rollbackStale"}
      PROVE  /\ Abandoned(Target(p))'
             /\ attempt'[Target(p)'].status \notin {"absent", "broadcasting"}
  <2> DEFINE b == proc'[p].target
  <2>1. b \in Attempt
    BY <1>2, <1>4 DEF Target
  <2>2. Abandoned(b) /\ attempt[b].status \notin {"absent", "broadcasting"}
    <3>1. CASE proc'[p] = proc[p]
      BY <1>1, <1>4, <3>1 DEF RollbacksOK, Target
    <3>2. CASE HasRead(p) /\ At(p, "rollbackStale")'
      BY <1>1, <3>2 DEF HasRead, RollbacksOK, Target, At
    <3>3. CASE HasRead(p) /\ At(p, "reclaimStale")'
      <4>1. /\ Open(b) /\ attempt[b].aged /\ attempt[b].status # "broadcasting"
        BY <3>3 DEF HasRead, Target
      <4>2. ~At(b, "claim")
        BY <1>1, <2>1, <4>1 DEF ClaimsOK
      <4> QED BY <4>1, <4>2 DEF Abandoned, Open, OpenStatus
    <3> QED BY <1>3, <1>4, <3>1, <3>2, <3>3 DEF At
  <2>3. \A c \in Attempt :
          Abandoned(c) /\ attempt[c].status \notin {"absent", "broadcasting"}
            => Abandoned(c)' /\ attempt'[c].status \notin {"absent", "broadcasting"}
    BY <1>1, AbandonedStays
  <2>4. attempt'[b].status \notin {"absent", "broadcasting"}
    BY <2>1, <2>2, <2>3
  <2>5. Abandoned(Target(p))'
    BY <2>1, <2>2, <2>3 DEF Abandoned, Target, At, MyLease
  <2> QED BY <2>4, <2>5 DEF Target
<1>5. ASSUME At(p, "rcRollback")', Holds(Target(p), MyLease(p))'
      PROVE  \/ attempt'[Target(p)'].status \in {"reserved", "prepared"}
             \/ NeverExecutes(Target(p))'
  <2>1. CASE proc'[p] = proc[p]
    <3>1. Target(p)' = Target(p) /\ Target(p) \in Attempt /\ At(p, "rcRollback")
      BY <1>2, <1>5, <2>1 DEF At, Target
    <3>2. Holds(Target(p), MyLease(p)) /\ attempt'[Target(p)] = attempt[Target(p)]
      BY <1>5, <2>1, <3>1, HoldersRowIsUnchanged
    <3>3. attempt[Target(p)].status \in {"reserved", "prepared"} \/ NeverExecutes(Target(p))
      BY <1>1, <3>1, <3>2 DEF RollbacksOK
    <3>4. NeverExecutes(Target(p)) => hive'[Target(p)].clock = "final"
                                     /\ hive'[Target(p)].tx \notin {"reversible", "irreversible"}
      BY <3>1, ChainGrows DEF BaseInv, NeverExecutes, InBlock
    <3> QED BY <3>1, <3>2, <3>3, <3>4 DEF NeverExecutes, InBlock
  <2>2. CASE HasRead(p)
    <3>1. /\ Target(p)' = Target(p)
          /\ UNCHANGED << db, hive >>
          /\ attempt[Target(p)].status \in {"reserved", "prepared"} \/ NeverExecutes(Target(p))
      BY <1>5, <2>2 DEF HasRead
    <3> QED BY <3>1 DEF db, NeverExecutes, InBlock
  <2> QED BY <1>3, <2>1, <2>2
<1> QED BY <1>4, <1>5

LEMMA ClaimsKept ==
  ASSUME PromptClaim = TRUE, BaseInv, ClaimsOK, TablesStep,
         UNCHANGED proc \/ \E p \in Process : Moves(p)
  PROVE  ClaimsOK'
<1> SUFFICES ASSUME NEW b \in Attempt, At(b, "claim")'
             PROVE  ~attempt'[b].aged
  BY DEF ClaimsOK
<1>1. TypeInv /\ DatabaseTypeOK
  BY DEF BaseInv, TypeInv, TypeOK
<1>2. CASE HandlerOrder(b)
  <2>1. ReserveTicketCredit(b)
    BY <1>2 DEF HandlerOrder
  <2>2. ~attempt[b].aged /\ attempt'[b].aged = attempt[b].aged
    BY <1>1, <2>1, ReserveOperation DEF BaseInv, RowsOK
  <2> QED BY <2>2
<1>3. CASE At(b, "claim")
  <2>1. ~attempt[b].aged
    BY <1>3 DEF ClaimsOK
  <2>2. ASSUME NEW a \in Attempt, RowStep(a), a # b
        PROVE  attempt'[b] = attempt[b]
    BY <2>2 DEF RowStep, Writes
  <2>3. RowStep(b) => ~attempt'[b].aged
    BY <1>3 DEF RowStep, Reserves, Claims, Ages, Fences, At
  <2> QED BY <1>1, <2>1, <2>2, <2>3, RowSteps
<1> QED BY <1>2, <1>3, HandlerStep DEF At

LEMMA InitPrompt ==
  ASSUME Init
  PROVE  PromptInv
<1>1. \A p \in Process : proc[p].pc = "idle"
  BY DEF Init, Idle
<1>2. \A a \in Attempt : a \in Process /\ attempt[a].status = "absent"
  BY DEF Init, DatabaseInit, Process
<1> QED BY <1>1, <1>2 DEF PromptInv, RolledBackOK, RollbacksOK, ClaimsOK, At

(* With prompt claims, every reachable state satisfies both invariants.     *)
THEOREM PromptInvariant ==
  ASSUME PromptClaim = TRUE
  PROVE  Spec => [](BaseInv /\ PromptInv)
<1>1. Init => BaseInv /\ PromptInv
  BY InitBase, InitPrompt
<1>2. BaseInv /\ PromptInv /\ [Next]_vars => BaseInv' /\ PromptInv'
  <2> SUFFICES ASSUME BaseInv, PromptInv, [Next]_vars
               PROVE  BaseInv' /\ PromptInv'
    OBVIOUS
  <2>1. BaseInv'
    BY NextBase
  <2>2. TypeInv' /\ TablesStep /\ (UNCHANGED proc \/ \E p \in Process : Moves(p))
    BY <2>1, NextTables, NextMoves DEF BaseInv
  <2>3. RolledBackOK' /\ RollbacksOK' /\ ClaimsOK'
    BY <2>2, RolledBackKept, RollbacksKept, ClaimsKept DEF PromptInv
  <2> QED BY <2>1, <2>3 DEF PromptInv
<1> QED BY <1>1, <1>2, PTL DEF Spec

(* A use given back never belonged to an account that Hive has created:     *)
(* unsent or expired for good, its transaction is in no block.              *)
THEOREM ExecutedUseIsSpent ==
  ASSUME PromptClaim = TRUE
  PROVE  Spec => []ExecutedIsNeverRestored
<1>1. BaseInv /\ PromptInv => ExecutedIsNeverRestored
  BY DEF PromptInv, RolledBackOK, ExecutedIsNeverRestored, NeverExecutes, InBlock
<1> QED BY <1>1, PromptInvariant, PTL

(* No transaction reaches the network unless its row says "broadcasting".   *)
THEOREM SentIsRecorded ==
  ASSUME PromptClaim = TRUE
  PROVE  Spec => BroadcastIsRecorded
<1> DEFINE Recorded ==
       \A a \in Attempt : hive[a].tx = "unsent" /\ hive'[a].tx = "sent"
                            => attempt[a].status = "broadcasting"
<1>1. ASSUME BaseInv, PromptInv, [Next]_vars
      PROVE  Recorded
  <2> SUFFICES ASSUME NEW a \in Attempt, hive[a].tx = "unsent", hive'[a].tx = "sent"
               PROVE  attempt[a].status = "broadcasting"
    OBVIOUS
  <2>1. At(a, "broadcast") /\ ReceiveTransaction(a)
    BY <1>1, NextTables, ChainGrows DEF BaseInv
  <2> QED BY <1>1, <2>1 DEF PromptInv, RolledBackOK, ReceiveTransaction, NeverExecutes
<1>2. BaseInv /\ PromptInv /\ [Next]_vars => [Recorded]_vars
  BY <1>1
<1> QED BY <1>2, PromptInvariant, PTL DEF Spec, BroadcastIsRecorded

------------------------------------------------------------------------------
(* The uses of a ticket.                                                    *)

(* The steps that matter to a use are four; the others leave an attempt     *)
(* open, or as it was.                                                      *)
UsesStand ==
  /\ UNCHANGED << remaining, account >>
  /\ \A b \in Attempt : \/ attempt'[b].status = attempt[b].status
                        \/ /\ attempt[b].status \in OpenStatus
                           /\ attempt'[b].status \in OpenStatus
  /\ \/ UNCHANGED hive
     \/ \E a \in Attempt : \/ SignTransaction(a) \/ ReceiveTransaction(a)
                           \/ ChainStep(a) \/ Forget(a)

LEMMA UseSteps ==
  ASSUME TypeInv, TablesStep
  PROVE  \/ UsesStand
         \/ /\ UNCHANGED hive
            /\ \E a \in Attempt, lease \in Lease :
                 \/ ReserveTicketCredit(a)
                 \/ /\ RollbackTicketReservation(a, lease)
                    /\ \E p \in Process : RollsBack(p, a, lease)
                 \/ \E m \in BOOLEAN : /\ CompleteAccountCreation(a, lease, m)
                                       /\ m => hive[a].tx = "irreversible"
                 \/ ConfirmCompletedAttemptAccount(a) /\ hive[a].tx = "irreversible"
<1>1. DatabaseTypeOK /\ \A a \in Attempt : MyLease(a) \in Lease
  BY Here DEF TypeInv, TypeOK, Process
<1>2. ASSUME NEW a \in Attempt, NEW lease \in Lease,
             \/ ClaimCreationAttempt(a) \/ Age(a)
             \/ ReleaseCreationAttemptLease(a, lease)
             \/ PersistAttemptPreparation(a, lease)
             \/ MarkAttemptBroadcasting(a, lease)
             \/ PersistAttemptBroadcastOutcome(a, lease)
      PROVE  /\ UNCHANGED << remaining, account >>
             /\ \A b \in Attempt : \/ attempt'[b].status = attempt[b].status
                                   \/ /\ attempt[b].status \in OpenStatus
                                      /\ attempt'[b].status \in OpenStatus
  <2>1. UNCHANGED << remaining, account >>
    BY <1>2 DEF ClaimCreationAttempt, Age, ReleaseCreationAttemptLease,
       PersistAttemptPreparation, MarkAttemptBroadcasting, PersistAttemptBroadcastOutcome
  <2>2. /\ Writes(a)
        /\ \/ attempt'[a].status = attempt[a].status
           \/ attempt[a].status \in OpenStatus /\ attempt'[a].status \in OpenStatus
    BY <1>1, <1>2, ClaimOperation, AgeOperation, FencedOperations DEF FencedTo, Open, OpenStatus
  <2> QED BY <2>1, <2>2 DEF Writes
<1>3. CASE UNCHANGED db
  BY <1>3 DEF TablesStep, UsesStand, db, RowWritten, ReserveTicketCredit
<1>4. ASSUME NEW a \in Attempt, RowWritten(a), UNCHANGED hive
      PROVE  \/ UsesStand
             \/ \E lease \in Lease :
                 \/ ReserveTicketCredit(a)
                 \/ /\ RollbackTicketReservation(a, lease)
                    /\ \E p \in Process : RollsBack(p, a, lease)
                 \/ \E m \in BOOLEAN : /\ CompleteAccountCreation(a, lease, m)
                                       /\ m => hive[a].tx = "irreversible"
                 \/ ConfirmCompletedAttemptAccount(a) /\ hive[a].tx = "irreversible"
  BY <1>1, <1>2, <1>4 DEF RowWritten, UsesStand
<1>5. ASSUME NEW a \in Attempt, PersistAttemptPreparation(a, MyLease(a)), SignTransaction(a)
      PROVE  UsesStand
  BY <1>1, <1>2, <1>5 DEF UsesStand
<1> QED BY <1>3, <1>4, <1>5 DEF TablesStep, db

------------------------------------------------------------------------------
(* Conservation.                                                            *)

UsedStatus == OpenStatus \cup {"completed"}
Used(t) == {a \in Attempt : Intent[a].ticket = t /\ attempt[a].status \in UsedStatus}

LEMMA LedgerKept ==
  ASSUME TypeInv, TablesStep, TicketUsesConserved
  PROVE  TicketUsesConserved'
<1> SUFFICES ASSUME NEW t \in Ticket
             PROVE  remaining'[t] + Cardinality(Used(t)') = TotalUses[t]
  BY DEF TicketUsesConserved, Uses, Used, UsedStatus
<1>1. /\ remaining[t] + Cardinality(Used(t)) = TotalUses[t]
      /\ IsFiniteSet(Used(t)) /\ Cardinality(Used(t)) \in Nat
      /\ remaining[t] \in Nat /\ TotalUses[t] \in Nat
      /\ remaining \in [Ticket -> Nat]
      /\ DatabaseTypeOK
  <2>1. Used(t) \in SUBSET Attempt
    BY DEF Used
  <2>2. IsFiniteSet(Used(t)) /\ Cardinality(Used(t)) \in Nat
    BY <2>1, FinitelyManyAssumption, FS_Subset, FS_CardinalityType
  <2>3. remaining[t] + Cardinality(Used(t)) = TotalUses[t]
    BY DEF TicketUsesConserved, Uses, Used, UsedStatus
  <2> QED BY <2>2, <2>3, TotalUsesAssumption DEF TypeInv, TypeOK, DatabaseTypeOK
<1>2. ASSUME UNCHANGED remaining,
             \A b \in Attempt : attempt'[b].status \in UsedStatus <=> attempt[b].status \in UsedStatus
      PROVE  remaining'[t] + Cardinality(Used(t)') = TotalUses[t]
  <2>1. Used(t)' = Used(t)
    BY <1>2 DEF Used
  <2> QED BY <1>1, <1>2, <2>1
<1>3. ASSUME NEW a \in Attempt, ReserveTicketCredit(a)
      PROVE  remaining'[t] + Cardinality(Used(t)') = TotalUses[t]
  <2>1. /\ attempt[a].status = "absent" /\ attempt'[a].status = "reserved"
        /\ \A b \in Attempt \ {a} : attempt'[b] = attempt[b]
    BY <1>1, <1>3, ReserveOperation DEF Writes
  <2>2. remaining' = [remaining EXCEPT ![Intent[a].ticket] = @ - 1]
    BY <1>3 DEF ReserveTicketCredit
  <2>3. CASE Intent[a].ticket = t
    <3>1. Used(t)' = Used(t) \cup {a} /\ a \notin Used(t)
      BY <2>1, <2>3 DEF Used, UsedStatus, OpenStatus
    <3>2. Cardinality(Used(t)') = Cardinality(Used(t)) + 1
      BY <1>1, <3>1, FS_AddElement
    <3>3. remaining'[t] = remaining[t] - 1
      BY <1>1, <2>2, <2>3
    <3> QED BY <1>1, <3>2, <3>3
  <2>4. CASE Intent[a].ticket # t
    <3>1. Used(t)' = Used(t)
      BY <2>1, <2>4 DEF Used
    <3>2. remaining'[t] = remaining[t]
      BY <1>1, <2>2, <2>4
    <3> QED BY <1>1, <3>1, <3>2
  <2> QED BY <2>3, <2>4
<1>4. ASSUME NEW a \in Attempt, NEW lease, RollbackTicketReservation(a, lease)
      PROVE  remaining'[t] + Cardinality(Used(t)') = TotalUses[t]
  <2>1. /\ attempt[a].status \in OpenStatus /\ attempt'[a].status = "rolled_back"
        /\ \A b \in Attempt \ {a} : attempt'[b] = attempt[b]
    BY <1>1, <1>4, FencedOperations DEF FencedTo, Writes, Open
  <2>2. remaining' = [remaining EXCEPT ![Intent[a].ticket] = @ + 1]
    BY <1>4 DEF RollbackTicketReservation
  <2>3. CASE Intent[a].ticket = t
    <3>1. Used(t)' = Used(t) \ {a} /\ a \in Used(t)
      BY <2>1, <2>3 DEF Used, UsedStatus, OpenStatus
    <3>2. Cardinality(Used(t)') = Cardinality(Used(t)) - 1
      BY <1>1, <3>1, FS_RemoveElement
    <3>3. remaining'[t] = remaining[t] + 1
      BY <1>1, <2>2, <2>3
    <3> QED BY <1>1, <3>2, <3>3
  <2>4. CASE Intent[a].ticket # t
    <3>1. Used(t)' = Used(t)
      BY <2>1, <2>4 DEF Used
    <3>2. remaining'[t] = remaining[t]
      BY <1>1, <2>2, <2>4
    <3> QED BY <1>1, <3>1, <3>2
  <2> QED BY <2>3, <2>4
<1>5. ASSUME NEW a \in Attempt, NEW lease, NEW m \in BOOLEAN, CompleteAccountCreation(a, lease, m)
      PROVE  /\ UNCHANGED remaining
             /\ \A b \in Attempt : attempt'[b].status \in UsedStatus <=> attempt[b].status \in UsedStatus
  <2>1. /\ attempt[a].status \in OpenStatus /\ attempt'[a].status = "completed"
        /\ \A b \in Attempt \ {a} : attempt'[b] = attempt[b]
    BY <1>1, <1>5, FencedOperations DEF FencedTo, Writes, Open
  <2> QED BY <1>5, <2>1 DEF CompleteAccountCreation, UsedStatus
<1>6. ASSUME NEW a \in Attempt, ConfirmCompletedAttemptAccount(a)
      PROVE  UNCHANGED << attempt, remaining >>
  BY <1>6 DEF ConfirmCompletedAttemptAccount
<1>7. UsesStand => /\ UNCHANGED remaining
                   /\ \A b \in Attempt :
                        attempt'[b].status \in UsedStatus <=> attempt[b].status \in UsedStatus
  BY DEF UsesStand, UsedStatus
<1> QED BY <1>2, <1>3, <1>4, <1>5, <1>6, <1>7, UseSteps

(* No interleaving of reservations, rollbacks, retries and reconcilers      *)
(* loses or forges a use of a ticket, whatever stalls.                      *)
THEOREM UsesAreConserved == Spec => []TicketUsesConserved
<1>1. Init => TicketUsesConserved
  <2> SUFFICES ASSUME Init, NEW t \in Ticket
               PROVE  remaining[t] + Cardinality(Used(t)) = TotalUses[t]
    BY DEF TicketUsesConserved, Uses, Used, UsedStatus
  <2>1. Used(t) = {}
    BY DEF Init, DatabaseInit, Used, UsedStatus, OpenStatus
  <2>2. remaining[t] = TotalUses[t] /\ TotalUses[t] \in Nat
    BY TotalUsesAssumption DEF Init, DatabaseInit
  <2> QED BY <2>1, <2>2, FS_EmptySet
<1>2. BaseInv /\ TicketUsesConserved /\ [Next]_vars => TicketUsesConserved'
  BY NextTables, LedgerKept DEF BaseInv
<1> QED BY <1>1, <1>2, BaseInvariant, PTL DEF Spec

------------------------------------------------------------------------------
(* Refinement.                                                              *)

PromptState == BaseInv /\ PromptInv

(* What became of a use, by the status of its attempt.                      *)
LEMMA UseStates ==
  ASSUME BaseInv, NEW a \in Attempt
  PROVE  /\ attempt[a].status \in Status
         /\ UseOf(a) = "none" <=> attempt[a].status = "absent"
         /\ UseOf(a) = "held" <=> attempt[a].status \in OpenStatus
         /\ UseOf(a) = "returned" <=> attempt[a].status = "rolled_back"
         /\ UseOf(a) \in {"spent", "settled"} <=> attempt[a].status = "completed"
         /\ attempt[a].status = "completed" =>
              /\ account[Intent[a].user] # NoAccount /\ account[Intent[a].user].by = a
              /\ UseOf(a) = "settled" <=> account[Intent[a].user].status = "confirmed"
         /\ UseOf(a) = "settled" => hive[a].tx = "irreversible"
<1>1. attempt[a].status \in Status /\ Intent[a].user \in User
  BY IntentAssumption DEF BaseInv, TypeInv, TypeOK, DatabaseTypeOK, AttemptRow
<1>2. attempt[a].status = "completed" =>
        account[Intent[a].user] # NoAccount /\ account[Intent[a].user].by = a
  BY DEF BaseInv, AccountsOK, CompletedHasAccount
<1>3. UseOf(a) = "settled" =>
        attempt[a].status = "completed" /\ account[Intent[a].user].status = "confirmed"
  BY <1>1 DEF UseOf, Status, OpenStatus
<1>4. UseOf(a) = "settled" => hive[a].tx = "irreversible"
  BY <1>1, <1>2, <1>3 DEF BaseInv, AccountsOK
<1> QED BY <1>1, <1>2, <1>4 DEF UseOf, Status, OpenStatus

LEMMA InitImplements ==
  ASSUME Init
  PROVE  Promise!UseInit
<1>1. remaining = TotalUses
  BY DEF Init, DatabaseInit
<1>2. ASSUME NEW a \in Attempt
      PROVE  UseOf(a) = "none"
  <2>1. attempt[a].status = "absent"
    BY DEF Init, DatabaseInit
  <2> QED BY <2>1 DEF UseOf, OpenStatus
<1>3. ASSUME NEW a \in Attempt
      PROVE  InBlock(a) = FALSE
  <2>1. ~InBlock(a)
    BY DEF Init, ChainInit, InBlock
  <2> QED BY <2>1 DEF InBlock
<1> QED BY <1>1, <1>2, <1>3, Zenon DEF Promise!UseInit

(* A step that leaves every attempt's use as it was.                        *)
LEMMA StandImplements ==
  ASSUME PromptState, BaseInv', UsesStand, TablesStep
  PROVE  [Promise!UseNext]_Promise!useVars
<1> DEFINE use == [a \in Attempt |-> UseOf(a)]
           executed == [a \in Attempt |-> InBlock(a)]
<1>1. UNCHANGED remaining /\ use' = use
  <2>1. \A a \in Attempt : UseOf(a)' = UseOf(a)
    BY DEF UsesStand, UseOf, OpenStatus
  <2> QED BY <2>1 DEF UsesStand
<1>2. ChainTypeOK
  BY DEF PromptState, BaseInv, TypeInv, TypeOK
<1>3. ASSUME \A a \in Attempt : InBlock(a)' = InBlock(a)
      PROVE  UNCHANGED Promise!useVars
  BY <1>1, <1>3 DEF Promise!useVars
<1>4. ASSUME NEW a \in Attempt, IncludeTransaction(a)
      PROVE  Promise!Execute(a)
  <2>1. /\ hive[a].tx = "sent" /\ hive[a].clock # "final"
        /\ executed' = [executed EXCEPT ![a] = TRUE]
    BY <1>2, <1>4 DEF IncludeTransaction, ChainTypeOK, InBlock
  <2>2. ~Simulated(a) /\ attempt[a].status \notin {"absent", "rolled_back"}
    BY <2>1 DEF PromptState, BaseInv, PromptInv, SentOK, RolledBackOK, NeverExecutes
  <2>3. UseOf(a) \in {"held", "spent"}
    BY <2>1, <2>2, UseStates DEF PromptState, Status
  <2> QED BY <1>1, <2>1, <2>2, <2>3 DEF Promise!Execute, Promise!Simulated, Simulated
<1>5. ASSUME NEW a \in Attempt, ForkOut(a)
      PROVE  Promise!Revert(a)
  <2>1. /\ hive[a].tx = "reversible"
        /\ hive'[a].tx = "sent"
        /\ \A b \in Attempt \ {a} : hive'[b] = hive[b]
    BY <1>2, <1>5 DEF ForkOut, ChainTypeOK
  <2>3. executed' = [executed EXCEPT ![a] = FALSE]
    <3>1. \A b \in Attempt \ {a} : InBlock(b)' = InBlock(b)
      BY <2>1 DEF InBlock
    <3>2. InBlock(a)' = FALSE
      <4>1. ~InBlock(a)'
        BY <2>1 DEF InBlock
      <4> QED BY <4>1 DEF InBlock
    <3> QED BY <3>1, <3>2, Zenon
  <2>2. UseOf(a) # "settled" /\ InBlock(a)
    BY <2>1, UseStates DEF PromptState, InBlock
  <2> QED BY <1>1, <2>2, <2>3 DEF Promise!Revert
<1>6. ASSUME NEW a \in Attempt,
             \/ BecomeIrreversible(a) \/ ClockExpires(a) \/ ExpirationFinal(a)
             \/ SignTransaction(a) \/ ReceiveTransaction(a) \/ Forget(a)
      PROVE  \A b \in Attempt : InBlock(b)' = InBlock(b)
  BY <1>2, <1>6 DEF BecomeIrreversible, ClockExpires, ExpirationFinal, SignTransaction,
     ReceiveTransaction, Forget, ChainTypeOK, InBlock
<1>7. UNCHANGED hive => \A b \in Attempt : InBlock(b)' = InBlock(b)
  BY DEF InBlock
<1> QED BY <1>3, <1>4, <1>5, <1>6, <1>7 DEF UsesStand, ChainStep, Promise!UseNext

(* The rows that change no use but that of a.                               *)
LEMMA OneUse ==
  ASSUME BaseInv, BaseInv', NEW a \in Attempt, Writes(a),
         \A u \in User \ {Intent[a].user} : account'[u] = account[u],
         account[Intent[a].user] = NoAccount \/ account'[Intent[a].user] = account[Intent[a].user]
  PROVE  \A b \in Attempt \ {a} : UseOf(b)' = UseOf(b)
<1> SUFFICES ASSUME NEW b \in Attempt \ {a}
             PROVE  UseOf(b)' = UseOf(b)
  OBVIOUS
<1>1. attempt'[b] = attempt[b] /\ Intent[b].user \in User
  BY IntentAssumption DEF Writes
<1>2. CASE attempt[b].status # "completed"
  BY <1>1, <1>2, UseStates DEF UseOf, Status
<1>3. CASE attempt[b].status = "completed"
  <2>1. account'[Intent[b].user] = account[Intent[b].user]
    BY <1>1, <1>3, UseStates
  <2> QED BY <1>1, <2>1 DEF UseOf
<1> QED BY <1>2, <1>3

LEMMA UseImplements ==
  ASSUME PromptState, BaseInv', UNCHANGED hive, NEW a \in Attempt, NEW lease \in Lease,
         \/ ReserveTicketCredit(a)
         \/ /\ RollbackTicketReservation(a, lease)
            /\ \E p \in Process : RollsBack(p, a, lease)
         \/ \E m \in BOOLEAN : /\ CompleteAccountCreation(a, lease, m)
                               /\ m => hive[a].tx = "irreversible"
         \/ ConfirmCompletedAttemptAccount(a) /\ hive[a].tx = "irreversible"
  PROVE  [Promise!UseNext]_Promise!useVars
<1> DEFINE use == [b \in Attempt |-> UseOf(b)]
           executed == [b \in Attempt |-> InBlock(b)]
           n == Intent[a].user
<1>1. /\ BaseInv /\ DatabaseTypeOK /\ n \in User /\ executed' = executed
      /\ account \in [User -> AccountRow \cup {NoAccount}]
  BY IntentAssumption DEF PromptState, BaseInv, TypeInv, TypeOK, DatabaseTypeOK, InBlock
<1>2. ASSUME \A b \in Attempt \ {a} : UseOf(b)' = UseOf(b), NEW s, UseOf(a)' = s
      PROVE  use' = [use EXCEPT ![a] = s]
  BY <1>2
<1>3. \A b \in Promise!Rivals(a) : b \in Attempt \ {a} /\ Intent[b].user = n
  BY DEF Promise!Rivals
<1>4. CASE ReserveTicketCredit(a)
  <2>1. Writes(a) /\ UNCHANGED account /\ attempt[a].status = "absent"
        /\ attempt'[a].status = "reserved"
    BY <1>1, <1>4, ReserveOperation DEF ReserveTicketCredit
  <2>2. use' = [use EXCEPT ![a] = "held"] /\ UseOf(a) = "none"
    BY <1>1, <1>2, <2>1, OneUse, UseStates DEF OpenStatus, UseOf
  <2>3. \A b \in Promise!Rivals(a) : UseOf(b) # "held"
    BY <1>1, <1>3, <1>4, UseStates DEF ReserveTicketCredit, CanReserve, OpenAttempts, Open
  <2>4. Promise!Hold(a)
    BY <1>1, <1>3, <1>4, <2>2, <2>3 DEF Promise!Hold, ReserveTicketCredit, CanReserve
  <2> QED BY <2>4 DEF Promise!UseNext
<1>5. ASSUME RollbackTicketReservation(a, lease), NEW p \in Process, RollsBack(p, a, lease)
      PROVE  Promise!UseNext
  <2>1. /\ Writes(a) /\ UNCHANGED account
        /\ attempt[a].status \in OpenStatus /\ attempt'[a].status = "rolled_back"
        /\ Holds(a, lease)
    BY <1>1, <1>5, FencedOperations DEF RollbackTicketReservation, FencedTo, Open
  <2>2. use' = [use EXCEPT ![a] = "returned"] /\ UseOf(a) = "held"
    BY <1>1, <1>2, <2>1, OneUse, UseStates DEF UseOf, OpenStatus
  <2>3. ~InBlock(a)
    BY <1>1, <1>5, <2>1, RollbackIsSafe
    DEF PromptState, PromptInv, Open, NeverExecutes, InBlock
  <2>4. Promise!GiveBack(a)
    BY <1>1, <1>5, <2>2, <2>3 DEF Promise!GiveBack, RollbackTicketReservation
  <2> QED BY <2>4 DEF Promise!UseNext
<1>6. ASSUME NEW m \in BOOLEAN, CompleteAccountCreation(a, lease, m),
             m => hive[a].tx = "irreversible"
      PROVE  Promise!UseNext
  <2> DEFINE row == [by |-> a, status |-> BlockchainStatus(a, m)]
  <2>1. /\ Writes(a) /\ account[n] = NoAccount
        /\ account' = [account EXCEPT ![n] = row] /\ UNCHANGED remaining
        /\ attempt[a].status \in OpenStatus /\ attempt'[a].status = "completed"
    BY <1>1, <1>6, FencedOperations DEF CompleteAccountCreation, CanComplete, FencedTo, Open
  <2>2. account'[n] = row /\ \A u \in User \ {n} : account'[u] = account[u]
    BY <1>1, <2>1
  <2>3. row.status = "confirmed" <=> m
    BY DEF BlockchainStatus
  <2> HIDE DEF row
  <2>4. \A b \in Attempt \ {a} : UseOf(b)' = UseOf(b)
    BY <1>1, <2>1, <2>2, OneUse
  <2>5. UseOf(a)' = IF m THEN "settled" ELSE "spent"
    BY <2>1, <2>2, <2>3 DEF UseOf, OpenStatus
  <2>6. use' = [use EXCEPT ![a] = IF m THEN "settled" ELSE "spent"] /\ UseOf(a) = "held"
    BY <1>1, <1>2, <2>1, <2>4, <2>5, UseStates
  <2>7. \A b \in Promise!Rivals(a) : UseOf(b) \notin {"spent", "settled"}
    BY <1>1, <1>3, <2>1, UseStates
  <2>8. CASE m
    <3>1. Promise!Settle(a)
      BY <1>1, <1>3, <1>6, <2>1, <2>6, <2>7, <2>8 DEF Promise!Settle, InBlock
    <3> QED BY <3>1 DEF Promise!UseNext
  <2>9. CASE ~m
    <3>1. Promise!Spend(a)
      BY <1>1, <1>3, <2>1, <2>6, <2>7, <2>9 DEF Promise!Spend
    <3> QED BY <3>1 DEF Promise!UseNext
  <2> QED BY <2>8, <2>9
<1>7. ASSUME ConfirmCompletedAttemptAccount(a), hive[a].tx = "irreversible"
      PROVE  [Promise!UseNext]_Promise!useVars
  <2> DEFINE row == [account[n] EXCEPT !.status = "confirmed"]
  <2>1. /\ account' = [account EXCEPT ![n] = row] /\ UNCHANGED << attempt, remaining >>
        /\ attempt[a].status = "completed"
        /\ account[n] \in AccountRow /\ account[n].by = a
    BY <1>1, <1>7 DEF ConfirmCompletedAttemptAccount, CanConfirm
  <2>2. row.status = "confirmed"
    BY <2>1 DEF AccountRow
  <2> HIDE DEF row
  <2>3. account'[n] = row /\ \A u \in User \ {n} : account'[u] = account[u]
    BY <1>1, <2>1
  <2>4. ASSUME NEW b \in Attempt \ {a}
        PROVE  UseOf(b)' = UseOf(b)
    <3>1. CASE attempt[b].status # "completed"
      BY <1>1, <2>1, <3>1, UseStates DEF UseOf, Status
    <3>2. CASE attempt[b].status = "completed"
      <4>1. Intent[b].user # n /\ Intent[b].user \in User
        BY <1>1, <2>1, <3>2, UseStates, IntentAssumption
      <4> QED BY <2>1, <2>3, <4>1 DEF UseOf
    <3> QED BY <3>1, <3>2
  <2>5. UseOf(a)' = "settled"
    BY <2>1, <2>2, <2>3 DEF UseOf, OpenStatus
  <2>6. use' = [use EXCEPT ![a] = "settled"]
    BY <1>2, <2>4, <2>5
  <2>7. UseOf(a) \in {"spent", "settled"} /\ InBlock(a)
    BY <1>1, <1>7, <2>1, UseStates DEF InBlock
  <2>8. CASE UseOf(a) = "spent"
    <3>1. Promise!Settle(a)
      BY <1>1, <2>1, <2>6, <2>7, <2>8 DEF Promise!Settle
    <3> QED BY <3>1 DEF Promise!UseNext
  <2>9. CASE UseOf(a) = "settled"
    <3>1. use' = use
      BY <2>6, <2>9
    <3> QED BY <1>1, <2>1, <3>1 DEF Promise!useVars
  <2> QED BY <2>7, <2>8, <2>9
<1> QED BY <1>4, <1>5, <1>6, <1>7

(* With prompt claims, every behaviour of handlers, reconcilers, crashes    *)
(* and the chain is a life of ticket uses as TicketUse promises it: no use  *)
(* is given back whose transaction is in a block, and none is settled that  *)
(* a fork can undo.                                                         *)
THEOREM UsesImplementPromise ==
  ASSUME PromptClaim = TRUE
  PROVE  Spec => ImplementsTicketUse
<1>1. Init => Promise!UseInit
  BY InitImplements
<1>2. PromptState /\ PromptState' /\ [Next]_vars => [Promise!UseNext]_Promise!useVars
  <2> SUFFICES ASSUME PromptState, PromptState', [Next]_vars
               PROVE  [Promise!UseNext]_Promise!useVars
    OBVIOUS
  <2>1. TypeInv /\ TablesStep /\ BaseInv'
    BY NextTables DEF PromptState, BaseInv
  <2> QED BY <2>1, UseSteps, StandImplements, UseImplements
<1>3. Spec => []PromptState
  BY PromptInvariant DEF PromptState
<1> QED BY <1>1, <1>2, <1>3, PTL DEF Spec, ImplementsTicketUse, Promise!UseSpec
================================================================================
