------------------------- MODULE AccountCreationTyping -------------------------
(***************************************************************************)
(* Proofs about AccountCreation, first part: the operations on the tables  *)
(* and the steps of a process in terms of the fields they change, and the  *)
(* type invariant.                                                         *)
(***************************************************************************)
EXTENDS AccountCreationInvariant, TLAPS

------------------------------------------------------------------------------
(* Rows and the operations that write them.                                 *)

LEMMA RenewedRow ==
  ASSUME NEW row \in AttemptRow, NEW s \in Status
  PROVE  /\ Renewed(row, s) \in AttemptRow
         /\ Renewed(row, s).status = s
         /\ Renewed(row, s).version = row.version + 1
         /\ Renewed(row, s).generation = row.generation
         /\ Renewed(row, s).leased = row.leased
         /\ Renewed(row, s).aged = FALSE
         /\ Renewed(row, s).signed = row.signed
<1> DEFINE v == row.version + 1
           r == [row EXCEPT !.status = s, !.version = v, !.aged = FALSE]
<1>1. v \in Nat
  BY DEF AttemptRow
<1>2. Renewed(row, s) = r
  BY DEF Renewed
<1>3. v = row.version + 1
  OBVIOUS
<1> HIDE DEF v
<1>4. /\ r \in AttemptRow
      /\ r.status = s /\ r.version = v /\ r.generation = row.generation
      /\ r.leased = row.leased /\ r.aged = FALSE /\ r.signed = row.signed
  BY <1>1 DEF AttemptRow
<1> HIDE DEF r
<1> QED BY <1>2, <1>3, <1>4

LEMMA FreedRow ==
  ASSUME NEW row \in AttemptRow, NEW s \in Status
  PROVE  /\ Freed(row, s) \in AttemptRow
         /\ Freed(row, s).status = s
         /\ Freed(row, s).version = row.version + 1
         /\ Freed(row, s).generation = row.generation
         /\ Freed(row, s).leased = FALSE
         /\ Freed(row, s).aged = FALSE
         /\ Freed(row, s).signed = row.signed
<1> DEFINE m == Renewed(row, s)
           r == [m EXCEPT !.leased = FALSE]
<1>1. /\ m \in AttemptRow
      /\ m.status = s /\ m.version = row.version + 1 /\ m.generation = row.generation
      /\ m.leased = row.leased /\ m.aged = FALSE /\ m.signed = row.signed
  BY RenewedRow
<1>2. Freed(row, s) = r
  BY DEF Freed
<1> HIDE DEF m
<1>3. /\ r \in AttemptRow
      /\ r.status = m.status /\ r.version = m.version /\ r.generation = m.generation
      /\ r.leased = FALSE /\ r.aged = m.aged /\ r.signed = m.signed
  BY <1>1 DEF AttemptRow
<1> HIDE DEF r
<1> QED BY <1>1, <1>2, <1>3

(* One row is written.                                                      *)
Writes(a) ==
  /\ attempt' \in [Attempt -> AttemptRow]
  /\ \A b \in Attempt \ {a} : attempt'[b] = attempt[b]

(* A row is written under a lease: to status s, with the lease kept or not, *)
(* and with the transaction recorded or not.                                *)
FencedTo(a, lease, s, leased, signed) ==
  /\ Holds(a, lease)
  /\ Open(a)
  /\ Writes(a)
  /\ attempt'[a].status = s
  /\ attempt'[a].version = attempt[a].version + 1
  /\ attempt'[a].generation = attempt[a].generation
  /\ attempt'[a].leased = leased
  /\ attempt'[a].aged = FALSE
  /\ attempt'[a].signed = signed

(* The operations of CreationAttempts under a lease, in these terms.        *)
LEMMA FencedOperations ==
  ASSUME DatabaseTypeOK, NEW a \in Attempt, NEW lease
  PROVE  /\ ReleaseCreationAttemptLease(a, lease) =>
              FencedTo(a, lease, attempt[a].status, FALSE, attempt[a].signed)
         /\ PersistAttemptPreparation(a, lease) =>
              FencedTo(a, lease, "prepared", TRUE, TRUE)
         /\ MarkAttemptBroadcasting(a, lease) =>
              FencedTo(a, lease, "broadcasting", TRUE, attempt[a].signed)
         /\ PersistAttemptBroadcastOutcome(a, lease) =>
              FencedTo(a, lease, IF Simulated(a) THEN "prepared" ELSE "broadcasting",
                       TRUE, attempt[a].signed)
         /\ RollbackTicketReservation(a, lease) =>
              FencedTo(a, lease, "rolled_back", FALSE, attempt[a].signed)
         /\ \A m \in BOOLEAN : CompleteAccountCreation(a, lease, m) =>
              FencedTo(a, lease, "completed", FALSE, attempt[a].signed)
<1> USE DEF FencedTo, Writes, Open
<1> DEFINE old == attempt[a]
<1>1. /\ attempt \in [Attempt -> AttemptRow]
      /\ old \in AttemptRow
      /\ old.status \in Status
  BY DEF DatabaseTypeOK, AttemptRow
<1>2. {"prepared", "broadcasting", "rolled_back", "completed"} \subseteq Status
  BY DEF Status, OpenStatus
<1>3. ASSUME NEW row \in AttemptRow, attempt' = [attempt EXCEPT ![a] = row]
      PROVE  Writes(a) /\ attempt'[a] = row
  BY <1>1, <1>3
<1>4. Holds(a, lease) => old.leased = TRUE
  BY <1>1 DEF Holds, AttemptRow
<1>5. ASSUME ReleaseCreationAttemptLease(a, lease)
      PROVE  FencedTo(a, lease, attempt[a].status, FALSE, attempt[a].signed)
  BY <1>1, <1>3, <1>5, FreedRow DEF ReleaseCreationAttemptLease, CanRelease
<1>6. PersistAttemptPreparation(a, lease) => FencedTo(a, lease, "prepared", TRUE, TRUE)
  <2> DEFINE m == Renewed(old, "prepared")
             r == [m EXCEPT !.signed = TRUE]
  <2>1. /\ m \in AttemptRow
        /\ m.status = "prepared" /\ m.version = old.version + 1
        /\ m.generation = old.generation /\ m.leased = old.leased /\ m.aged = FALSE
    BY <1>1, <1>2, RenewedRow
  <2>2. PersistAttemptPreparation(a, lease) =>
          Holds(a, lease) /\ Open(a) /\ attempt' = [attempt EXCEPT ![a] = r]
    BY DEF PersistAttemptPreparation, CanPersistPreparation, OpenStatus
  <2> HIDE DEF m
  <2>3. /\ r \in AttemptRow
        /\ r.status = "prepared" /\ r.version = m.version /\ r.generation = m.generation
        /\ r.leased = m.leased /\ r.aged = m.aged /\ r.signed = TRUE
    BY <2>1 DEF AttemptRow
  <2> HIDE DEF r
  <2> QED BY <1>3, <1>4, <2>1, <2>2, <2>3
<1>7. ASSUME MarkAttemptBroadcasting(a, lease)
      PROVE  FencedTo(a, lease, "broadcasting", TRUE, attempt[a].signed)
  BY <1>1, <1>2, <1>3, <1>4, <1>7, RenewedRow
     DEF MarkAttemptBroadcasting, CanMarkBroadcasting, OpenStatus
<1>8. ASSUME PersistAttemptBroadcastOutcome(a, lease)
      PROVE  FencedTo(a, lease, IF Simulated(a) THEN "prepared" ELSE "broadcasting",
                      TRUE, attempt[a].signed)
  <2> DEFINE s == IF Simulated(a) THEN "prepared" ELSE "broadcasting"
             r == Renewed(old, s)
  <2>1. s \in Status
    BY <1>2
  <2>2. Holds(a, lease) /\ Open(a) /\ attempt' = [attempt EXCEPT ![a] = r]
    BY <1>8 DEF PersistAttemptBroadcastOutcome, CanPersistOutcome
  <2> HIDE DEF s
  <2>3. /\ r \in AttemptRow
        /\ r.status = s /\ r.version = old.version + 1 /\ r.generation = old.generation
        /\ r.leased = old.leased /\ r.aged = FALSE /\ r.signed = old.signed
    BY <1>1, <2>1, RenewedRow
  <2> HIDE DEF r
  <2>4. FencedTo(a, lease, s, TRUE, attempt[a].signed)
    BY <1>3, <1>4, <2>2, <2>3
  <2> QED BY <2>4 DEF s
<1>9. ASSUME RollbackTicketReservation(a, lease)
      PROVE  FencedTo(a, lease, "rolled_back", FALSE, attempt[a].signed)
  BY <1>1, <1>2, <1>3, <1>9, FreedRow DEF RollbackTicketReservation, CanRollback
<1>10. ASSUME NEW m \in BOOLEAN, CompleteAccountCreation(a, lease, m)
       PROVE  FencedTo(a, lease, "completed", FALSE, attempt[a].signed)
  BY <1>1, <1>2, <1>3, <1>10, FreedRow DEF CompleteAccountCreation, CanComplete
<1> QED BY <1>5, <1>6, <1>7, <1>8, <1>9, <1>10

LEMMA ReserveOperation ==
  ASSUME DatabaseTypeOK, NEW a \in Attempt, ReserveTicketCredit(a)
  PROVE  /\ Writes(a)
         /\ attempt[a].status = "absent"
         /\ attempt'[a].status = "reserved"
         /\ attempt'[a].version = attempt[a].version
         /\ attempt'[a].generation = attempt[a].generation
         /\ attempt'[a].leased = attempt[a].leased
         /\ attempt'[a].aged = attempt[a].aged
         /\ attempt'[a].signed = attempt[a].signed
<1> DEFINE old == attempt[a]
           r == [old EXCEPT !.status = "reserved"]
<1>1. attempt \in [Attempt -> AttemptRow] /\ old \in AttemptRow
  BY DEF DatabaseTypeOK
<1>2. attempt[a].status = "absent" /\ attempt' = [attempt EXCEPT ![a] = r]
  BY DEF ReserveTicketCredit, CanReserve
<1>3. /\ r \in AttemptRow
      /\ r.status = "reserved" /\ r.version = old.version /\ r.generation = old.generation
      /\ r.leased = old.leased /\ r.aged = old.aged /\ r.signed = old.signed
  BY <1>1 DEF AttemptRow, Status, OpenStatus
<1>4. attempt'[a] = r
  BY <1>1, <1>2
<1>5. Writes(a)
  BY <1>1, <1>2, <1>3 DEF Writes
<1> QED BY <1>2, <1>3, <1>4, <1>5

LEMMA ClaimOperation ==
  ASSUME DatabaseTypeOK, NEW a \in Attempt, ClaimCreationAttempt(a)
  PROVE  /\ Writes(a)
         /\ Claimable(a)
         /\ attempt'[a].status = attempt[a].status
         /\ attempt'[a].version = attempt[a].version + 1
         /\ attempt'[a].generation = attempt[a].generation + 1
         /\ attempt'[a].leased = TRUE
         /\ attempt'[a].aged = FALSE
         /\ attempt'[a].signed = attempt[a].signed
         /\ ClaimedLease(a) \in Lease
         /\ ClaimedLease(a).generation = attempt[a].generation + 1
         /\ ClaimedLease(a).version = attempt[a].version + 1
<1> DEFINE old == attempt[a]
           g == old.generation + 1
           v == old.version + 1
           r == [old EXCEPT !.leased = TRUE, !.aged = FALSE, !.generation = g, !.version = v]
<1>1. /\ attempt \in [Attempt -> AttemptRow]
      /\ old \in AttemptRow
      /\ g \in Nat /\ v \in Nat
  BY DEF DatabaseTypeOK, AttemptRow
<1>2. attempt' = [attempt EXCEPT ![a] = r] /\ Claimable(a)
  BY DEF ClaimCreationAttempt
<1>3. ClaimedLease(a) = [generation |-> g, version |-> v]
  BY DEF ClaimedLease
<1> HIDE DEF g, v
<1>4. /\ r \in AttemptRow
      /\ r.status = old.status /\ r.version = v /\ r.generation = g
      /\ r.leased = TRUE /\ r.aged = FALSE /\ r.signed = old.signed
  BY <1>1 DEF AttemptRow
<1> HIDE DEF r
<1>5. attempt'[a] = r
  BY <1>1, <1>2
<1>6. Writes(a)
  BY <1>1, <1>2, <1>4 DEF Writes
<1> QED BY <1>1, <1>2, <1>3, <1>4, <1>5, <1>6 DEF g, v, Lease

LEMMA AgeOperation ==
  ASSUME DatabaseTypeOK, NEW a \in Attempt, Age(a)
  PROVE  /\ Writes(a)
         /\ Open(a)
         /\ ~attempt[a].aged
         /\ attempt'[a].status = attempt[a].status
         /\ attempt'[a].version = attempt[a].version
         /\ attempt'[a].generation = attempt[a].generation
         /\ attempt'[a].leased = attempt[a].leased
         /\ attempt'[a].aged = TRUE
         /\ attempt'[a].signed = attempt[a].signed
<1> DEFINE old == attempt[a]
           r == [old EXCEPT !.aged = TRUE]
<1>1. attempt \in [Attempt -> AttemptRow] /\ old \in AttemptRow
  BY DEF DatabaseTypeOK
<1>2. attempt' = [attempt EXCEPT ![a] = r] /\ Open(a) /\ ~old.aged
  BY DEF Age
<1>3. /\ r \in AttemptRow
      /\ r.status = old.status /\ r.version = old.version /\ r.generation = old.generation
      /\ r.leased = old.leased /\ r.aged = TRUE /\ r.signed = old.signed
  BY <1>1 DEF AttemptRow
<1>4. attempt'[a] = r
  BY <1>1, <1>2
<1>5. Writes(a)
  BY <1>1, <1>2, <1>3 DEF Writes
<1> QED BY <1>2, <1>3, <1>4, <1>5

(* None of them makes the tables ill-typed.                                 *)
LEMMA OperationsTyped ==
  ASSUME DatabaseTypeOK, NEW a \in Attempt, NEW lease,
         \/ ReserveTicketCredit(a) \/ ClaimCreationAttempt(a) \/ Age(a)
         \/ ReleaseCreationAttemptLease(a, lease)
         \/ PersistAttemptPreparation(a, lease)
         \/ MarkAttemptBroadcasting(a, lease)
         \/ PersistAttemptBroadcastOutcome(a, lease)
         \/ RollbackTicketReservation(a, lease)
         \/ \E m \in BOOLEAN : CompleteAccountCreation(a, lease, m)
         \/ ConfirmCompletedAttemptAccount(a)
  PROVE  DatabaseTypeOK'
<1>1. Intent[a].user \in User /\ Intent[a].ticket \in Ticket
  BY IntentAssumption
<1>2. attempt' \in [Attempt -> AttemptRow]
  <2>1. CASE ConfirmCompletedAttemptAccount(a)
    BY <2>1 DEF ConfirmCompletedAttemptAccount, DatabaseTypeOK
  <2> QED
    BY <2>1, FencedOperations, ReserveOperation, ClaimOperation, AgeOperation
    DEF FencedTo, Writes
<1>3. remaining' \in [Ticket -> Nat]
  <2>1. CASE ReserveTicketCredit(a)
    BY <1>1, <2>1 DEF ReserveTicketCredit, CanReserve, DatabaseTypeOK
  <2>2. CASE RollbackTicketReservation(a, lease)
    BY <1>1, <2>2 DEF RollbackTicketReservation, DatabaseTypeOK
  <2> QED
    BY <2>1, <2>2 DEF DatabaseTypeOK, ClaimCreationAttempt, Age, ReleaseCreationAttemptLease,
      PersistAttemptPreparation, MarkAttemptBroadcasting, PersistAttemptBroadcastOutcome,
      CompleteAccountCreation, ConfirmCompletedAttemptAccount
<1>4. account' \in [User -> AccountRow \cup {NoAccount}]
  <2>1. ASSUME NEW m \in BOOLEAN, CompleteAccountCreation(a, lease, m)
        PROVE  account' \in [User -> AccountRow \cup {NoAccount}]
    <3>1. [by |-> a, status |-> BlockchainStatus(a, m)] \in AccountRow
      BY DEF AccountRow, BlockchainStatus
    <3> QED BY <1>1, <2>1, <3>1 DEF CompleteAccountCreation, DatabaseTypeOK
  <2>2. CASE ConfirmCompletedAttemptAccount(a)
    <3>1. account[Intent[a].user] \in AccountRow
      BY <1>1, <2>2 DEF ConfirmCompletedAttemptAccount, CanConfirm, DatabaseTypeOK
    <3>2. [account[Intent[a].user] EXCEPT !.status = "confirmed"] \in AccountRow
      BY <3>1 DEF AccountRow
    <3> QED BY <1>1, <2>2, <3>2 DEF ConfirmCompletedAttemptAccount, DatabaseTypeOK
  <2> QED
    BY <2>1, <2>2 DEF DatabaseTypeOK, ClaimCreationAttempt, Age, ReleaseCreationAttemptLease,
      PersistAttemptPreparation, MarkAttemptBroadcasting, PersistAttemptBroadcastOutcome,
      ReserveTicketCredit, RollbackTicketReservation
<1> QED BY <1>2, <1>3, <1>4 DEF DatabaseTypeOK

------------------------------------------------------------------------------
(* Steps of a process.                                                      *)

MovesTo(p, pc, target, lease) ==
  /\ proc' \in [Process -> ProcState]
  /\ \A q \in Process \ {p} : proc'[q] = proc[q]
  /\ proc'[p].pc = pc
  /\ proc'[p].target = target
  /\ proc'[p].lease = lease

Finishes(p) == IF p \in Attempt THEN MovesTo(p, "done", p, NoLease)
                                ELSE MovesTo(p, "idle", NoAttempt, NoLease)

LEMMA MoveStep ==
  ASSUME proc \in [Process -> ProcState], NEW p \in Process, NEW pc \in PC, Move(p, pc)
  PROVE  MovesTo(p, pc, Target(p), MyLease(p))
<1> DEFINE s == [proc[p] EXCEPT !.pc = pc]
<1>1. s \in ProcState /\ s.pc = pc /\ s.target = Target(p) /\ s.lease = MyLease(p)
  BY DEF ProcState, Target, MyLease
<1>2. proc' = [proc EXCEPT ![p] = s]
  BY DEF Move
<1> HIDE DEF s
<1> QED BY <1>1, <1>2 DEF MovesTo

LEMMA MoveWithStep ==
  ASSUME proc \in [Process -> ProcState], NEW p \in Process, NEW pc \in PC,
         NEW lease \in Lease, MoveWith(p, pc, lease)
  PROVE  MovesTo(p, pc, Target(p), lease)
<1> DEFINE s == [proc[p] EXCEPT !.pc = pc, !.lease = lease]
<1>1. s \in ProcState /\ s.pc = pc /\ s.target = Target(p) /\ s.lease = lease
  BY DEF ProcState, Target
<1>2. proc' = [proc EXCEPT ![p] = s]
  BY DEF MoveWith
<1> HIDE DEF s
<1> QED BY <1>1, <1>2 DEF MovesTo

LEMMA FinishStep ==
  ASSUME proc \in [Process -> ProcState], NEW p \in Process, Finish(p)
  PROVE  Finishes(p) /\ creationsInProgress' = creationsInProgress \ {p}
<1>1. NoLease \in Lease
  BY DEF NoLease, Lease
<1>2. CASE p \in Attempt
  <2> DEFINE i == Idle(p)
             s == [i EXCEPT !.pc = "done"]
  <2>1. i \in ProcState /\ i.target = p /\ i.lease = NoLease
    BY <1>1, <1>2 DEF ProcState, PC, Idle
  <2> HIDE DEF i
  <2>2. s \in ProcState /\ s.pc = "done" /\ s.target = i.target /\ s.lease = i.lease
    BY <2>1 DEF ProcState, PC
  <2>3. proc' = [proc EXCEPT ![p] = s] /\ creationsInProgress' = creationsInProgress \ {p}
    BY <1>2 DEF Finish, i
  <2> HIDE DEF s
  <2> QED BY <1>2, <2>1, <2>2, <2>3 DEF Finishes, MovesTo
<1>3. CASE p \notin Attempt
  <2> DEFINE s == Idle(p)
  <2>1. s \in ProcState /\ s.pc = "idle" /\ s.target = NoAttempt /\ s.lease = NoLease
    BY <1>1, <1>3 DEF ProcState, PC, Idle
  <2>2. proc' = [proc EXCEPT ![p] = s] /\ creationsInProgress' = creationsInProgress \ {p}
    BY <1>3 DEF Finish
  <2> HIDE DEF s
  <2> QED BY <1>3, <2>1, <2>2 DEF Finishes, MovesTo
<1> QED BY <1>2, <1>3

LEMMA ReconcileStart ==
  ASSUME TypeOK, NEW p \in Process, NEW a \in Attempt, NEW lease \in Lease,
         Reconcile(p, a, lease)
  PROVE  \/ /\ MovesTo(p, IF lease = NoLease THEN "rcClaim" ELSE "rcReread", a, lease)
            /\ Open(a)
            /\ UNCHANGED creationsInProgress
         \/ Finishes(p) /\ creationsInProgress' = creationsInProgress \ {p}
<1> DEFINE pc == IF lease = NoLease THEN "rcClaim" ELSE "rcReread"
           s == [pc |-> pc, target |-> a, lease |-> lease, seen |-> attempt[a].signed]
<1>1. proc \in [Process -> ProcState] /\ attempt[a].signed \in BOOLEAN
  BY DEF TypeOK, DatabaseTypeOK, AttemptRow
<1>2. CASE Open(a)
  <2>1. s \in ProcState /\ s.pc = pc /\ s.target = a /\ s.lease = lease
    BY <1>1 DEF ProcState, PC
  <2>2. proc' = [proc EXCEPT ![p] = s] /\ UNCHANGED creationsInProgress
    BY <1>2 DEF Reconcile
  <2> HIDE DEF s, pc
  <2>3. MovesTo(p, pc, a, lease)
    BY <1>1, <2>1, <2>2 DEF MovesTo
  <2> QED BY <1>2, <2>2, <2>3 DEF pc
<1>3. CASE ~Open(a)
  BY <1>1, <1>3, FinishStep DEF Reconcile
<1> QED BY <1>2, <1>3

LEMMA GoReserveStep ==
  ASSUME proc \in [Process -> ProcState], NEW r \in Attempt, GoReserve(r)
  PROVE  MovesTo(r, "reserve", r, NoLease) /\ UNCHANGED creationsInProgress
<1> DEFINE i == Idle(r)
           s == [i EXCEPT !.pc = "reserve"]
<1>1. r \in Process /\ NoLease \in Lease
  BY DEF Process, NoLease, Lease
<1>2. i \in ProcState /\ i.target = r /\ i.lease = NoLease
  BY <1>1 DEF ProcState, PC, Idle
<1> HIDE DEF i
<1>3. s \in ProcState /\ s.pc = "reserve" /\ s.target = i.target /\ s.lease = i.lease
  BY <1>2 DEF ProcState, PC
<1>4. proc' = [proc EXCEPT ![r] = s] /\ UNCHANGED creationsInProgress
  BY DEF GoReserve, i
<1> HIDE DEF s
<1> QED BY <1>1, <1>2, <1>3, <1>4 DEF MovesTo

LEMMA ReclaimStart ==
  ASSUME proc \in [Process -> ProcState], NEW r \in Attempt, NEW o \in Attempt, NEW pc \in PC,
         proc' = [proc EXCEPT ![r].pc = pc, ![r].target = o]
  PROVE  MovesTo(r, pc, o, MyLease(r))
<1> DEFINE s == [proc[r] EXCEPT !.pc = pc, !.target = o]
<1>1. r \in Process
  BY DEF Process
<1>2. s \in ProcState /\ s.pc = pc /\ s.target = o /\ s.lease = MyLease(r)
  BY <1>1 DEF ProcState, MyLease
<1>3. proc' = [proc EXCEPT ![r] = s]
  BY <1>1
<1> HIDE DEF s
<1> QED BY <1>1, <1>2, <1>3 DEF MovesTo

LEMMA ConfirmStart ==
  ASSUME proc \in [Process -> ProcState], NEW w \in Reconciler, NEW a \in Attempt,
         proc' = [proc EXCEPT ![w] = [@ EXCEPT !.pc = "confirm", !.target = a]]
  PROVE  MovesTo(w, "confirm", a, MyLease(w))
<1> DEFINE s == [proc[w] EXCEPT !.pc = "confirm", !.target = a]
<1>1. w \in Process
  BY DEF Process
<1>2. s \in ProcState /\ s.pc = "confirm" /\ s.target = a /\ s.lease = MyLease(w)
  BY <1>1 DEF ProcState, MyLease, PC
<1>3. proc' = [proc EXCEPT ![w] = s]
  BY <1>1
<1> HIDE DEF s
<1> QED BY <1>1, <1>2, <1>3 DEF MovesTo

------------------------------------------------------------------------------
(* Typing.                                                                  *)

(* Rows that do not exist yet are not created.                              *)
Kept ==
  /\ DatabaseTypeOK'
  /\ \A r \in Attempt : attempt[r].status = "absent" => attempt'[r].status = "absent"

LEMMA OperationsKeep ==
  ASSUME DatabaseTypeOK, NEW a \in Attempt, NEW lease,
         \/ ClaimCreationAttempt(a) \/ Age(a)
         \/ ReleaseCreationAttemptLease(a, lease)
         \/ PersistAttemptPreparation(a, lease)
         \/ MarkAttemptBroadcasting(a, lease)
         \/ PersistAttemptBroadcastOutcome(a, lease)
         \/ RollbackTicketReservation(a, lease)
         \/ \E m \in BOOLEAN : CompleteAccountCreation(a, lease, m)
         \/ ConfirmCompletedAttemptAccount(a)
  PROVE  Kept
<1>1. DatabaseTypeOK'
  BY OperationsTyped
<1>2. CASE ConfirmCompletedAttemptAccount(a)
  BY <1>1, <1>2 DEF ConfirmCompletedAttemptAccount, Kept
<1>3. CASE ~ConfirmCompletedAttemptAccount(a)
  <2>1. Open(a) /\ Writes(a)
    BY <1>3, FencedOperations, ClaimOperation, AgeOperation DEF FencedTo, Claimable
  <2> QED BY <1>1, <2>1 DEF Kept, Writes, Open, OpenStatus
<1> QED BY <1>2, <1>3

(* The part of TypeInv that a step of p can disturb.                        *)
LEMMA StepTyped ==
  ASSUME TypeInv, Kept, ChainTypeOK',
         NEW p \in Process, NEW pc, NEW t, NEW l, MovesTo(p, pc, t, l),
         creationsInProgress' \subseteq Attempt,
         setbacks' \in 0 .. MaxSetbacks,
         pc \notin {"idle", "done"} => t \in Attempt,
         pc \in UnleasedPC => l = NoLease,
         p \in Attempt /\ pc \in OwnPC => t = p,
         p \in Attempt /\ pc \in EarlyPC \cup ReclaimPC => attempt[p].status = "absent",
         p \in Reconciler => pc \in {"idle", "confirm"} \cup ReconcilePC
  PROVE  TypeInv'
<1>1. TypeOK'
  BY DEF TypeInv, TypeOK, MovesTo, Kept
<1>2. ProcessesOK'
  BY DEF TypeInv, TypeOK, ProcessesOK, MovesTo, Kept, Target, MyLease, Process
<1> QED BY <1>1, <1>2 DEF TypeInv

LEMMA FinishTyped ==
  ASSUME TypeInv, Kept, ChainTypeOK', NEW p \in Process, Finishes(p),
         creationsInProgress' \subseteq Attempt,
         setbacks' \in 0 .. MaxSetbacks
  PROVE  TypeInv'
<1>1. p \in Attempt \/ (p \in Reconciler /\ p \notin Attempt)
  BY DEF Process
<1>2. CASE p \in Attempt
  <2>1. MovesTo(p, "done", p, NoLease)
    BY <1>2 DEF Finishes
  <2>2. p \notin Reconciler
    BY <1>2, ProcessAssumption
  <2> QED BY <1>2, <2>1, <2>2, StepTyped DEF EarlyPC, ReclaimPC, OwnPC
<1>3. CASE p \in Reconciler /\ p \notin Attempt
  <2>1. MovesTo(p, "idle", NoAttempt, NoLease)
    BY <1>3 DEF Finishes
  <2> QED BY <1>3, <2>1, StepTyped
<1> QED BY <1>1, <1>2, <1>3

LEMMA ChainTyped ==
  ASSUME ChainTypeOK, NEW a \in Attempt,
         SignTransaction(a) \/ ReceiveTransaction(a) \/ ChainStep(a) \/ Forget(a)
  PROVE  ChainTypeOK'
BY DEF ChainTypeOK, TxPlace, TxClock, SignTransaction, ReceiveTransaction, ChainStep,
       IncludeTransaction, ForkOut, BecomeIrreversible, ClockExpires, ExpirationFinal, Forget

(* What TypeInv says where a process stands, and what an action that leaves *)
(* a variable alone preserves.                                              *)
LEMMA Here ==
  ASSUME TypeInv, NEW p \in Process
  PROVE  /\ DatabaseTypeOK /\ ChainTypeOK
         /\ proc \in [Process -> ProcState]
         /\ MyLease(p) \in Lease
         /\ proc[p].pc \notin {"idle", "done"} => Target(p) \in Attempt
         /\ p \in Attempt /\ proc[p].pc \in OwnPC => Target(p) = p
         /\ proc[p].pc \in UnleasedPC => MyLease(p) = NoLease
BY DEF TypeInv, TypeOK, ProcessesOK, ProcState, MyLease

LEMMA NextLeaseTyped ==
  ASSUME NEW lease \in Lease
  PROVE  /\ NextLease(lease) \in Lease
         /\ NextLease(lease).generation = lease.generation
         /\ NextLease(lease).version = lease.version + 1
<1> DEFINE v == lease.version + 1
<1>1. v \in Nat
  BY DEF Lease
<1>2. NextLease(lease) = [lease EXCEPT !.version = v]
  BY DEF NextLease
<1>3. v = lease.version + 1
  OBVIOUS
<1> HIDE DEF v
<1> QED BY <1>1, <1>2, <1>3 DEF Lease

LEMMA Frame ==
  ASSUME TypeInv
  PROVE  /\ UNCHANGED db => Kept
         /\ UNCHANGED hive => ChainTypeOK'
         /\ UNCHANGED setbacks => setbacks' \in 0 .. MaxSetbacks
         /\ Setback => setbacks' \in 0 .. MaxSetbacks
         /\ UNCHANGED creationsInProgress => creationsInProgress' \subseteq Attempt
         /\ \A p : creationsInProgress' = creationsInProgress \ {p}
                  => creationsInProgress' \subseteq Attempt
BY ProcessAssumption
DEF TypeInv, TypeOK, db, Kept, DatabaseTypeOK, ChainTypeOK, Setback

(* The ways out of a call to the chain that fails.                          *)
LEMMA ChainErrorTyped ==
  ASSUME TypeInv, NEW r \in Attempt, Target(r) = r, Kept, ChainTypeOK',
         setbacks' \in 0 .. MaxSetbacks,
         Ambiguous(r) \/ ChainError(r)
  PROVE  TypeInv'
<1>0. r \in Process /\ r \notin Reconciler
  BY ProcessAssumption DEF Process
<1>1. CASE Move(r, "undo") /\ UNCHANGED creationsInProgress
  BY <1>0, <1>1, Here, Frame, StepTyped, MoveStep
  DEF PC, UnleasedPC, EarlyPC, ReclaimPC, OwnPC
<1>2. CASE Finish(r)
  BY <1>0, <1>2, Here, Frame, FinishTyped, FinishStep
<1>3. CASE Reconcile(r, r, MyLease(r))
  <2>1. CASE Finishes(r) /\ creationsInProgress' = creationsInProgress \ {r}
    BY <1>0, <2>1, Frame, FinishTyped
  <2>2. CASE /\ MovesTo(r, IF MyLease(r) = NoLease THEN "rcClaim" ELSE "rcReread", r, MyLease(r))
             /\ UNCHANGED creationsInProgress
    BY <1>0, <2>2, Frame, StepTyped
    DEF UnleasedPC, EarlyPC, ReclaimPC, OwnPC, ReconcilePC
  <2> QED BY <1>0, <1>3, <2>1, <2>2, Here, ReconcileStart DEF TypeInv
<1> QED BY <1>1, <1>2, <1>3 DEF Ambiguous, ChainError, ReconcileOwnAttempt

LEMMA RequestsTyped ==
  ASSUME TypeInv, NEW r \in Attempt, CheckSessionAndIdempotency(r) \/ RequestStep(r)
  PROVE  TypeInv'
<1>0. r \in Process /\ r \notin Reconciler
  BY ProcessAssumption DEF Process
<1> USE DEF At, UnleasedPC, OwnPC, EarlyPC, ReclaimPC, ReconcilePC
<1>1. CASE CheckSessionAndIdempotency(r)
  <2>1. CASE Finish(r)
    BY <1>0, <1>1, <2>1, Here, Frame, FinishTyped, FinishStep DEF CheckSessionAndIdempotency
  <2>2. CASE Move(r, "session") /\ UNCHANGED creationsInProgress
    BY <1>0, <1>1, <2>2, Here, Frame, StepTyped, MoveStep
    DEF CheckSessionAndIdempotency, PC, TypeInv, ProcessesOK
  <2> QED BY <1>1, <2>1, <2>2 DEF CheckSessionAndIdempotency
<1>2. CASE CheckOpenAttempt(r)
  BY <1>0, <1>2, Here, Frame, StepTyped, FinishTyped, MoveStep, FinishStep
  DEF CheckOpenAttempt, PC, TypeInv, ProcessesOK
<1>3. CASE RunCreationPreflight(r)
  <2>1. NoLease \in Lease
    BY DEF NoLease, Lease
  <2>2. ASSUME NEW o \in OpenAttempts(Intent[r].user), Reconcile(r, o, NoLease)
        PROVE  TypeInv'
    BY <1>0, <1>3, <2>1, <2>2, Frame, StepTyped, FinishTyped, ReconcileStart
    DEF RunCreationPreflight, PC, TypeInv, OpenAttempts
  <2>3. CASE Move(r, "lock") /\ UNCHANGED creationsInProgress
    BY <1>0, <1>3, <2>3, Here, Frame, StepTyped, MoveStep
    DEF RunCreationPreflight, PC, TypeInv, ProcessesOK
  <2>4. CASE Finish(r)
    BY <1>0, <1>3, <2>4, Here, Frame, FinishTyped, FinishStep DEF RunCreationPreflight
  <2> QED BY <1>3, <2>2, <2>3, <2>4 DEF RunCreationPreflight
<1>4. CASE AcquireCreationLock(r)
  <2>1. CASE Finish(r)
    BY <1>0, <1>4, <2>1, Here, Frame, FinishTyped, FinishStep DEF AcquireCreationLock
  <2>2. CASE Move(r, "reclaim") /\ creationsInProgress' = creationsInProgress \cup {r}
    BY <1>0, <1>4, <2>2, Here, Frame, StepTyped, MoveStep
    DEF AcquireCreationLock, PC, TypeInv, TypeOK, ProcessesOK
  <2> QED BY <1>4, <2>1, <2>2 DEF AcquireCreationLock
<1>5. CASE ReclaimOpenAttemptForRetry(r)
  <2>1. NoLease \in Lease
    BY DEF NoLease, Lease
  <2>2. Kept /\ ChainTypeOK' /\ setbacks' \in 0 .. MaxSetbacks
    BY <1>5, Frame DEF ReclaimOpenAttemptForRetry
  <2>3. attempt[r].status = "absent"
    BY <1>5 DEF ReclaimOpenAttemptForRetry, TypeInv, ProcessesOK
  <2>4. CASE Finish(r)
    BY <1>0, <2>2, <2>4, Here, Frame, FinishTyped, FinishStep
  <2>5. CASE Move(r, "reserve") /\ UNCHANGED creationsInProgress
    BY <1>0, <1>5, <2>2, <2>3, <2>5, Here, Frame, StepTyped, MoveStep
    DEF ReclaimOpenAttemptForRetry, PC
  <2>6. ASSUME NEW o \in OpenAttempts(Intent[r].user), Reconcile(r, o, NoLease)
        PROVE  TypeInv'
    BY <1>0, <2>1, <2>2, <2>6, Frame, StepTyped, FinishTyped, ReconcileStart
    DEF PC, TypeInv, OpenAttempts
  <2>7. ASSUME NEW o \in OpenAttempts(Intent[r].user),
               NEW pc \in {"reclaimStale", "reclaimExpired"},
               proc' = [proc EXCEPT ![r].pc = pc, ![r].target = o],
               UNCHANGED creationsInProgress
        PROVE  TypeInv'
    <3>1. MovesTo(r, pc, o, MyLease(r))
      BY <2>7, Here, <1>0, ReclaimStart DEF PC, OpenAttempts
    <3>2. MyLease(r) = NoLease
      BY <1>0, <1>5, Here DEF ReclaimOpenAttemptForRetry
    <3> QED BY <1>0, <2>2, <2>3, <2>7, <3>1, <3>2, Frame, StepTyped DEF OpenAttempts
  <2> QED
    BY <1>5, <2>4, <2>5, <2>6, <2>7 DEF ReclaimOpenAttemptForRetry, ReclaimOpenAttempt
<1>6. CASE ReclaimClaim(r)
  <2>1. /\ Target(r) \in Attempt
        /\ attempt[r].status = "absent"
        /\ ChainTypeOK' /\ setbacks' \in 0 .. MaxSetbacks
    BY <1>0, <1>6, Here, Frame DEF ReclaimClaim, TypeInv, ProcessesOK
  <2>2. ASSUME ClaimCreationAttempt(Target(r)), NEW next \in {"rollbackStale", "rollbackExpired"},
               MoveWith(r, next, ClaimedLease(Target(r))), UNCHANGED creationsInProgress
        PROVE  TypeInv'
    <3>1. Kept /\ ClaimedLease(Target(r)) \in Lease
      BY <1>0, <2>1, <2>2, Here, OperationsKeep, ClaimOperation
    <3>2. MovesTo(r, next, Target(r), ClaimedLease(Target(r)))
      BY <1>0, <2>2, <3>1, Here, MoveWithStep DEF PC
    <3> QED BY <1>0, <2>1, <2>2, <3>1, <3>2, Frame, StepTyped
  <2>3. CASE UNCHANGED db /\ GoReserve(r)
    BY <1>0, <2>1, <2>3, Here, Frame, StepTyped, GoReserveStep
  <2>4. CASE UNCHANGED db /\ Finish(r)
    BY <1>0, <2>1, <2>4, Here, Frame, FinishTyped, FinishStep
  <2> QED BY <1>6, <2>2, <2>3, <2>4 DEF ReclaimClaim
<1>7. CASE ReclaimRollback(r)
  <2>1. /\ Target(r) \in Attempt
        /\ attempt[r].status = "absent"
        /\ ChainTypeOK' /\ setbacks' \in 0 .. MaxSetbacks
    BY <1>0, <1>7, Here, Frame DEF ReclaimRollback, TypeInv, ProcessesOK
  <2>2. Kept
    BY <1>0, <1>7, <2>1, Here, Frame, OperationsKeep DEF ReclaimRollback
  <2>3. CASE GoReserve(r)
    BY <1>0, <2>1, <2>2, <2>3, Here, Frame, StepTyped, GoReserveStep
  <2>4. CASE Finish(r)
    BY <1>0, <2>1, <2>2, <2>4, Here, Frame, FinishTyped, FinishStep
  <2> QED BY <1>7, <2>3, <2>4 DEF ReclaimRollback
<1>8. CASE ReserveTicket(r)
  <2>1. /\ ChainTypeOK' /\ setbacks' \in 0 .. MaxSetbacks
        /\ Target(r) = r /\ MyLease(r) = NoLease
    BY <1>0, <1>8, Here, Frame DEF ReserveTicket
  <2>2. CASE ReserveTicketCredit(r) /\ Move(r, "claim") /\ UNCHANGED creationsInProgress
    <3>1. DatabaseTypeOK' /\ Writes(r)
      BY <2>2, Here, <1>0, OperationsTyped, ReserveOperation
    <3>2. MovesTo(r, "claim", r, NoLease)
      BY <1>0, <2>1, <2>2, Here, MoveStep DEF PC
    <3>3. TypeOK'
      BY <2>1, <2>2, <3>1, <3>2 DEF TypeInv, TypeOK, MovesTo
    <3>4. ProcessesOK'
      BY <1>0, <3>1, <3>2 DEF TypeInv, ProcessesOK, MovesTo, Writes, Target, MyLease, Process
    <3> QED BY <3>3, <3>4 DEF TypeInv
  <2>3. CASE Finish(r) /\ UNCHANGED db
    BY <1>0, <2>1, <2>3, Here, Frame, FinishTyped, FinishStep
  <2> QED BY <1>8, <2>2, <2>3 DEF ReserveTicket
<1>9. CASE ClaimOwnAttempt(r)
  <2>1. /\ ChainTypeOK' /\ setbacks' \in 0 .. MaxSetbacks
        /\ Target(r) = r
    BY <1>0, <1>9, Here, Frame DEF ClaimOwnAttempt
  <2>2. CASE /\ ClaimCreationAttempt(r)
             /\ MoveWith(r, "prepare", ClaimedLease(r))
             /\ UNCHANGED creationsInProgress
    <3>1. Kept /\ ClaimedLease(r) \in Lease
      BY <1>0, <2>2, Here, OperationsKeep, ClaimOperation
    <3>2. MovesTo(r, "prepare", r, ClaimedLease(r))
      BY <1>0, <2>1, <2>2, <3>1, Here, MoveWithStep DEF PC
    <3> QED BY <1>0, <2>1, <2>2, <3>1, <3>2, Frame, StepTyped
  <2>3. CASE Finish(r) /\ UNCHANGED db
    BY <1>0, <2>1, <2>3, Here, Frame, FinishTyped, FinishStep
  <2> QED BY <1>9, <2>2, <2>3 DEF ClaimOwnAttempt
<1>10. CASE PrepareTransaction(r)
  <2>1. setbacks' \in 0 .. MaxSetbacks /\ Target(r) = r /\ MyLease(r) \in Lease
    BY <1>0, <1>10, Here, Frame DEF PrepareTransaction
  <2>2. CASE /\ PersistAttemptPreparation(r, MyLease(r))
             /\ SignTransaction(r)
             /\ MoveWith(r, IF Simulated(r) THEN "outcome" ELSE "mark", NextLease(MyLease(r)))
             /\ UNCHANGED creationsInProgress
    <3> DEFINE pc == IF Simulated(r) THEN "outcome" ELSE "mark"
    <3>1. Kept /\ ChainTypeOK'
      BY <1>0, <2>2, Here, OperationsKeep, ChainTyped
    <3>2. MovesTo(r, pc, r, NextLease(MyLease(r)))
      BY <1>0, <2>1, <2>2, Here, MoveWithStep, NextLeaseTyped DEF PC
    <3> QED BY <1>0, <2>1, <2>2, <3>1, <3>2, Frame, StepTyped
  <2>3. CASE (Ambiguous(r) \/ ChainError(r)) /\ UNCHANGED << db, hive >>
    BY <2>1, <2>3, Frame, ChainErrorTyped
  <2> QED BY <1>10, <2>2, <2>3 DEF PrepareTransaction
<1>11. CASE MarkBroadcasting(r)
  <2>1. /\ setbacks' \in 0 .. MaxSetbacks /\ ChainTypeOK'
        /\ Target(r) = r /\ MyLease(r) \in Lease
    BY <1>0, <1>11, Here, Frame DEF MarkBroadcasting
  <2>2. CASE /\ MarkAttemptBroadcasting(r, MyLease(r))
             /\ MoveWith(r, "broadcast", NextLease(MyLease(r)))
             /\ UNCHANGED creationsInProgress
    <3>1. Kept
      BY <1>0, <2>2, Here, OperationsKeep
    <3>2. MovesTo(r, "broadcast", r, NextLease(MyLease(r)))
      BY <1>0, <2>1, <2>2, Here, MoveWithStep, NextLeaseTyped DEF PC
    <3> QED BY <1>0, <2>1, <2>2, <3>1, <3>2, Frame, StepTyped
  <2>3. CASE Ambiguous(r) /\ UNCHANGED db
    BY <2>1, <2>3, Frame, ChainErrorTyped
  <2> QED BY <1>11, <2>2, <2>3 DEF MarkBroadcasting
<1>12. CASE Broadcast(r)
  <2>1. /\ setbacks' \in 0 .. MaxSetbacks /\ Kept /\ ChainTypeOK'
        /\ Target(r) = r
    BY <1>0, <1>12, Here, Frame, ChainTyped DEF Broadcast
  <2>2. CASE Move(r, "outcome") /\ UNCHANGED creationsInProgress
    <3>1. MovesTo(r, "outcome", r, MyLease(r))
      BY <1>0, <2>1, <2>2, Here, MoveStep DEF PC
    <3> QED BY <1>0, <2>1, <2>2, <3>1, Frame, StepTyped
  <2> QED BY <1>12, <2>1, <2>2, ChainErrorTyped DEF Broadcast
<1>13. CASE PersistOutcome(r)
  <2>1. /\ setbacks' \in 0 .. MaxSetbacks /\ ChainTypeOK'
        /\ Target(r) = r /\ MyLease(r) \in Lease
    BY <1>0, <1>13, Here, Frame DEF PersistOutcome
  <2>2. ASSUME PersistAttemptBroadcastOutcome(r, MyLease(r)), NEW pc \in {"complete", "undo"},
               MoveWith(r, pc, NextLease(MyLease(r))), UNCHANGED creationsInProgress
        PROVE  TypeInv'
    <3>1. Kept
      BY <1>0, <2>2, Here, OperationsKeep
    <3>2. MovesTo(r, pc, r, NextLease(MyLease(r)))
      BY <1>0, <2>1, <2>2, Here, MoveWithStep, NextLeaseTyped DEF PC
    <3> QED BY <1>0, <2>1, <2>2, <3>1, <3>2, Frame, StepTyped
  <2>3. CASE Ambiguous(r) /\ UNCHANGED db
    BY <2>1, <2>3, Frame, ChainErrorTyped
  <2> QED BY <1>13, <2>2, <2>3 DEF PersistOutcome
<1>14. CASE CompleteInDatabase(r)
  <2>1. /\ setbacks' \in 0 .. MaxSetbacks /\ ChainTypeOK' /\ Target(r) = r
    BY <1>0, <1>14, Here, Frame DEF CompleteInDatabase
  <2>2. Kept
    BY <1>0, <1>14, Here, Frame, OperationsKeep DEF CompleteInDatabase
  <2>3. CASE Move(r, "confirm") /\ UNCHANGED creationsInProgress
    <3>1. MovesTo(r, "confirm", r, MyLease(r))
      BY <1>0, <2>1, <2>3, Here, MoveStep DEF PC
    <3> QED BY <1>0, <2>1, <2>2, <2>3, <3>1, Frame, StepTyped
  <2>4. CASE Finish(r)
    BY <1>0, <2>1, <2>2, <2>4, Here, Frame, FinishTyped, FinishStep
  <2> QED BY <1>14, <2>1, <2>2, <2>3, <2>4, ChainErrorTyped DEF CompleteInDatabase
<1>15. CASE UndoSimulation(r)
  BY <1>0, <1>15, Here, Frame, OperationsKeep, FinishTyped, FinishStep DEF UndoSimulation
<1> QED
  BY <1>1, <1>2, <1>3, <1>4, <1>5, <1>6, <1>7, <1>8, <1>9, <1>10, <1>11, <1>12, <1>13, <1>14, <1>15
  DEF RequestStep

LEMMA ReconcilersTyped ==
  ASSUME TypeInv, NEW p \in Process, ReconcileStep(p)
  PROVE  TypeInv'
<1> USE DEF At, UnleasedPC, OwnPC, EarlyPC, ReclaimPC, ReconcilePC
<1>1. NoLease \in Lease
  BY DEF NoLease, Lease
<1>2. Target(p) \in Attempt /\ MyLease(p) \in Lease
  BY Here DEF ReconcileStep, ConfirmOnHive, ReconcileClaim, ReconcileReread, ReconcileEvidence,
     PersistHiveMatchedAccount, ReconcileConfirm, ReconcileRollback, ReconcileRelease
<1>3. ChainTypeOK' /\ setbacks' \in 0 .. MaxSetbacks
  BY Frame DEF ReconcileStep, ConfirmOnHive, ReconcileClaim, ReconcileReread, ReconcileEvidence,
     PersistHiveMatchedAccount, ReconcileConfirm, ReconcileRollback, ReconcileRelease
<1>4. Kept
  <2>1. CASE UNCHANGED db
    BY <2>1, Frame
  <2>2. CASE ~UNCHANGED db
    BY <1>2, <2>2, Here, OperationsKeep
    DEF ReconcileStep, ConfirmOnHive, ReconcileClaim, ReconcileReread, ReconcileEvidence,
        PersistHiveMatchedAccount, ReconcileConfirm, ReconcileRollback, ReconcileRelease
  <2> QED BY <2>1, <2>2
<1>5. ASSUME Finish(p)
      PROVE  TypeInv'
  BY <1>3, <1>4, <1>5, Here, Frame, FinishStep, FinishTyped
<1>6. ASSUME NEW pc \in ReconcilePC, Move(p, pc), UNCHANGED creationsInProgress, pc # "rcClaim"
      PROVE  TypeInv'
  <2>1. MovesTo(p, pc, Target(p), MyLease(p))
    BY <1>6, Here, MoveStep DEF PC
  <2> QED BY <1>2, <1>3, <1>4, <1>6, <2>1, Frame, StepTyped
<1>7. ASSUME NEW pc \in ReconcilePC, NEW l \in Lease, MoveWith(p, pc, l),
             UNCHANGED creationsInProgress, pc # "rcClaim"
      PROVE  TypeInv'
  <2>1. MovesTo(p, pc, Target(p), l)
    BY <1>7, Here, MoveWithStep DEF PC
  <2> QED BY <1>2, <1>3, <1>4, <1>7, <2>1, Frame, StepTyped
<1>8. CASE ConfirmOnHive(p)
  BY <1>1, <1>5, <1>7, <1>8 DEF ConfirmOnHive
<1>9. CASE ReconcileClaim(p)
  BY <1>2, <1>5, <1>7, <1>9, Here, ClaimOperation DEF ReconcileClaim
<1>10. CASE ReconcileReread(p)
  BY <1>6, <1>10 DEF ReconcileReread
<1>11. CASE ReconcileEvidence(p)
  BY <1>6, <1>11 DEF ReconcileEvidence
<1>12. CASE PersistHiveMatchedAccount(p)
  BY <1>5, <1>6, <1>12 DEF PersistHiveMatchedAccount, GiveUp
<1>13. CASE ReconcileConfirm(p)
  BY <1>5, <1>6, <1>13 DEF ReconcileConfirm, GiveUp
<1>14. CASE ReconcileRollback(p) \/ ReconcileRelease(p)
  BY <1>5, <1>14 DEF ReconcileRollback, ReconcileRelease
<1> QED BY <1>8, <1>9, <1>10, <1>11, <1>12, <1>13, <1>14 DEF ReconcileStep

LEMMA OthersTyped ==
  ASSUME TypeInv,
         \/ \E w \in Reconciler, a \in Attempt : StartReconcile(w, a)
         \/ \E w \in Reconciler, u \in User : StartConfirm(w, u)
         \/ \E p \in Process : Crash(p) \/ StorageFails(p)
         \/ \E a \in Attempt : TimePasses(a) \/ HiveStep(a) \/ HiveForgets(a)
         \/ UNCHANGED vars
  PROVE  TypeInv'
<1> USE DEF At, UnleasedPC, OwnPC, EarlyPC, ReclaimPC, ReconcilePC
<1>1. ASSUME NEW w \in Reconciler, NEW a \in Attempt, StartReconcile(w, a)
      PROVE  TypeInv'
  <2>1. w \in Process /\ w \notin Attempt /\ NoLease \in Lease
    BY ProcessAssumption DEF Process, NoLease, Lease
  <2>2. Kept /\ ChainTypeOK' /\ setbacks' \in 0 .. MaxSetbacks
    BY <1>1, Frame DEF StartReconcile
  <2> QED
    BY <1>1, <2>1, <2>2, Frame, ReconcileStart, StepTyped, FinishTyped
    DEF StartReconcile, TypeInv
<1>2. ASSUME NEW w \in Reconciler, NEW u \in User, StartConfirm(w, u)
      PROVE  TypeInv'
  <2>1. w \in Process /\ w \notin Attempt
    BY ProcessAssumption DEF Process
  <2>2. /\ Kept /\ ChainTypeOK' /\ setbacks' \in 0 .. MaxSetbacks
        /\ creationsInProgress' \subseteq Attempt
    BY <1>2, Frame DEF StartConfirm
  <2>3. account[u].by \in Attempt
    BY <1>2, Here, <2>1 DEF StartConfirm, DatabaseTypeOK, AccountRow
  <2>4. MovesTo(w, "confirm", account[u].by, MyLease(w))
    BY <1>2, <2>1, <2>3, Here, ConfirmStart DEF StartConfirm
  <2> QED BY <2>1, <2>2, <2>3, <2>4, StepTyped
<1>3. ASSUME NEW p \in Process, Crash(p)
      PROVE  TypeInv'
  BY <1>3, Here, Frame, FinishStep, FinishTyped DEF Crash
<1>4. ASSUME NEW p \in Process, StorageFails(p)
      PROVE  TypeInv'
  <2>1. /\ Kept /\ ChainTypeOK' /\ setbacks' \in 0 .. MaxSetbacks
        /\ creationsInProgress' \subseteq Attempt
    BY <1>4, Frame DEF StorageFails
  <2>2. Target(p) \in Attempt
    BY <1>4, Here DEF StorageFails
  <2>3. CASE Move(p, "rcRelease")
    BY <2>1, <2>2, <2>3, Here, MoveStep, StepTyped DEF PC
  <2>4. CASE p \in Attempt /\ Target(p) = p /\ Move(p, "undo")
    <3>1. p \notin Reconciler
      BY <2>4, ProcessAssumption
    <3> QED BY <2>1, <2>2, <2>4, <3>1, Here, MoveStep, StepTyped DEF PC
  <2> QED BY <1>4, <2>3, <2>4, Here DEF StorageFails
<1>5. ASSUME NEW a \in Attempt, TimePasses(a) \/ HiveStep(a) \/ HiveForgets(a)
      PROVE  TypeInv'
  <2>1. Kept
    <3>1. a \in Process
      BY DEF Process
    <3> QED BY <1>5, <3>1, Here, Frame, OperationsKeep DEF TimePasses, HiveStep, HiveForgets
  <2>2. ChainTypeOK' /\ setbacks' \in 0 .. MaxSetbacks
    <3>1. a \in Process
      BY DEF Process
    <3> QED BY <1>5, <3>1, Here, Frame, ChainTyped DEF TimePasses, HiveStep, HiveForgets
  <2>3. UNCHANGED << proc, creationsInProgress >>
    BY <1>5 DEF TimePasses, HiveStep, HiveForgets
  <2>4. TypeOK'
    BY <2>1, <2>2, <2>3 DEF TypeInv, TypeOK, Kept
  <2> QED BY <2>1, <2>3, <2>4 DEF TypeInv, Kept, ProcessesOK, Target, MyLease
<1>6. CASE UNCHANGED vars
  <2>1. TypeOK'
    BY <1>6 DEF vars, TypeInv, TypeOK, DatabaseTypeOK, ChainTypeOK
  <2> QED BY <1>6, <2>1 DEF vars, TypeInv, ProcessesOK, Target, MyLease
<1> QED BY <1>1, <1>2, <1>3, <1>4, <1>5, <1>6

LEMMA InitTyped ==
  ASSUME Init
  PROVE  TypeInv
<1>1. DatabaseTypeOK
  <2>1. remaining \in [Ticket -> Nat]
    BY TotalUsesAssumption DEF Init, DatabaseInit
  <2>2. attempt \in [Attempt -> AttemptRow]
    BY DEF Init, DatabaseInit, AttemptRow, Status
  <2>3. account \in [User -> AccountRow \cup {NoAccount}]
    BY DEF Init, DatabaseInit
  <2> QED BY <2>1, <2>2, <2>3 DEF DatabaseTypeOK
<1>2. ChainTypeOK
  BY DEF Init, ChainInit, ChainTypeOK, TxPlace, TxClock
<1>3. \A p \in Process :
        /\ Idle(p) \in ProcState /\ Idle(p).pc = "idle" /\ Idle(p).lease = NoLease
        /\ p \in Attempt => Idle(p).target = p
  BY DEF Idle, ProcState, PC, NoLease, Lease
<1>4. proc = [p \in Process |-> Idle(p)]
  BY DEF Init
<1>5. TypeOK
  BY <1>1, <1>2, <1>3, <1>4, ProcessAssumption DEF TypeOK, Init
<1>6. \A r \in Attempt : attempt[r].status = "absent"
  BY DEF Init, DatabaseInit
<1>7. /\ \A p \in Process : proc[p] = Idle(p)
      /\ \A r \in Attempt : r \in Process
      /\ \A w \in Reconciler : w \in Process
  BY <1>4 DEF Process
<1>8. ProcessesOK
  BY <1>3, <1>6, <1>7 DEF ProcessesOK, Target, MyLease
<1> QED BY <1>5, <1>8 DEF TypeInv

LEMMA NextTyped ==
  ASSUME TypeInv, [Next]_vars
  PROVE  TypeInv'
BY RequestsTyped, ReconcilersTyped, OthersTyped DEF Next

(* Every variable stays in its type, for any number of processes.           *)
THEOREM TypeInvariant == Spec => []TypeOK
<1>1. Init => TypeInv
  BY InitTyped
<1>2. TypeInv /\ [Next]_vars => TypeInv'
  BY NextTyped
<1>3. TypeInv => TypeOK
  BY DEF TypeInv
<1> QED BY <1>1, <1>2, <1>3, PTL DEF Spec
================================================================================
