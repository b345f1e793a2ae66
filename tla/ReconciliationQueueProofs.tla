------------------------ MODULE ReconciliationQueueProofs ------------------------
(***************************************************************************)
(* The safety of ReconciliationQueue for any number of entries, cycles,    *)
(* script runs, retries, rechecks and setbacks.                            *)
(***************************************************************************)
EXTENDS ReconciliationQueue, TLAPS

(* What a worker knows about its entry.                                     *)
WorkersOK ==
  \A w \in Worker :
    /\ worker[w].pc \in LeasedPC => Mine(w) \in Entry
    /\ worker[w].manual \/ At(w, "release") => worker[w].claims >= MaxAttempts
    /\ At(w, "resolve") => Mine(w) \in decided

(* Review comes after the last automatic claim, and the count never falls:  *)
(* this is why nobody can put a reviewed entry back among the retries.      *)
ReviewOK ==
  /\ \A e \in Entry : queue[e].status = "manual_review" => e \in reviewed
  /\ \A e \in reviewed : queue[e].claims >= MaxAttempts
  /\ ReviewedIsNotRequeued

(* A claim allows one automatic reconciliation, the first MaxAttempts only. *)
TriesOK == \A e \in Entry : tries[e] <= queue[e].claims /\ tries[e] <= MaxAttempts

QueueInv == QueueTypeOK /\ WorkersOK /\ ReviewOK /\ TriesOK /\ ResolvedIsDecided

------------------------------------------------------------------------------
LEMMA InitQueue == ASSUME Init PROVE QueueInv
<1> USE QueueAssumption
<1>1. QueueTypeOK
  BY DEF Init, QueueTypeOK, Row, Status, WorkerState, LeasedPC, Resting
<1>2. WorkersOK
  BY DEF Init, WorkersOK, LeasedPC, Resting, At, Mine
<1>3. ReviewOK /\ TriesOK /\ ResolvedIsDecided
  BY DEF Init, ReviewOK, ReviewedIsNotRequeued, TriesOK, ResolvedIsDecided
<1> QED BY <1>1, <1>2, <1>3 DEF QueueInv

------------------------------------------------------------------------------
(* Steps that move one worker and leave the rows alone.                     *)

(* A worker that rests, or goes on under its lease.                         *)
LEMMA WorkerMoves ==
  ASSUME QueueInv, NEW w \in Worker, NEW state \in WorkerState,
         worker' = [worker EXCEPT ![w] = state],
         state.pc \in LeasedPC => state.entry \in Entry,
         state.manual \/ state.pc = "release" => state.claims >= MaxAttempts,
         state.pc = "resolve" => state.entry \in decided',
         decided \subseteq decided', decided' \subseteq Entry
  PROVE  WorkersOK' /\ worker' \in [Worker -> WorkerState]
<1>1. worker' \in [Worker -> WorkerState]
  BY DEF QueueInv, QueueTypeOK
<1>2. ASSUME NEW v \in Worker
      PROVE  worker'[v] = IF v = w THEN state ELSE worker[v]
  BY DEF QueueInv, QueueTypeOK
<1>3. WorkersOK'
  BY <1>2 DEF QueueInv, WorkersOK, At, Mine
<1> QED BY <1>1, <1>3

LEMMA MoveKeepsWorkers ==
  ASSUME QueueInv, NEW w \in Worker, NEW pc \in LeasedPC \cup {"idle", "cycle"}, Move(w, pc),
         pc \in LeasedPC => Mine(w) \in Entry,
         pc = "release" => worker[w].claims >= MaxAttempts,
         pc = "resolve" => Mine(w) \in decided',
         decided \subseteq decided', decided' \subseteq Entry
  PROVE  WorkersOK' /\ worker' \in [Worker -> WorkerState]
<1> DEFINE state == [worker[w] EXCEPT !.pc = pc]
<1>1. worker[w] \in WorkerState
  BY DEF QueueInv, QueueTypeOK
<1>2. /\ state \in WorkerState /\ state.pc = pc /\ state.entry = Mine(w)
      /\ state.manual = worker[w].manual /\ state.claims = worker[w].claims
  BY <1>1 DEF WorkerState, Mine
<1>3. worker' = [worker EXCEPT ![w] = state]
  BY DEF Move
<1>4. worker[w].manual => worker[w].claims >= MaxAttempts
  BY DEF QueueInv, WorkersOK
<1> HIDE DEF state
<1> QED BY <1>2, <1>3, <1>4, WorkerMoves

LEMMA RestState ==
  ASSUME NEW pc \in {"idle", "cycle"}
  PROVE  /\ Resting(pc) \in WorkerState
         /\ Resting(pc).pc = pc /\ Resting(pc).manual = FALSE
BY DEF Resting, WorkerState

(* With the rows and the rest unchanged, the invariant is about workers.    *)
LEMMA RowsStand ==
  ASSUME QueueInv, WorkersOK', worker' \in [Worker -> WorkerState],
         UNCHANGED << queue, history >>,
         decided \subseteq decided', decided' \subseteq Entry,
         stopped' \subseteq Cycle, setbacks' \in 0 .. MaxSetbacks
  PROVE  QueueInv'
BY DEF QueueInv, QueueTypeOK, ReviewOK, ReviewedIsNotRequeued, TriesOK, ResolvedIsDecided, history

LEMMA SetbackTyped ==
  ASSUME QueueInv, Setback \/ UNCHANGED setbacks
  PROVE  setbacks' \in 0 .. MaxSetbacks
BY QueueAssumption DEF QueueInv, QueueTypeOK, Setback

------------------------------------------------------------------------------
(* A worker's row.                                                          *)

LEMMA CloseKeeps ==
  ASSUME QueueInv, NEW w \in Worker, Mine(w) \in Entry,
         NEW status \in {"resolved", "failed", "manual_review"}, NEW due \in BOOLEAN,
         Close(w, status, due),
         status = "resolved" => Mine(w) \in decided,
         status = "manual_review" => worker[w].claims >= MaxAttempts,
         status = "failed" => worker[w].claims < MaxAttempts
  PROVE  QueueInv'
<1> USE QueueAssumption
<1> DEFINE m == Mine(w)
           row == [queue[m] EXCEPT !.status = status, !.due = due, !.expired = FALSE]
<1>1. WorkersOK' /\ worker' \in [Worker -> WorkerState]
  <2>1. PICK pc \in {"idle", "cycle"} : worker' = [worker EXCEPT ![w] = Resting(pc)]
    BY DEF Close, Proceed
  <2> QED BY <2>1, RestState, WorkerMoves DEF Close, LeasedPC, QueueInv, QueueTypeOK
<1>2. /\ row \in Row /\ row.status = status /\ ~row.expired /\ row.claims = queue[m].claims
      /\ m \in Entry
  BY DEF QueueInv, QueueTypeOK, Row, Status
<1>3. CASE ~Holds(w)
  <2>1. queue' = queue /\ reviewed' = reviewed
    BY <1>3 DEF Close
  <2> QED BY <2>1, <1>1, RowsStand DEF Close, history, QueueInv, QueueTypeOK
<1>4. CASE Holds(w)
  <2>1. queue' = [queue EXCEPT ![m] = row]
    BY <1>4 DEF Close
  <2>2. /\ queue[m].status = "processing" /\ queue[m].claims = worker[w].claims
        /\ reviewed' = IF status = "manual_review" THEN reviewed \cup {m} ELSE reviewed
    BY <1>4 DEF Close, Holds
  <2> HIDE DEF row, m
  <2>3. \A e \in Entry : queue'[e] = IF e = m THEN row ELSE queue[e]
    BY <2>1, <1>2 DEF QueueInv, QueueTypeOK
  <2>4. QueueTypeOK'
    BY <2>1, <2>2, <2>3, <1>1, <1>2 DEF Close, QueueInv, QueueTypeOK
  <2>5. ReviewOK'
    <3>1. \A e \in Entry : queue'[e].status = "manual_review" => e \in reviewed'
      BY <2>2, <2>3, <1>2 DEF QueueInv, ReviewOK
    <3>2. m \in reviewed' => row.claims >= MaxAttempts /\ status # "failed"
      <4>1. row.claims = worker[w].claims /\ worker[w].claims \in Nat
        BY <1>2, <2>2 DEF Row
      <4>2. CASE m \in reviewed
        <5>1. worker[w].claims >= MaxAttempts
          BY <4>2, <2>2 DEF QueueInv, ReviewOK
        <5> QED BY <5>1, <4>1
      <4>3. CASE m \notin reviewed
        BY <4>1, <4>3, <2>2
      <4> QED BY <4>2, <4>3
    <3>3. reviewed' \subseteq Entry /\ \A e \in reviewed' : e = m \/ e \in reviewed
      BY <2>2, <1>2 DEF QueueInv, QueueTypeOK
    <3>4. \A e \in reviewed' : queue'[e].claims >= MaxAttempts
      BY <3>2, <3>3, <2>3 DEF QueueInv, ReviewOK
    <3>5. ReviewedIsNotRequeued'
      BY <3>2, <3>3, <2>3, <1>2 DEF QueueInv, ReviewOK, ReviewedIsNotRequeued
    <3> QED BY <3>1, <3>4, <3>5 DEF ReviewOK
  <2>6. TriesOK' /\ ResolvedIsDecided'
    BY <2>3, <1>2 DEF Close, QueueInv, TriesOK, ResolvedIsDecided, m
  <2> QED BY <1>1, <2>4, <2>5, <2>6 DEF QueueInv
<1> QED BY <1>3, <1>4

LEMMA ClaimedRow ==
  ASSUME NEW row \in Row
  PROVE  /\ Claimed(row) \in Row /\ Claimed(row).status = "processing"
         /\ ~Claimed(row).expired
         /\ Claimed(row).claims = row.claims + 1 /\ row.claims \in Nat
BY DEF Row, Status, Claimed

(* A claim; an automatic one counts as a try unless it is one too many.     *)
LEMMA ClaimKeeps ==
  ASSUME QueueInv, NEW w \in Worker, NEW e \in Entry, NEW state \in WorkerState,
         queue' = [queue EXCEPT ![e] = Claimed(@)],
         worker' = [worker EXCEPT ![w] = state],
         state.entry = e, state.pc \in {"reconcile", "fail"},
         state.manual => queue[e].claims >= MaxAttempts /\ state.claims = queue[e].claims + 1,
         tries' = tries \/ (tries' = [tries EXCEPT ![e] = @ + 1] /\ queue[e].claims < MaxAttempts),
         reviews' \in 0 .. MaxReviews,
         UNCHANGED << decided, stopped, reviewed, setbacks >>
  PROVE  QueueInv'
<1> USE QueueAssumption
<1> DEFINE row == Claimed(queue[e])
<1>1. WorkersOK' /\ worker' \in [Worker -> WorkerState]
  <2>1. queue[e].claims \in Nat
    BY DEF QueueInv, QueueTypeOK, Row
  <2>2. state.manual \/ state.pc = "release" => state.claims >= MaxAttempts
    BY <2>1
  <2> QED BY <2>2, WorkerMoves DEF QueueInv, QueueTypeOK
<1>2. /\ row \in Row /\ row.status = "processing" /\ ~row.expired
      /\ row.claims = queue[e].claims + 1 /\ queue[e].claims \in Nat
  <2>1. queue[e] \in Row
    BY DEF QueueInv, QueueTypeOK
  <2> QED BY <2>1, ClaimedRow
<1>3. queue' = [queue EXCEPT ![e] = row]
  OBVIOUS
<1> HIDE DEF row
<1>4. \A d \in Entry : queue'[d] = IF d = e THEN row ELSE queue[d]
  BY <1>3 DEF QueueInv, QueueTypeOK
<1>5. /\ tries' \in [Entry -> Nat]
      /\ \A d \in Entry \ {e} : tries'[d] = tries[d]
      /\ tries'[e] = tries[e] \/ (tries'[e] = tries[e] + 1 /\ queue[e].claims < MaxAttempts)
  BY DEF QueueInv, QueueTypeOK
<1>6. QueueTypeOK'
  <2>1. queue' \in [Entry -> Row]
    BY <1>2, <1>3 DEF QueueInv, QueueTypeOK
  <2>2. \A d \in Entry : queue'[d].expired => queue'[d].status = "processing"
    BY <1>2, <1>4 DEF QueueInv, QueueTypeOK
  <2> QED BY <2>1, <2>2, <1>1, <1>5 DEF QueueInv, QueueTypeOK
<1>7. ReviewOK'
  BY <1>2, <1>4 DEF QueueInv, QueueTypeOK, ReviewOK, ReviewedIsNotRequeued
<1>8. TriesOK'
  BY <1>2, <1>4, <1>5 DEF QueueInv, QueueTypeOK, TriesOK
<1>9. ResolvedIsDecided'
  BY <1>2, <1>4 DEF QueueInv, ResolvedIsDecided
<1> QED BY <1>1, <1>6, <1>7, <1>8, <1>9 DEF QueueInv

(* A row changes without a claim or a close, and nothing else does.         *)
LEMMA RowKeeps ==
  ASSUME QueueInv, NEW e \in Entry, NEW row \in Row,
         queue' = [queue EXCEPT ![e] = row],
         row.claims = queue[e].claims,
         row.status = queue[e].status
           \/ (queue[e].status = "absent" /\ row.status = "pending"),
         row.expired => row.status = "processing",
         Setback \/ UNCHANGED setbacks,
         UNCHANGED << decided, worker, stopped, history >>
  PROVE  QueueInv'
<1>1. \A d \in Entry : queue'[d] = IF d = e THEN row ELSE queue[d]
  BY DEF QueueInv, QueueTypeOK
<1>2. QueueTypeOK'
  BY <1>1, SetbackTyped DEF QueueInv, QueueTypeOK, history
<1>3. WorkersOK' /\ ReviewOK' /\ TriesOK' /\ ResolvedIsDecided'
  BY <1>1 DEF QueueInv, QueueTypeOK, WorkersOK, At, Mine, ReviewOK, ReviewedIsNotRequeued,
              TriesOK, ResolvedIsDecided, history
<1> QED BY <1>2, <1>3 DEF QueueInv

------------------------------------------------------------------------------
(* Every step preserves the invariant.                                      *)

LEMMA StepKeeps ==
  ASSUME QueueInv, NEW w \in Worker, WorkerStep(w)
  PROVE  QueueInv'
<1>1. \A pc \in LeasedPC : At(w, pc) => Mine(w) \in Entry
  BY DEF QueueInv, WorkersOK, At
<1>2. worker[w].claims \in Nat /\ (Mine(w) \in Entry => queue[Mine(w)].due \in BOOLEAN)
  BY DEF QueueInv, QueueTypeOK, WorkerState, Row
<1>3. CASE ReconcileCreationAttempt(w)
  <2>1. Mine(w) \in Entry
    BY <1>1, <1>3 DEF ReconcileCreationAttempt, LeasedPC
  <2>2. decided \subseteq decided' /\ decided' \subseteq Entry
    BY <2>1, <1>3 DEF ReconcileCreationAttempt, QueueInv, QueueTypeOK
  <2>3. PICK pc \in {"resolve", "release", "fail"} :
          /\ Move(w, pc)
          /\ pc = "resolve" => Mine(w) \in decided'
          /\ pc = "release" => worker[w].manual
    BY <1>3 DEF ReconcileCreationAttempt, GiveUp
  <2>4. WorkersOK' /\ worker' \in [Worker -> WorkerState]
    BY <2>1, <2>2, <2>3, MoveKeepsWorkers DEF QueueInv, WorkersOK, LeasedPC
  <2> QED BY <2>2, <2>4, <1>3, RowsStand DEF ReconcileCreationAttempt, QueueInv, QueueTypeOK
<1>4. CASE MarkReconciliationResolved(w)
  <2>1. Mine(w) \in Entry /\ Mine(w) \in decided
    BY <1>1, <1>4 DEF MarkReconciliationResolved, LeasedPC, QueueInv, WorkersOK
  <2> QED BY <2>1, <1>2, <1>4, CloseKeeps DEF MarkReconciliationResolved
<1>5. CASE MarkReconciliationFailed(w)
  <2>1. Mine(w) \in Entry
    BY <1>1, <1>5 DEF MarkReconciliationFailed, LeasedPC
  <2>2. CASE worker[w].claims >= MaxAttempts
    BY <2>1, <2>2, <1>2, <1>5, CloseKeeps DEF MarkReconciliationFailed
  <2>3. CASE ~(worker[w].claims >= MaxAttempts)
    <3>1. worker[w].claims < MaxAttempts
      BY <2>3, <1>2, QueueAssumption
    <3> QED BY <2>1, <2>3, <3>1, <1>5, CloseKeeps DEF MarkReconciliationFailed
  <2> QED BY <2>2, <2>3
<1>6. CASE ReleaseManualReviewReconciliation(w)
  <2>1. Mine(w) \in Entry /\ worker[w].claims >= MaxAttempts
    BY <1>1, <1>6 DEF ReleaseManualReviewReconciliation, LeasedPC, QueueInv, WorkersOK
  <2> QED BY <2>1, <1>2, <1>6, CloseKeeps DEF ReleaseManualReviewReconciliation
<1> QED BY <1>3, <1>4, <1>5, <1>6 DEF WorkerStep

LEMMA FailuresKeep ==
  ASSUME QueueInv, NEW w \in Worker, ResolveThrows(w) \/ FailThrows(w) \/ Crash(w)
  PROVE  QueueInv'
<1>1. setbacks' \in 0 .. MaxSetbacks
  BY SetbackTyped DEF ResolveThrows, FailThrows, Crash
<1>2. CASE ResolveThrows(w)
  <2>1. Mine(w) \in Entry
    BY <1>2 DEF ResolveThrows, At, LeasedPC, QueueInv, WorkersOK
  <2>2. PICK pc \in {"release", "fail"} : Move(w, pc) /\ (pc = "release" => worker[w].manual)
    BY <1>2 DEF ResolveThrows, GiveUp
  <2>3. WorkersOK' /\ worker' \in [Worker -> WorkerState]
    BY <2>1, <2>2, <1>2, MoveKeepsWorkers
    DEF ResolveThrows, QueueInv, QueueTypeOK, WorkersOK, LeasedPC
  <2> QED BY <1>1, <1>2, <2>3, RowsStand DEF ResolveThrows, QueueInv, QueueTypeOK
<1>3. CASE FailThrows(w) \/ Crash(w)
  <2>1. PICK pc \in {"idle", "cycle"} : worker' = [worker EXCEPT ![w] = Resting(pc)]
    BY <1>3 DEF FailThrows, Crash, Proceed
  <2>2. WorkersOK' /\ worker' \in [Worker -> WorkerState]
    BY <2>1, <1>3, RestState, WorkerMoves
    DEF FailThrows, Crash, LeasedPC, QueueInv, QueueTypeOK
  <2> QED BY <1>1, <1>3, <2>2, RowsStand DEF FailThrows, Crash, QueueInv, QueueTypeOK
<1> QED BY <1>2, <1>3

LEMMA ClaimsKeep ==
  ASSUME QueueInv, NEW w \in Worker, NEW e \in Entry,
         ClaimReconciliationEntry(w, e) \/ ClaimManualReviewReconciliation(w, e)
  PROVE  QueueInv'
<1> USE QueueAssumption
<1>1. queue[e].claims \in Nat
  BY DEF QueueInv, QueueTypeOK, Row
<1>2. CASE ClaimReconciliationEntry(w, e)
  <2>1. PICK pc \in {"reconcile", "fail"} :
          worker' = [worker EXCEPT ![w] =
            [pc |-> pc, entry |-> e, claims |-> queue[e].claims + 1, manual |-> FALSE]]
    BY <1>2 DEF ClaimReconciliationEntry
  <2> DEFINE state == [pc |-> pc, entry |-> e, claims |-> queue[e].claims + 1, manual |-> FALSE]
  <2>2. state \in WorkerState /\ ~state.manual /\ state.entry = e /\ state.pc = pc
    BY <1>1 DEF WorkerState, LeasedPC
  <2>3. tries' = tries
          \/ (tries' = [tries EXCEPT ![e] = @ + 1] /\ queue[e].claims < MaxAttempts)
    BY <1>1, <1>2 DEF ClaimReconciliationEntry, Exhausted
  <2>4. /\ queue' = [queue EXCEPT ![e] = Claimed(@)]
        /\ UNCHANGED << decided, stopped, reviewed, reviews, setbacks >>
        /\ reviews' \in 0 .. MaxReviews
    BY <1>2 DEF ClaimReconciliationEntry, QueueInv, QueueTypeOK
  <2>5. worker' = [worker EXCEPT ![w] = state]
    BY <2>1
  <2> HIDE DEF state
  <2> QED BY <2>2, <2>3, <2>4, <2>5, ClaimKeeps
<1>3. CASE ClaimManualReviewReconciliation(w, e)
  <2> DEFINE state == [pc |-> "reconcile", entry |-> e, claims |-> queue[e].claims + 1,
                       manual |-> TRUE]
  <2>1. /\ state \in WorkerState /\ state.entry = e /\ state.pc = "reconcile"
        /\ state.claims = queue[e].claims + 1
    BY <1>1 DEF WorkerState, LeasedPC
  <2>2. queue[e].claims >= MaxAttempts
    BY <1>3 DEF ClaimManualReviewReconciliation, QueueInv, ReviewOK
  <2>3. /\ queue' = [queue EXCEPT ![e] = Claimed(@)]
        /\ worker' = [worker EXCEPT ![w] = state]
        /\ UNCHANGED << decided, stopped, reviewed, setbacks, tries >>
        /\ reviews' \in 0 .. MaxReviews
    BY <1>3 DEF ClaimManualReviewReconciliation, QueueInv, QueueTypeOK
  <2> HIDE DEF state
  <2> QED BY <2>1, <2>2, <2>3, ClaimKeeps
<1> QED BY <1>2, <1>3

LEMMA CyclesKeep ==
  ASSUME QueueInv, NEW c \in Cycle, LaunchCycle(c) \/ EndCycle(c) \/ StopAutoReconciler(c)
  PROVE  QueueInv'
<1>1. c \in Worker
  BY DEF Worker
<1>2. CASE LaunchCycle(c) \/ EndCycle(c)
  <2>1. PICK pc \in {"idle", "cycle"} : Move(c, pc)
    BY <1>2 DEF LaunchCycle, EndCycle
  <2>2. ~(pc \in LeasedPC) /\ pc # "release" /\ pc # "resolve"
    BY DEF LeasedPC
  <2>3. WorkersOK' /\ worker' \in [Worker -> WorkerState]
    BY <1>1, <1>2, <2>1, <2>2, MoveKeepsWorkers
    DEF LaunchCycle, EndCycle, QueueInv, QueueTypeOK
  <2> QED BY <1>2, <2>3, RowsStand DEF LaunchCycle, EndCycle, QueueInv, QueueTypeOK
<1>3. CASE StopAutoReconciler(c)
  <2>1. WorkersOK'
    BY <1>3 DEF StopAutoReconciler, QueueInv, WorkersOK, At, Mine
  <2> QED BY <1>3, <2>1, RowsStand DEF StopAutoReconciler, QueueInv, QueueTypeOK
<1> QED BY <1>2, <1>3

LEMMA EntriesKeep ==
  ASSUME QueueInv, NEW e \in Entry,
         EnqueueReconciliation(e) \/ LeaseExpires(e) \/ BackoffPasses(e) \/ DecideAttempt(e)
  PROVE  QueueInv'
<1>1. queue[e] \in Row /\ (queue[e].expired => queue[e].status = "processing")
  BY DEF QueueInv, QueueTypeOK
<1>2. CASE EnqueueReconciliation(e)
  <2> DEFINE row == [queue[e] EXCEPT !.status = "pending"]
  <2>1. /\ row \in Row /\ row.claims = queue[e].claims /\ row.status = "pending"
        /\ row.expired = queue[e].expired /\ queue[e].status = "absent"
    BY <1>1, <1>2 DEF Row, Status, EnqueueReconciliation
  <2>2. queue' = [queue EXCEPT ![e] = row] /\ UNCHANGED setbacks
    BY <1>2 DEF EnqueueReconciliation
  <2> HIDE DEF row
  <2> QED BY <1>1, <1>2, <2>1, <2>2, RowKeeps DEF EnqueueReconciliation
<1>3. CASE LeaseExpires(e)
  <2> DEFINE row == [queue[e] EXCEPT !.expired = TRUE]
  <2>1. /\ row \in Row /\ row.claims = queue[e].claims /\ row.status = queue[e].status
        /\ queue[e].status = "processing"
    BY <1>1, <1>3 DEF Row, LeaseExpires
  <2>2. queue' = [queue EXCEPT ![e] = row] /\ (Setback \/ UNCHANGED setbacks)
    BY <1>3 DEF LeaseExpires
  <2> HIDE DEF row
  <2> QED BY <1>3, <2>1, <2>2, RowKeeps DEF LeaseExpires
<1>4. CASE BackoffPasses(e)
  <2> DEFINE row == [queue[e] EXCEPT !.due = TRUE]
  <2>1. /\ row \in Row /\ row.claims = queue[e].claims /\ row.status = queue[e].status
        /\ row.expired = queue[e].expired
    BY <1>1 DEF Row
  <2>2. queue' = [queue EXCEPT ![e] = row] /\ UNCHANGED setbacks
    BY <1>4 DEF BackoffPasses
  <2> HIDE DEF row
  <2> QED BY <1>1, <1>4, <2>1, <2>2, RowKeeps DEF BackoffPasses
<1>5. CASE DecideAttempt(e)
  <2>1. decided \subseteq decided' /\ decided' \subseteq Entry
    BY <1>5 DEF DecideAttempt, QueueInv, QueueTypeOK
  <2>2. WorkersOK'
    BY <1>5, <2>1 DEF DecideAttempt, QueueInv, WorkersOK, At, Mine
  <2> QED BY <1>5, <2>1, <2>2, RowsStand DEF DecideAttempt, QueueInv, QueueTypeOK
<1> QED BY <1>2, <1>3, <1>4, <1>5

LEMMA NextKeeps == ASSUME QueueInv, [Next]_vars PROVE QueueInv'
<1>1. CASE Next
  <2>1. \A s \in Script : s \in Worker
    BY DEF Worker
  <2> QED BY <1>1, <2>1, StepKeeps, FailuresKeep, ClaimsKeep, CyclesKeep, EntriesKeep DEF Next
<1>2. CASE UNCHANGED vars
  BY <1>2 DEF vars, QueueInv, QueueTypeOK, WorkersOK, At, Mine, ReviewOK,
              ReviewedIsNotRequeued, TriesOK, ResolvedIsDecided
<1> QED BY <1>1, <1>2

LEMMA QueueInvariant == Spec => []QueueInv
<1> QED BY InitQueue, NextKeeps, PTL DEF Spec

(* The table keeps its types, and only a processing row has a lease: the    *)
(* CHECK constraints of ReconciliationQueue never refuse a write.           *)
THEOREM QueueTypeInvariant == Spec => []QueueTypeOK
<1>1. QueueInv => QueueTypeOK
  BY DEF QueueInv
<1> QED BY <1>1, QueueInvariant, PTL

(* An entry is reconciled at most MAX_ATTEMPTS times unless an operator     *)
(* asks for more, whatever dies or stalls.                                  *)
THEOREM BudgetHolds == Spec => []RetryBudget
<1>1. QueueInv => RetryBudget
  BY DEF QueueInv, TriesOK, RetryBudget
<1> QED BY <1>1, QueueInvariant, PTL

(* No write, however late, puts a reviewed entry back among the retries.    *)
THEOREM ReviewedStays == Spec => []ReviewedIsNotRequeued
<1>1. QueueInv => ReviewedIsNotRequeued
  BY DEF QueueInv, ReviewOK
<1> QED BY <1>1, QueueInvariant, PTL

(* An entry is closed only when its attempt is decided.                     *)
THEOREM ResolutionIsFounded == Spec => []ResolvedIsDecided
<1>1. QueueInv => ResolvedIsDecided
  BY DEF QueueInv
<1> QED BY <1>1, QueueInvariant, PTL

(* A reviewed entry is reconciled on an operator's request only, also after *)
(* a recheck that died: its count already exceeds the budget.               *)
THEOREM ReviewIsTheOperators == Spec => ReviewNeedsOperator
<1>1. ASSUME QueueInv, [Next]_vars, NEW e \in reviewed
      PROVE  tries'[e] = tries[e]
  <2>1. CASE UNCHANGED tries
    BY <2>1
  <2>2. ASSUME NEW w \in Worker, NEW d \in Entry, ClaimReconciliationEntry(w, d)
        PROVE  tries'[e] = tries[e]
    <3>1. e \in Entry /\ queue[e].claims >= MaxAttempts /\ queue[e].claims \in Nat
      <4>1. e \in Entry /\ queue[e].claims >= MaxAttempts
        BY <1>1 DEF QueueInv, QueueTypeOK, ReviewOK
      <4> QED BY <1>1, <4>1 DEF QueueInv, QueueTypeOK, Row
    <3>2. CASE d = e
      BY <2>2, <3>1, <3>2, QueueAssumption DEF ClaimReconciliationEntry, Exhausted
    <3>3. CASE d # e
      BY <1>1, <2>2, <3>1, <3>3 DEF ClaimReconciliationEntry, QueueInv, QueueTypeOK
    <3> QED BY <3>2, <3>3
  <2>3. UNCHANGED tries \/ \E w \in Worker, d \in Entry : ClaimReconciliationEntry(w, d)
    BY <1>1 DEF Next, vars, history, WorkerStep, ReconcileCreationAttempt,
       MarkReconciliationResolved, MarkReconciliationFailed, ReleaseManualReviewReconciliation,
       Close, ResolveThrows, FailThrows, Crash, ClaimManualReviewReconciliation,
       LaunchCycle, EndCycle, StopAutoReconciler, EnqueueReconciliation, LeaseExpires,
       BackoffPasses, DecideAttempt
  <2> QED BY <2>1, <2>2, <2>3
<1>2. QueueInv /\ [Next]_vars => [\A e \in reviewed : tries'[e] = tries[e]]_vars
  BY <1>1
<1> QED BY <1>2, QueueInvariant, PTL DEF Spec, ReviewNeedsOperator
==================================================================================
