--------------------------- MODULE ReconciliationQueue ---------------------------
(***************************************************************************)
(* The queue of account creations whose result is not known                *)
(* (ReconciliationQueue in src/utils/db-ticket-validator.ts), and its two  *)
(* consumers: the background cycle of every instance                       *)
(* (src/lib/auto-reconciler.ts) and the operator's script                  *)
(* (scripts/reconcile-pending.ts).                                         *)
(*                                                                         *)
(* An entry is claimed for five minutes, its creation attempt is           *)
(* reconciled (AccountCreation shows how; here it is decided or not), and  *)
(* the result is recorded under the lease.  After MAX_ATTEMPTS claims the  *)
(* entry waits in manual review, where only an operator takes it up.       *)
(*                                                                         *)
(* Every claim increments attempt_count and lease_generation and draws a   *)
(* fresh token, and nothing else changes them: claims stands for all three.*)
(* The list a consumer reads is not modelled: its claim repeats the        *)
(* conditions of the list.                                                 *)
(***************************************************************************)
EXTENDS Naturals

CONSTANTS
  Entry,          (* correlation ids, each with at most one entry           *)
  Cycle,          (* the background cycles, one per instance                *)
  Script,         (* runs of the operator's script                          *)
  NoEntry,        (* a worker between two entries                           *)
  MaxAttempts,    (* MAX_ATTEMPTS                                           *)
  MaxReviews,     (* bound: rechecks by an operator                         *)
  MaxSetbacks     (* bound: crashes, stalls and failing statements          *)

Worker == Cycle \cup Script

ASSUME QueueAssumption ==
  /\ Cycle \cap Script = {}
  /\ NoEntry \notin Entry
  /\ MaxAttempts \in Nat \ {0}
  /\ MaxReviews \in Nat
  /\ MaxSetbacks \in Nat

VARIABLES
  queue,          (* per correlation id: its row                            *)
  decided,        (* correlation ids whose attempt is completed or rolled   *)
                  (* back: that is final (AccountCreation)                  *)
  worker,         (* per worker: what it does, with which lease             *)
  stopped,        (* cycles whose timer has been cleared                    *)
  tries,          (* history, per entry: reconciliations no operator asked  *)
                  (* for                                                    *)
  reviewed,       (* history: entries that have been in manual review       *)
  reviews,
  setbacks

vars == << queue, decided, worker, stopped, tries, reviewed, reviews, setbacks >>
history == << tries, reviewed, reviews >>

Status == {"absent", "pending", "processing", "failed", "manual_review", "resolved"}
(* due: next_attempt_at has passed; expired: the lease has.                 *)
Row == [status : Status, claims : Nat, due : BOOLEAN, expired : BOOLEAN]
LeasedPC == {"reconcile", "resolve", "fail", "release"}
WorkerState == [pc : LeasedPC \cup {"idle", "cycle"}, entry : Entry \cup {NoEntry},
                claims : Nat, manual : BOOLEAN]

(* Only a processing row has a lease that can expire.                       *)
QueueTypeOK ==
  /\ queue \in [Entry -> Row]
  /\ \A e \in Entry : queue[e].expired => queue[e].status = "processing"
  /\ decided \subseteq Entry
  /\ worker \in [Worker -> WorkerState]
  /\ stopped \subseteq Cycle
  /\ tries \in [Entry -> Nat]
  /\ reviewed \subseteq Entry
  /\ reviews \in 0 .. MaxReviews
  /\ setbacks \in 0 .. MaxSetbacks

Resting(pc) == [pc |-> pc, entry |-> NoEntry, claims |-> 0, manual |-> FALSE]

Init ==
  /\ queue = [e \in Entry |->
                [status |-> "absent", claims |-> 0, due |-> TRUE, expired |-> FALSE]]
  /\ decided = {}
  /\ worker = [w \in Worker |-> Resting("idle")]
  /\ stopped = {}
  /\ tries = [e \in Entry |-> 0]
  /\ reviewed = {}
  /\ reviews = 0
  /\ setbacks = 0

Setback == setbacks < MaxSetbacks /\ setbacks' = setbacks + 1

At(w, pc) == worker[w].pc = pc
Mine(w) == worker[w].entry
Move(w, pc) == worker' = [worker EXCEPT ![w].pc = pc]
(* On to the next entry.                                                    *)
Proceed(w) ==
  worker' = [worker EXCEPT ![w] = Resting(IF w \in Cycle THEN "cycle" ELSE "idle")]

------------------------------------------------------------------------------
(* The operations on the table.                                             *)

(* Best effort: a handler that fails to insert leaves no entry.  A repeated *)
(* insert changes the texts of the row only.                                *)
EnqueueReconciliation(e) ==
  /\ queue[e].status = "absent"
  /\ queue' = [queue EXCEPT ![e].status = "pending"]
  /\ UNCHANGED << decided, worker, stopped, history, setbacks >>

(* Mutant: the lease of a dead worker is never taken over.                  *)
ActionableUnlessClaimed(e) == queue[e].status \in {"pending", "failed"} /\ queue[e].due

(* Work that is due, or whose worker has lost its lease.                    *)
Actionable(e) ==
  \/ queue[e].status \in {"pending", "failed"} /\ queue[e].due
  \/ queue[e].status = "processing" /\ queue[e].expired

Claimed(row) ==
  [status |-> "processing", claims |-> row.claims + 1, due |-> row.due, expired |-> FALSE]

(* Mutant: the worker does not look at the count of a claim it has got.     *)
ExhaustedNever(claims) == FALSE

(* A worker that gets one claim too many only sends the entry to review.    *)
Exhausted(claims) == claims > MaxAttempts

ClaimReconciliationEntry(w, e) ==
  /\ At(w, IF w \in Cycle THEN "cycle" ELSE "idle")
  /\ Actionable(e)
  /\ LET claims == queue[e].claims + 1 IN
       /\ queue' = [queue EXCEPT ![e] = Claimed(@)]
       /\ worker' = [worker EXCEPT ![w] =
            [pc |-> IF Exhausted(claims) THEN "fail" ELSE "reconcile",
             entry |-> e, claims |-> claims, manual |-> FALSE]]
       /\ tries' = IF Exhausted(claims) THEN tries ELSE [tries EXCEPT ![e] = @ + 1]
  /\ UNCHANGED << decided, stopped, reviewed, reviews, setbacks >>

(* Mutant: an operator's recheck grants a new budget of retries.            *)
ClaimManualReviewAfresh(s, e) ==
  /\ At(s, "idle")
  /\ queue[e].status = "manual_review"
  /\ reviews < MaxReviews /\ reviews' = reviews + 1
  /\ queue' = [queue EXCEPT ![e] = [Claimed(@) EXCEPT !.claims = 1]]
  /\ worker' = [worker EXCEPT ![s] =
       [pc |-> "reconcile", entry |-> e, claims |-> 1, manual |-> TRUE]]
  /\ UNCHANGED << decided, stopped, tries, reviewed, setbacks >>

ClaimManualReviewReconciliation(s, e) ==
  /\ At(s, "idle")
  /\ queue[e].status = "manual_review"
  /\ reviews < MaxReviews /\ reviews' = reviews + 1
  /\ queue' = [queue EXCEPT ![e] = Claimed(@)]
  /\ worker' = [worker EXCEPT ![s] =
       [pc |-> "reconcile", entry |-> e, claims |-> queue[e].claims + 1, manual |-> TRUE]]
  /\ UNCHANGED << decided, stopped, tries, reviewed, setbacks >>

(* Mutant: token and generation are not compared.                           *)
HoldsAny(w) == queue[Mine(w)].status = "processing" /\ ~queue[Mine(w)].expired

(* reconciliationLeasePredicate                                             *)
Holds(w) ==
  LET row == queue[Mine(w)] IN
    /\ row.status = "processing"
    /\ row.claims = worker[w].claims
    /\ ~row.expired

(* A fenced UPDATE: it ends the lease, or finds it taken over.              *)
Close(w, status, due) ==
  /\ queue' = IF Holds(w)
                THEN [queue EXCEPT ![Mine(w)] =
                        [@ EXCEPT !.status = status, !.due = due, !.expired = FALSE]]
                ELSE queue
  /\ reviewed' = IF Holds(w) /\ status = "manual_review"
                   THEN reviewed \cup {Mine(w)} ELSE reviewed
  /\ Proceed(w)
  /\ UNCHANGED << decided, stopped, tries, reviews, setbacks >>

MarkReconciliationResolved(w) ==
  /\ At(w, "resolve")
  /\ Close(w, "resolved", queue[Mine(w)].due)

(* The last claim sends the entry to review; an earlier one delays it.      *)
MarkReconciliationFailed(w) ==
  /\ At(w, "fail")
  /\ IF worker[w].claims >= MaxAttempts
       THEN Close(w, "manual_review", queue[Mine(w)].due)
       ELSE Close(w, "failed", FALSE)

ReleaseManualReviewReconciliation(w) ==
  /\ At(w, "release")
  /\ Close(w, "manual_review", queue[Mine(w)].due)

------------------------------------------------------------------------------
(* The consumers.                                                           *)

(* What follows a result that is not final, or an error.                    *)
GiveUp(w) == Move(w, IF worker[w].manual THEN "release" ELSE "fail")

(* Mutant: a result that calls for a review closes the entry.               *)
ReconcileOptimistically(w) ==
  /\ At(w, "reconcile")
  /\ Move(w, "resolve")
  /\ UNCHANGED << queue, decided, stopped, history, setbacks >>

(* reconcileCreationAttempt decides the attempt, finds it decided, or comes *)
(* to no conclusion.                                                        *)
ReconcileCreationAttempt(w) ==
  /\ At(w, "reconcile")
  /\ \/ decided' = decided \cup {Mine(w)} /\ Move(w, "resolve")
     \/ GiveUp(w) /\ UNCHANGED decided
  /\ UNCHANGED << queue, stopped, history, setbacks >>

(* Recording the resolution throws: the entry is recorded as failed.        *)
ResolveThrows(w) ==
  /\ At(w, "resolve")
  /\ Setback
  /\ GiveUp(w)
  /\ UNCHANGED << queue, decided, stopped, history >>

(* Recording the failure throws: the cycle leaves the lease to expire.      *)
FailThrows(w) ==
  /\ w \in Cycle
  /\ At(w, "fail")
  /\ Setback
  /\ Proceed(w)
  /\ UNCHANGED << queue, decided, stopped, history >>

(* A timer that finds its cycle running does nothing.                       *)
LaunchCycle(c) ==
  /\ At(c, "idle")
  /\ c \notin stopped
  /\ Move(c, "cycle")
  /\ UNCHANGED << queue, decided, stopped, history, setbacks >>

EndCycle(c) ==
  /\ At(c, "cycle")
  /\ Move(c, "idle")
  /\ UNCHANGED << queue, decided, stopped, history, setbacks >>

(* The timer is cleared; the cycle that is running ends as usual.           *)
StopAutoReconciler(c) ==
  /\ c \notin stopped
  /\ stopped' = stopped \cup {c}
  /\ UNCHANGED << queue, decided, worker, history, setbacks >>

------------------------------------------------------------------------------
(* What surrounds the consumers.                                            *)

(* A process dies; an instance is started again unless it was stopping.     *)
Crash(w) ==
  /\ ~At(w, "idle")
  /\ Setback
  /\ worker' = [worker EXCEPT ![w] = Resting("idle")]
  /\ UNCHANGED << queue, decided, stopped, history >>

(* Five minutes pass.  A holder that is still at work then has stalled.     *)
LeaseExpires(e) ==
  /\ queue[e].status = "processing"
  /\ ~queue[e].expired
  /\ queue' = [queue EXCEPT ![e].expired = TRUE]
  /\ IF \E w \in Worker : Mine(w) = e /\ Holds(w) THEN Setback ELSE UNCHANGED setbacks
  /\ UNCHANGED << decided, worker, stopped, history >>

BackoffPasses(e) ==
  /\ queue[e].status = "failed"
  /\ ~queue[e].due
  /\ queue' = [queue EXCEPT ![e].due = TRUE]
  /\ UNCHANGED << decided, worker, stopped, history, setbacks >>

(* A handler or the stale-attempts phase decides the attempt.               *)
DecideAttempt(e) ==
  /\ e \notin decided
  /\ decided' = decided \cup {e}
  /\ UNCHANGED << queue, worker, stopped, history, setbacks >>

WorkerStep(w) ==
  \/ ReconcileCreationAttempt(w)
  \/ MarkReconciliationResolved(w)
  \/ MarkReconciliationFailed(w)
  \/ ReleaseManualReviewReconciliation(w)

Next ==
  \/ \E w \in Worker : WorkerStep(w) \/ ResolveThrows(w) \/ FailThrows(w) \/ Crash(w)
  \/ \E w \in Worker, e \in Entry : ClaimReconciliationEntry(w, e)
  \/ \E s \in Script, e \in Entry : ClaimManualReviewReconciliation(s, e)
  \/ \E c \in Cycle : LaunchCycle(c) \/ EndCycle(c) \/ StopAutoReconciler(c)
  \/ \E e \in Entry : EnqueueReconciliation(e) \/ LeaseExpires(e)
                      \/ BackoffPasses(e) \/ DecideAttempt(e)

Spec == Init /\ [][Next]_vars

(* The timer launches cycle after cycle, and each cycle claims all that is  *)
(* due; what has begun goes on; time passes.  An operator need not come.    *)
Fairness ==
  /\ \A w \in Worker : WF_vars(WorkerStep(w))
  /\ \A c \in Cycle :
       /\ WF_vars(LaunchCycle(c))
       /\ \A e \in Entry : SF_vars(ClaimReconciliationEntry(c, e))
  /\ \A e \in Entry : WF_vars(LeaseExpires(e)) /\ WF_vars(BackoffPasses(e))

FairSpec == Spec /\ Fairness

------------------------------------------------------------------------------
(* Properties.                                                              *)

(* However workers die, stall and take over, an entry is reconciled without *)
(* an operator at most MAX_ATTEMPTS times (constants.ts 156, "After this,   *)
(* unresolved work requires manual review").                                *)
RetryBudget == \A e \in Entry : tries[e] <= MaxAttempts

(* An entry that has been in manual review never returns to the retries,    *)
(* whoever writes last: the recheck releases it "without making it eligible *)
(* for automatic retry" (releaseManualReviewReconciliation).                *)
ReviewedIsNotRequeued ==
  \A e \in reviewed : queue[e].status \in {"manual_review", "processing", "resolved"}

(* ... and no cycle reconciles it any more, even if it takes over the lease *)
(* of an operator whose recheck died.                                       *)
ReviewNeedsOperator == [][\A e \in reviewed : tries'[e] = tries[e]]_vars

(* An entry is closed only when its attempt is decided.                     *)
ResolvedIsDecided == \A e \in Entry : queue[e].status = "resolved" => e \in decided

(* No entry is forgotten: it is resolved or put before an operator, as long *)
(* as one instance is not shut down.                                        *)
EveryEntrySettles ==
  \A e \in Entry : queue[e].status # "absent" ~>
    queue[e].status \in {"resolved", "manual_review"} \/ Cycle \subseteq stopped
==================================================================================
