----------------------------- MODULE RcDelegation -----------------------------
(***************************************************************************)
(* Delegating resource credits (RC) to a new account                       *)
(* (src/lib/create/queue-rc-delegation.ts).                                *)
(*                                                                         *)
(* Accounts.rc_status is a small work queue: a worker claims a pending row *)
(* of a confirmed account for two minutes, delegates on Hive and records   *)
(* the result.  What may already have been broadcast becomes uncertain: it *)
(* is never broadcast again, only looked up on Hive.                       *)
(*                                                                         *)
(* A worker is a background cycle of an instance, or the call a handler    *)
(* starts without waiting for it (maybeQueueRcDelegation).                 *)
(***************************************************************************)
EXTENDS Naturals, FiniteSets

CONSTANTS
  Account,        (* Accounts.id of the rows recorded in broadcast mode     *)
  Worker,
  BatchSize,      (* RECONCILIATION_CONFIG.BATCH_SIZE: rows of one list     *)
  NoTarget,       (* a worker without an account                            *)
  MaxGeneration,  (* bound: claims of one row                               *)
  MaxSetbacks     (* bound: passing refusals, errors of recording, crashes, *)
                  (* stalls, forks and changes of a delegation by hand      *)

ASSUME RcAssumption ==
  /\ Account \subseteq Nat
  /\ NoTarget \notin Account
  /\ BatchSize \in Nat \ {0}
  /\ MaxGeneration \in Nat
  /\ MaxSetbacks \in Nat

VARIABLES
  rc,             (* per account: rc_status and its lease                   *)
  ahead,          (* per account: the rows before its own in the list of    *)
                  (* uncertain rows, by rc_updated_at and id                *)
  confirmed,      (* accounts whose blockchain_status is confirmed          *)
  hive,           (* per account: what the network and Hive hold            *)
  refusing,       (* external: accounts whose delegation fails before it is *)
                  (* broadcast from now on, each time it is tried           *)
  worker,         (* per worker: what it does next, for which account       *)
  broadcasts,     (* history, per account: broadcasts begun                 *)
  backed,         (* history: accounts with a delegation of the right amount*)
                  (* accepted by the network, or seen in its state          *)
  unrecorded,     (* history: accounts whose accepted delegation could not  *)
                  (* be recorded, the UPDATE having thrown                  *)
  setbacks

vars == << rc, ahead, confirmed, hive, refusing, worker, broadcasts, backed, unrecorded,
           setbacks >>

RcStatus == {"pending", "processing", "uncertain", "delegated"}
(* The lease token is set exactly while the status is processing (the CHECK *)
(* of the table); the generation tells the tokens apart.                    *)
RcRow == [status : RcStatus, generation : Nat, expired : BOOLEAN]
(* sent: a delegation is on its way; amount: the one in Hive's state.       *)
HiveRow == [sent : BOOLEAN, amount : {"none", "expected", "other"}]
(* The steps under a lease, and the two of a worker that only looks.        *)
LeasedPC == {"delegate", "mark", "release", "uncertain", "inspect", "markExisting"}
PC == LeasedPC \cup {"idle", "lookup", "observe"}

(* Only a processing row has a lease that can expire.                       *)
RcTypeOK ==
  /\ rc \in [Account -> RcRow]
  /\ \A a \in Account : rc[a].expired => rc[a].status = "processing"
  /\ ahead \in [Account -> SUBSET Account]
  /\ confirmed \subseteq Account
  /\ refusing \subseteq Account
  /\ hive \in [Account -> HiveRow]
  /\ worker \in [Worker -> [pc : PC, target : Account \cup {NoTarget}, generation : Nat]]
  /\ broadcasts \in [Account -> Nat]
  /\ backed \subseteq Account
  /\ unrecorded \subseteq Account
  /\ setbacks \in 0 .. MaxSetbacks

Resting == [pc |-> "idle", target |-> NoTarget, generation |-> 0]

Init ==
  /\ rc = [a \in Account |-> [status |-> "pending", generation |-> 0, expired |-> FALSE]]
  /\ ahead = [a \in Account |-> {}]
  /\ confirmed = {}
  /\ refusing = {}
  /\ hive = [a \in Account |-> [sent |-> FALSE, amount |-> "none"]]
  /\ worker = [w \in Worker |-> Resting]
  /\ broadcasts = [a \in Account |-> 0]
  /\ backed = {}
  /\ unrecorded = {}
  /\ setbacks = 0

Setback == setbacks < MaxSetbacks /\ setbacks' = setbacks + 1

At(w, pc) == worker[w].pc = pc
Target(w) == worker[w].target
Move(w, pc) == worker' = [worker EXCEPT ![w].pc = pc]
Rest(w) == worker' = [worker EXCEPT ![w] = Resting]

(* The predicate that fences the writes made under a lease.                 *)
HoldsRc(w) ==
  LET row == rc[Target(w)] IN
    /\ row.status = "processing"
    /\ row.generation = worker[w].generation
    /\ ~row.expired

(* A fenced UPDATE: the row takes the status, or is left to its new owner.  *)
Close(w, status) ==
  /\ rc' = IF HoldsRc(w)
             THEN [rc EXCEPT ![Target(w)].status = status, ![Target(w)].expired = FALSE]
             ELSE rc
  /\ Rest(w)

Uncertain == {a \in Account : rc[a].status = "uncertain"}

(* ORDER BY rc_updated_at, id: rows that become uncertain come last, but    *)
(* rc_updated_at counts seconds, and those of one second are ordered by id. *)
(* Nothing moves a row that stays uncertain.                                *)
Enqueue(rows) ==
  \E tied \in SUBSET Uncertain :
    /\ \A a \in tied, b \in Uncertain \ tied : a \notin ahead[b]
    /\ ahead' = [a \in Account |->
         CASE a \in rows -> (Uncertain \ tied) \cup {b \in tied \cup rows : b < a}
           [] a \in tied -> ahead[a] \cup {b \in rows : b < a}
           [] OTHER -> ahead[a]]

Dequeue(a) ==
  ahead' = [b \in Account |-> IF b = a THEN {} ELSE ahead[b] \ {a}]

(* The list has room for a.                                                 *)
Listed(a) == Cardinality(ahead[a]) < BatchSize

history == << broadcasts, backed, unrecorded >>

------------------------------------------------------------------------------
(* A worker delegates.                                                      *)

ClaimAccountRcDelegation(w, a) ==
  /\ At(w, "idle")
  /\ rc[a].status = "pending"
  /\ a \in confirmed
  /\ rc[a].generation < MaxGeneration
  /\ rc' = [rc EXCEPT ![a] =
              [status |-> "processing", generation |-> @.generation + 1, expired |-> FALSE]]
  /\ worker' = [worker EXCEPT ![w] =
              [pc |-> "delegate", target |-> a, generation |-> rc[a].generation + 1]]
  /\ UNCHANGED << ahead, confirmed, hive, refusing, history, setbacks >>

(* executeTransaction throws before it broadcasts, once or whenever it is   *)
(* tried: the error may say that the delegation exists.                     *)
DelegationRefused(w) ==
  /\ At(w, "delegate")
  /\ IF Target(w) \in refusing THEN UNCHANGED setbacks ELSE Setback
  /\ Move(w, "release") \/ Move(w, "inspect")
  /\ UNCHANGED << rc, ahead, confirmed, hive, refusing, history >>

(* The broadcast succeeds, or throws although the network may have received *)
(* the transaction; then too the error may say that the delegation exists.  *)
DelegateResourceCredits(w) ==
  /\ At(w, "delegate")
  /\ Target(w) \notin refusing
  /\ broadcasts' = [broadcasts EXCEPT ![Target(w)] = @ + 1]
  /\ \/ /\ hive' = [hive EXCEPT ![Target(w)].sent = TRUE]
        /\ backed' = backed \cup {Target(w)}
        /\ Move(w, "mark") \/ Move(w, "uncertain") \/ Move(w, "inspect")
     \/ /\ Move(w, "uncertain") \/ Move(w, "inspect")
        /\ UNCHANGED << hive, backed >>
  /\ UNCHANGED << rc, ahead, confirmed, refusing, unrecorded, setbacks >>

MarkRcDelegated(w) ==
  /\ At(w, "mark") \/ At(w, "markExisting")
  /\ Close(w, "delegated")
  /\ UNCHANGED << ahead, confirmed, hive, refusing, history, setbacks >>

(* The UPDATE throws: the error lands in the same handler as the errors of  *)
(* the delegation, and is neither "exists" nor an attempted broadcast.      *)
MarkThrows(w) ==
  /\ At(w, "mark")
  /\ Setback
  /\ unrecorded' = unrecorded \cup {Target(w)}
  /\ Move(w, "release")
  /\ UNCHANGED << rc, ahead, confirmed, hive, refusing, broadcasts, backed >>

MarkRcUncertain(w) ==
  /\ At(w, "uncertain")
  /\ Close(w, "uncertain")
  /\ IF HoldsRc(w) THEN Enqueue({Target(w)}) ELSE UNCHANGED ahead
  /\ UNCHANGED << confirmed, hive, refusing, history, setbacks >>

ReleaseRcProcessing(w) ==
  /\ At(w, "release")
  /\ Close(w, "pending")
  /\ UNCHANGED << ahead, confirmed, hive, refusing, history, setbacks >>

(* Mutant: any amount counts as the delegation.                             *)
FoundAny(a) == hive[a].amount # "none"

(* fetchRcDelegationExists finds the expected amount; every other answer,   *)
(* an error or a node that lags behind among them, decides nothing.         *)
Found(a) == hive[a].amount = "expected"

ConfirmExistingRcDelegation(w) ==
  /\ At(w, "inspect")
  /\ \/ Found(Target(w)) /\ Move(w, "markExisting")
     \/ Move(w, "uncertain")
  /\ UNCHANGED << rc, ahead, confirmed, hive, refusing, history, setbacks >>

------------------------------------------------------------------------------
(* A worker resolves what is uncertain.                                     *)

Stale == {a \in Account : rc[a].status = "processing" /\ rc[a].expired}

(* Mutant: an expired row is queued again.                                  *)
RequeueStale(w) ==
  /\ At(w, "idle")
  /\ Stale # {}
  /\ rc' = [a \in Account |->
              IF a \in Stale THEN [rc[a] EXCEPT !.status = "pending", !.expired = FALSE]
                            ELSE rc[a]]
  /\ UNCHANGED << ahead, confirmed, hive, refusing, worker, history, setbacks >>

(* Mutant: a worker recovers its own rows only.                             *)
RecoverOwn(w) ==
  /\ At(w, "idle")
  /\ Target(w) \in Stale
  /\ rc' = [rc EXCEPT ![Target(w)].status = "uncertain", ![Target(w)].expired = FALSE]
  /\ Enqueue({Target(w)})
  /\ UNCHANGED << confirmed, hive, refusing, worker, history, setbacks >>

(* One UPDATE of every row whose lease has expired.                         *)
RecoverStaleRcProcessing(w) ==
  /\ At(w, "idle")
  /\ Stale # {}
  /\ rc' = [a \in Account |->
              IF a \in Stale THEN [rc[a] EXCEPT !.status = "uncertain", !.expired = FALSE]
                            ELSE rc[a]]
  /\ Enqueue(Stale)
  /\ UNCHANGED << confirmed, hive, refusing, worker, history, setbacks >>

(* A cycle reads the list once, with LIMIT BatchSize, and looks at its rows *)
(* one after the other.  Until it is resolved a row keeps its place, but    *)
(* for rows of the same second: to read the list anew for each is the same. *)
ListUncertainRcUsernames(w, a) ==
  /\ At(w, "idle")
  /\ rc[a].status = "uncertain"
  /\ a \in confirmed
  /\ Listed(a)
  /\ worker' = [worker EXCEPT ![w] = [pc |-> "lookup", target |-> a, generation |-> 0]]
  /\ UNCHANGED << rc, ahead, confirmed, hive, refusing, history, setbacks >>

LookupUncertain(w) ==
  /\ At(w, "lookup")
  /\ \/ Found(Target(w)) /\ Move(w, "observe")
     \/ ~Found(Target(w)) /\ Rest(w)
  /\ UNCHANGED << rc, ahead, confirmed, hive, refusing, history, setbacks >>

(* The lookup fails, or asks a node that lags behind: the row is held.      *)
LookupFails(w) ==
  /\ At(w, "lookup")
  /\ Rest(w)
  /\ UNCHANGED << rc, ahead, confirmed, hive, refusing, history, setbacks >>

(* Mutant: the observed delegation is recorded only under a lease.          *)
MarkObservedUnderLease(w) ==
  /\ At(w, "observe")
  /\ Close(w, "delegated")
  /\ UNCHANGED << ahead, confirmed, hive, refusing, history, setbacks >>

MarkObservedRcDelegated(w) ==
  /\ At(w, "observe")
  /\ rc' = IF rc[Target(w)].status = "uncertain"
             THEN [rc EXCEPT ![Target(w)].status = "delegated"]
             ELSE rc
  /\ Dequeue(Target(w))
  /\ Rest(w)
  /\ UNCHANGED << confirmed, hive, refusing, history, setbacks >>

------------------------------------------------------------------------------
(* What surrounds the workers.                                              *)

(* A worker dies, or an error escapes it: its row stays as it is.           *)
Crash(w) ==
  /\ ~At(w, "idle")
  /\ Setback
  /\ Rest(w)
  /\ UNCHANGED << rc, ahead, confirmed, hive, refusing, history >>

(* Two minutes pass.  A holder that is still at work then has stalled.      *)
LeaseExpires(a) ==
  /\ rc[a].status = "processing"
  /\ ~rc[a].expired
  /\ rc' = [rc EXCEPT ![a].expired = TRUE]
  /\ IF \E w \in Worker : Target(w) = a /\ HoldsRc(w)
       THEN Setback ELSE UNCHANGED setbacks
  /\ UNCHANGED << ahead, confirmed, hive, refusing, worker, history >>

(* The creation of the account becomes irreversible (AccountCreation).      *)
ConfirmAccount(a) ==
  /\ a \notin confirmed
  /\ confirmed' = confirmed \cup {a}
  /\ UNCHANGED << rc, ahead, hive, refusing, worker, history, setbacks >>

(* Hive: a delegation on its way is applied or expires, a fork may take it  *)
(* back, and the owner of the delegating account may change it by hand.     *)
ApplyDelegation(a) ==
  /\ hive[a].sent
  /\ hive' = [hive EXCEPT ![a] = [sent |-> FALSE, amount |-> "expected"]]
  /\ UNCHANGED << rc, ahead, confirmed, refusing, worker, history, setbacks >>

DropDelegation(a) ==
  /\ hive[a].sent
  /\ hive' = [hive EXCEPT ![a].sent = FALSE]
  /\ UNCHANGED << rc, ahead, confirmed, refusing, worker, history, setbacks >>

UndoDelegation(a) ==
  /\ hive[a].amount = "expected"
  /\ Setback
  /\ hive' = [hive EXCEPT ![a] = [sent |-> TRUE, amount |-> "none"]]
  /\ UNCHANGED << rc, ahead, confirmed, refusing, worker, history >>

DelegateByHand(a, amount) ==
  /\ hive[a].amount # amount
  /\ Setback
  /\ hive' = [hive EXCEPT ![a].amount = amount]
  /\ backed' = IF amount = "expected" THEN backed \cup {a} ELSE backed
  /\ UNCHANGED << rc, ahead, confirmed, refusing, worker, broadcasts, unrecorded >>

(* From now on it refuses a, whoever asks: the delegating account or the    *)
(* configuration is not in order.                                           *)
RefuseForGood(a) ==
  /\ a \notin refusing
  /\ Setback
  /\ refusing' = refusing \cup {a}
  /\ UNCHANGED << rc, ahead, confirmed, hive, worker, history >>

WorkerStep(w) ==
  \/ DelegationRefused(w)
  \/ DelegateResourceCredits(w)
  \/ MarkRcDelegated(w)
  \/ MarkRcUncertain(w)
  \/ ReleaseRcProcessing(w)
  \/ ConfirmExistingRcDelegation(w)
  \/ LookupUncertain(w)
  \/ MarkObservedRcDelegated(w)

WorkerFails(w) == MarkThrows(w) \/ LookupFails(w) \/ Crash(w)

HiveStep(a) ==
  \/ ConfirmAccount(a)
  \/ ApplyDelegation(a)
  \/ DropDelegation(a)
  \/ UndoDelegation(a)
  \/ RefuseForGood(a)
  \/ \E amount \in {"none", "expected", "other"} : DelegateByHand(a, amount)

Next ==
  \/ \E w \in Worker : WorkerStep(w) \/ WorkerFails(w) \/ RecoverStaleRcProcessing(w)
  \/ \E w \in Worker, a \in Account :
       ClaimAccountRcDelegation(w, a) \/ ListUncertainRcUsernames(w, a)
  \/ \E a \in Account : LeaseExpires(a) \/ HiveStep(a)

Spec == Init /\ [][Next]_vars

(* What a cycle does with a row it finds.                                   *)
TakeUp(a) ==
  \E w \in Worker :
    \/ a \in Stale /\ RecoverStaleRcProcessing(w)
    \/ ClaimAccountRcDelegation(w, a)
    \/ ListUncertainRcUsernames(w, a)

(* A background cycle runs again and again on every instance: it goes on    *)
(* with what it began and takes up each row that it finds again and again;  *)
(* leases expire.  Of Hive one thing is assumed: of the lookups of a row,   *)
(* repeated for ever, one is answered by a node that is up to date.         *)
Fairness ==
  /\ \A w \in Worker : WF_vars(WorkerStep(w))
  /\ \A a \in Account :
       /\ WF_vars(LeaseExpires(a))
       /\ SF_vars(TakeUp(a))
       /\ SF_vars(\E w \in Worker : Target(w) = a /\ LookupUncertain(w))

FairSpec == Spec /\ Fairness

------------------------------------------------------------------------------
(* Properties.                                                              *)

(* RC is delegated to an account at most once, unless recording an accepted *)
(* delegation threw: whatever stalls, crashes and takeovers, what may have  *)
(* been broadcast is not broadcast again (processClaimedRcDelegation,       *)
(* recoverStaleRcProcessing).                                               *)
NoBlindSecondBroadcast == \A a \in Account \ unrecorded : broadcasts[a] <= 1

(* What the tests say without that exception                                *)
(* (queue-rc-delegation.test.ts 242, "without a blind second broadcast").   *)
BroadcastAtMostOnce == \A a \in Account : broadcasts[a] <= 1

(* A row says delegated only when the network has accepted a delegation of  *)
(* the expected amount or Hive has shown one: never on an error, on another *)
(* amount, or in the place of another worker (markRcDelegated,              *)
(* markObservedRcDelegated).                                                *)
DelegatedIsBacked == \A a \in Account : rc[a].status = "delegated" => a \in backed

(* No row of a confirmed account stays pending or processing for ever, be   *)
(* its workers refused for a while, stalled or dead; but nothing ends the   *)
(* retries of one that is refused for good (processPendingRcDelegations,    *)
(* releaseRcProcessing).                                                    *)
EveryDelegationSettles ==
  \A a \in Account :
    a \in confirmed ~> rc[a].status \in {"uncertain", "delegated"} \/ a \in refusing

(* An uncertain row is resolved if Hive keeps showing its delegation, unless*)
(* it stands behind a whole list of rows whose delegation Hive does not     *)
(* keep showing: those are never resolved and never moved back              *)
(* (reconcileUncertainRcDelegations, listUncertainRcUsernames,              *)
(* applyUncertainRcLookup).                                                 *)
Unshown(a) == []<>~Found(a)

UncertainIsResolved ==
  \A a \in Account :
    \/ rc[a].status = "uncertain" /\ a \in confirmed ~> rc[a].status = "delegated"
    \/ Unshown(a)
    \/ \E others \in SUBSET (Account \ {a}) :
         Cardinality(others) = BatchSize /\ \A b \in others : Unshown(b)
==============================================================================
