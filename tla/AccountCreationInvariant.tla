------------------------ MODULE AccountCreationInvariant ------------------------
(***************************************************************************)
(* Why AccountCreation is safe: the inductive invariant its proofs rest on *)
(* (AccountCreationProofs), in named parts.                                *)
(***************************************************************************)
EXTENDS AccountCreation

(* Where a process stands.  Before "prepare", on the way to a claim and     *)
(* between two attempts it remembers no lease; the handler's own steps are  *)
(* about its own attempt, and precede its reservation up to "reserve".      *)
EarlyPC == {"idle", "session", "preflight", "lock", "reclaim", "reserve"}
OwnPC == EarlyPC \cup {"claim", "prepare", "mark", "broadcast", "outcome",
                       "complete", "confirm", "undo", "done"}
ReclaimPC == {"reclaimStale", "reclaimExpired", "rollbackStale", "rollbackExpired"}
ReconcilePC == {"rcClaim", "rcReread", "rcEvidence", "rcComplete", "rcConfirm",
                "rcRollback", "rcRelease"}
UnleasedPC == EarlyPC \cup {"claim", "reclaimStale", "reclaimExpired", "rcClaim", "done"}

ProcessesOK ==
  /\ \A p \in Process : proc[p].pc \notin {"idle", "done"} => Target(p) \in Attempt
  /\ \A p \in Process : proc[p].pc \in UnleasedPC => MyLease(p) = NoLease
  /\ \A r \in Attempt : proc[r].pc \in OwnPC => Target(r) = r
  /\ \A r \in Attempt : proc[r].pc \in EarlyPC \cup ReclaimPC => attempt[r].status = "absent"
  /\ \A w \in Reconciler : proc[w].pc \in {"idle", "confirm"} \cup ReconcilePC

(* Rows.  The initial row is reserved as it is; a signed transaction is     *)
(* recorded as such; every lease has a generation of its own.               *)
RowsOK ==
  \A a \in Attempt :
    /\ attempt[a].status = "absent" => ~attempt[a].leased /\ ~attempt[a].aged
    /\ attempt[a].status \in {"absent", "reserved"} => ~attempt[a].signed
    /\ (attempt[a].signed <=> hive[a].clock # "none")
    /\ attempt[a].leased => attempt[a].generation > 0

(* Leases.  Nobody remembers a lease from the future, and no two processes  *)
(* remember the same one.                                                   *)
LeasesOK ==
  /\ \A p \in Process : Target(p) \in Attempt =>
       /\ MyLease(p).generation <= attempt[Target(p)].generation
       /\ MyLease(p).version <= attempt[Target(p)].version
  /\ \A p, q \in Process :
       p # q /\ Target(p) = Target(q) /\ Target(p) \in Attempt
             /\ MyLease(p).generation = MyLease(q).generation
         => MyLease(p).generation = 0

(* Transactions.  Only rows past "prepared" can have sent theirs, and a     *)
(* simulation never does.                                                   *)
SentOK ==
  \A a \in Attempt :
    /\ attempt[a].status \in {"absent", "reserved", "prepared"} =>
         hive[a].tx = "unsent" /\ ~At(a, "broadcast")
    /\ Simulated(a) => /\ hive[a].tx = "unsent"
                       /\ attempt[a].status # "broadcasting"
                       /\ ~At(a, "mark") /\ ~At(a, "broadcast")
    /\ At(a, "undo") => Simulated(a)

(* The transaction is in no block and never will be.                        *)
NeverExecutes(a) == hive[a].clock = "final" /\ ~InBlock(a)

(* What a process knows from the evidence it has read: it stays true.       *)
EvidenceOK ==
  \A p \in Process :
    /\ proc[p].pc \in {"rcComplete", "rcConfirm"} => hive[Target(p)].tx = "irreversible"
    /\ proc[p].pc \in {"reclaimExpired", "rollbackExpired"} => NeverExecutes(Target(p))

(* Accounts belong to the completed attempts for their names.               *)
AccountsOK ==
  /\ CompletedHasAccount
  /\ \A u \in User : account[u] # NoAccount =>
       /\ Intent[account[u].by].user = u
       /\ account[u].status = "confirmed" => hive[account[u].by].tx = "irreversible"

------------------------------------------------------------------------------
(* The rest needs PromptClaim.                                              *)

(* A use that was given back belongs to a transaction that never executes,  *)
(* or that no handler is about to send.                                     *)
RolledBackOK ==
  \A a \in Attempt :
    /\ attempt[a].status = "rolled_back" =>
         NeverExecutes(a) \/ (hive[a].tx = "unsent" /\ ~At(a, "broadcast"))
    /\ At(a, "broadcast") /\ hive[a].tx = "unsent" =>
         attempt[a].status = "broadcasting" \/ NeverExecutes(a)

(* The handler of a can no longer move the row on: it is past its claim,    *)
(* and its lease has expired or has been taken over.                        *)
Abandoned(a) ==
  /\ ~At(a, "claim")
  /\ proc[a].pc \in {"prepare", "mark", "outcome"} =>
       attempt[a].aged \/ MyLease(a).generation < attempt[a].generation

(* What a process knows that is about to give a use back: from the row it   *)
(* read, which nobody writes while the process holds the lease.             *)
RollbacksOK ==
  \A p \in Process :
    /\ proc[p].pc \in {"reclaimStale", "rollbackStale"} =>
         /\ Abandoned(Target(p))
         /\ attempt[Target(p)].status \notin {"absent", "broadcasting"}
    /\ At(p, "rcRollback") /\ Holds(Target(p), MyLease(p)) =>
         attempt[Target(p)].status \in {"reserved", "prepared"} \/ NeverExecutes(Target(p))

(* No handler stalls between its reservation and its claim.                 *)
ClaimsOK == \A a \in Attempt : At(a, "claim") => ~attempt[a].aged

------------------------------------------------------------------------------
(* Typing; the invariant that holds in any case; what PromptClaim adds.     *)
TypeInv == TypeOK /\ ProcessesOK
BaseInv == TypeInv /\ RowsOK /\ LeasesOK /\ SentOK /\ EvidenceOK /\ AccountsOK
PromptInv == RolledBackOK /\ RollbacksOK /\ ClaimsOK
=================================================================================
