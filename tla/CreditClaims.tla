------------------------------ MODULE CreditClaims ------------------------------
(***************************************************************************)
(* How a builder claims pending credits (src/lib/credits/claim-service.ts, *)
(* adapters/hive-claim-adapter.ts and the endpoints claim-hash and         *)
(* claim-verify).  The server draws a hash for the amount then pending, an *)
(* intent that lasts ten minutes.  The builder signs a claim_credits       *)
(* operation with that hash on Hive, and has the server verify it: the     *)
(* intent is deleted and its amount becomes available.                     *)
(*                                                                         *)
(* Hashes are drawn at random: an intent's identifier is used once.  A     *)
(* builder may hold several intents for the same pending credits.  Hive is *)
(* external: an operation is in a reversible block, from which it may drop *)
(* out, before its block is irreversible.                                  *)
(*                                                                         *)
(* claim-verify asks Hive first and completes the claim afterwards.  Only  *)
(* the answer "irreversible" (or expired_irreversible, with a payload that *)
(* Hive then does not have) gets past the adapter, and it stays true: the  *)
(* two are one step here.  Its other answers change nothing.               *)
(***************************************************************************)
EXTENDS CreditBalances

CONSTANTS
  Intent,         (* hashes of claim intents                                *)
  NoBuilder       (* an intent that does not exist yet                      *)

ASSUME ClaimAssumption == NoBuilder \notin Builder

VARIABLES
  intents,        (* per hash: the row of CreditClaimIntents                *)
  chain           (* external, per hash: its claim operation on Hive        *)

(* live: expires_at is ahead; expired rows are deleted by the next          *)
(* createClaimIntent.                                                       *)
IntentState == {"absent", "live", "expired", "deleted", "claimed"}
(* overlapped is history: another claim of the builder was completed while  *)
(* the intent was live.                                                     *)
IntentRow == [owner : Builder \cup {NoBuilder}, amount : Nat, state : IntentState,
              overlapped : BOOLEAN]
ChainState == {"none", "reversible", "irreversible"}

NoIntent == [owner |-> NoBuilder, amount |-> 0, state |-> "absent", overlapped |-> FALSE]

ClaimsInit ==
  /\ intents = [n \in Intent |-> NoIntent]
  /\ chain = [n \in Intent |-> "none"]

ClaimsTypeOK ==
  /\ intents \in [Intent -> IntentRow]
  /\ chain \in [Intent -> ChainState]
  /\ \A n \in Intent : intents[n].state # "absent" => intents[n].owner \in Builder

Live(n) == intents[n].state = "live"
LiveIntents(b) == {n \in Intent : intents[n].owner = b /\ Live(n)}

(* DELETE FROM CreditClaimIntents WHERE expires_at <= now, then the new row *)
(* for all that is pending now.                                             *)
CreateClaimIntent(b, n) ==
  /\ intents[n].state = "absent"
  /\ credits[b].pending > 0
  /\ intents' = [m \in Intent |->
       IF m = n THEN [owner |-> b, amount |-> credits[b].pending, state |-> "live",
                      overlapped |-> FALSE]
       ELSE IF intents[m].state = "expired"
       THEN [owner |-> intents[m].owner, amount |-> intents[m].amount, state |-> "deleted",
             overlapped |-> intents[m].overlapped]
       ELSE intents[m]]
  /\ UNCHANGED << credits, audit, chain >>

(* The clock passes expires_at, for every call still to come: a call takes  *)
(* its now before it waits for the transaction's turn, so one that waited   *)
(* past expires_at still claims, as if the clock had been slower.           *)
IntentExpires(n) ==
  /\ Live(n)
  /\ intents' = [intents EXCEPT ![n] =
       [owner |-> intents[n].owner, amount |-> intents[n].amount, state |-> "expired",
        overlapped |-> intents[n].overlapped]]
  /\ UNCHANGED << credits, audit, chain >>

(* The builder signs the operation in Keychain and it is broadcast, ...     *)
BroadcastClaim(n) ==
  /\ intents[n].state \notin {"absent", "claimed"}
  /\ chain[n] = "none"
  /\ chain' = [chain EXCEPT ![n] = "reversible"]
  /\ UNCHANGED << credits, audit, intents >>

(* ... its block becomes irreversible, ...                                  *)
ClaimFinalises(n) ==
  /\ chain[n] = "reversible"
  /\ chain' = [chain EXCEPT ![n] = "irreversible"]
  /\ UNCHANGED << credits, audit, intents >>

(* ... or is forked out.                                                    *)
ClaimForkedOut(n) ==
  /\ chain[n] = "reversible"
  /\ chain' = [chain EXCEPT ![n] = "none"]
  /\ UNCHANGED << credits, audit, intents >>

(* What the adapter lets through.                                           *)
VerifyHiveClaim(n) == chain[n] = "irreversible"

(* Mutant: the intent is read and not deleted.                              *)
CompleteAndKeep(n) == intents

(* The deletion of the completed intent, and what it does to the history of *)
(* the others.                                                              *)
Complete(n) ==
  [m \in Intent |->
    IF m = n
    THEN [owner |-> intents[m].owner, amount |-> intents[m].amount, state |-> "claimed",
          overlapped |-> intents[m].overlapped]
    ELSE IF m \in LiveIntents(intents[n].owner)
    THEN [owner |-> intents[m].owner, amount |-> intents[m].amount, state |-> "live",
          overlapped |-> TRUE]
    ELSE intents[m]]

(* One transaction: the intent, unexpired, is deleted and its amount is     *)
(* claimed.  If less is pending by now, all of it is rolled back and the    *)
(* intent remains.                                                          *)
CompleteClaim(n) ==
  /\ VerifyHiveClaim(n)
  /\ Live(n)
  /\ ClaimCredits(intents[n].owner, intents[n].amount)
  /\ intents' = Complete(n)
  /\ UNCHANGED chain
==============================================================================
