------------------------------ MODULE HiveChain ------------------------------
(***************************************************************************)
(* The Hive blockchain as the application sees it, and the evidence the    *)
(* application derives from it (src/lib/creation-evidence.ts).             *)
(*                                                                         *)
(* The chain itself is external.  It is modelled from how the code uses    *)
(* it: a signed create_claimed_account transaction carries an expiration;  *)
(* it enters the network when it is broadcast; it may be included in a     *)
(* block, be forked out again, and become irreversible; once the last      *)
(* irreversible block is later than the expiration it can never execute.   *)
(* A node may lag, so it may report less than is true, never more.         *)
(***************************************************************************)
EXTENDS CreationIntents

VARIABLE
  hive         (* per attempt: where its transaction is, its expiration,    *)
               (* and whether the nodes have lost what would decide it      *)

TxPlace == {"unsent", "sent", "reversible", "irreversible"}
(* "none" until a transaction is signed, "valid" before the expiration,     *)
(* "expired" after it by the head block, "final" by the irreversible block. *)
TxClock == {"none", "valid", "expired", "final"}

ChainTypeOK == hive \in [Attempt -> [tx : TxPlace, clock : TxClock, forgotten : BOOLEAN]]

ChainInit ==
  hive = [a \in Attempt |-> [tx |-> "unsent", clock |-> "none", forgotten |-> FALSE]]

InBlock(a) == hive[a].tx \in {"reversible", "irreversible"}

------------------------------------------------------------------------------
(* Steps of the chain.                                                      *)

(* A signed transaction exists from now on; its expiration starts to run.   *)
SignTransaction(a) ==
  /\ hive[a].clock = "none"
  /\ hive' = [hive EXCEPT ![a].clock = "valid"]

(* The network accepts a transaction until its expiration.                  *)
ReceiveTransaction(a) ==
  /\ hive[a].tx = "unsent"
  /\ hive[a].clock = "valid"
  /\ hive' = [hive EXCEPT ![a].tx = "sent"]

(* A block producer includes it: an account name is created only once.      *)
IncludeTransaction(a) ==
  /\ hive[a].tx = "sent"
  /\ hive[a].clock # "final"
  /\ \A b \in Rivals(a) : ~InBlock(b)
  /\ hive' = [hive EXCEPT ![a].tx = "reversible"]

ForkOut(a) ==
  /\ hive[a].tx = "reversible"
  /\ hive' = [hive EXCEPT ![a].tx = "sent"]

BecomeIrreversible(a) ==
  /\ hive[a].tx = "reversible"
  /\ hive' = [hive EXCEPT ![a].tx = "irreversible"]

ClockExpires(a) ==
  /\ hive[a].clock = "valid"
  /\ hive' = [hive EXCEPT ![a].clock = "expired"]

(* The last irreversible block passes the expiration: by then a block that  *)
(* holds the transaction has become irreversible or has been forked out.    *)
ExpirationFinal(a) ==
  /\ hive[a].clock = "expired"
  /\ hive[a].tx # "reversible"
  /\ hive' = [hive EXCEPT ![a].clock = "final"]

(* From now on no node decides anything about the transaction: its status   *)
(* is "too_old" or unknown for good, or its block shows no operation that   *)
(* matches the attempt.                                                     *)
Forget(a) ==
  /\ hive[a].clock # "none"
  /\ ~hive[a].forgotten
  /\ hive' = [hive EXCEPT ![a].forgotten = TRUE]

ChainStep(a) ==
  \/ IncludeTransaction(a)
  \/ ForkOut(a)
  \/ BecomeIrreversible(a)
  \/ ClockExpires(a)
  \/ ExpirationFinal(a)

------------------------------------------------------------------------------
(* What transaction_status_api.find_transaction may answer, "unavailable"   *)
(* standing for a failed lookup or an answer of no known shape.             *)
StatusAnswers(a) ==
  {"unknown", "unavailable"}
    \cup (IF hive[a].tx # "unsent" THEN {"within_mempool"} ELSE {})
    \cup (IF InBlock(a) THEN {"within_reversible_block"} ELSE {})
    \cup (IF hive[a].tx = "irreversible"
            THEN {"within_irreversible_block"} ELSE {})
    \cup (IF hive[a].clock \in {"expired", "final"} /\ ~InBlock(a)
            THEN {"expired_reversible"} ELSE {})
    \cup (IF hive[a].clock = "final" /\ ~InBlock(a)
            THEN {"expired_irreversible"} ELSE {})
    \cup (IF hive[a].clock = "final" THEN {"too_old"} ELSE {})

(* Mutants: an expiration the head block has passed counts as final; a      *)
(* reversible block counts as creation.                                     *)
EvidenceOfHeadExpiry(status) ==
  CASE status = "within_irreversible_block" -> {"created", "review"}
    [] status \in {"expired_irreversible", "expired_reversible"} -> {"not_executed", "review"}
    [] status \in {"unknown", "within_mempool", "within_reversible_block"} -> {"pending"}
    [] OTHER                                -> {"review"}
EvidenceOfReversible(status) ==
  CASE status \in {"within_irreversible_block", "within_reversible_block"} -> {"created", "review"}
    [] status = "expired_irreversible"      -> {"not_executed", "review"}
    [] status \in {"unknown", "within_mempool", "expired_reversible"} -> {"pending"}
    [] OTHER                                -> {"review"}

(* The kinds of evidence one status can lead to.  An irreversible           *)
(* transaction still needs a matching operation, and an expiration the      *)
(* local clock agrees with: "review" stands for both mismatches.            *)
EvidenceKinds(status) ==
  CASE status = "within_irreversible_block" -> {"created", "review"}
    [] status = "expired_irreversible"      -> {"not_executed", "review"}
    [] status \in {"unknown", "within_mempool", "within_reversible_block",
                   "expired_reversible"}    -> {"pending"}
    [] status = "unavailable"               -> {"unavailable"}
    [] OTHER                                -> {"review"}

Decisive == {"created", "not_executed"}

(* What one lookup may conclude; without a signed transaction, "review".    *)
Evidence(a) ==
  IF hive[a].clock = "none"
    THEN {"review"}
    ELSE UNION {EvidenceKinds(s) : s \in StatusAnswers(a)}
           \ IF hive[a].forgotten THEN Decisive ELSE {}

(* A lookup that decides nothing.                                           *)
Undecided(a) == Evidence(a) \ Decisive # {}
==============================================================================
