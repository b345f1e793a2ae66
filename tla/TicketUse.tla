------------------------------- MODULE TicketUse -------------------------------
(***************************************************************************)
(* What account creation promises about the uses of a ticket, without      *)
(* leases, reconcilers or retries: a use is held for one request, and then *)
(* either spent on its account or given back.  It is given back only if    *)
(* Hive has not created the account and never will, and it is settled only *)
(* when Hive cannot undo the account any more.                             *)
(***************************************************************************)
EXTENDS CreationIntents

CONSTANT TotalUses  (* per ticket                                           *)

VARIABLES
  left,             (* per ticket: uses not held and not spent              *)
  use,              (* per attempt: what became of its use                  *)
  executed          (* per attempt: the account is in a block of Hive       *)

useVars == << left, use, executed >>

UseState == {"none", "held", "spent", "settled", "returned"}

UseInit ==
  /\ left = TotalUses
  /\ use = [a \in Attempt |-> "none"]
  /\ executed = [a \in Attempt |-> FALSE]

Hold(a) ==
  /\ use[a] = "none"
  /\ left[Intent[a].ticket] > 0
  /\ \A b \in Rivals(a) : use[b] # "held"
  /\ left' = [left EXCEPT ![Intent[a].ticket] = @ - 1]
  /\ use' = [use EXCEPT ![a] = "held"]
  /\ UNCHANGED executed

(* An account name is recorded for one attempt only.                        *)
Spend(a) ==
  /\ use[a] = "held"
  /\ \A b \in Rivals(a) : use[b] \notin {"spent", "settled"}
  /\ use' = [use EXCEPT ![a] = "spent"]
  /\ UNCHANGED << left, executed >>

Settle(a) ==
  /\ executed[a]
  /\ \/ use[a] = "spent"
     \/ use[a] = "held" /\ \A b \in Rivals(a) : use[b] \notin {"spent", "settled"}
  /\ use' = [use EXCEPT ![a] = "settled"]
  /\ UNCHANGED << left, executed >>

GiveBack(a) ==
  /\ use[a] = "held"
  /\ ~executed[a]
  /\ left' = [left EXCEPT ![Intent[a].ticket] = @ + 1]
  /\ use' = [use EXCEPT ![a] = "returned"]
  /\ UNCHANGED executed

(* Hive executes a request only while its use is held or spent, ...         *)
Execute(a) ==
  /\ ~Simulated(a)
  /\ use[a] \in {"held", "spent"}
  /\ executed' = [executed EXCEPT ![a] = TRUE]
  /\ UNCHANGED << left, use >>

(* ... and undoes it only before it is settled.                             *)
Revert(a) ==
  /\ executed[a]
  /\ use[a] # "settled"
  /\ executed' = [executed EXCEPT ![a] = FALSE]
  /\ UNCHANGED << left, use >>

UseNext == \E a \in Attempt :
  Hold(a) \/ Spend(a) \/ Settle(a) \/ GiveBack(a) \/ Execute(a) \/ Revert(a)

UseSpec == UseInit /\ [][UseNext]_useVars
==============================================================================
