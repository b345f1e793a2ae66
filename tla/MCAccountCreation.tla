--------------------------- MODULE MCAccountCreation ---------------------------
(***************************************************************************)
(* Instances of AccountCreation for TLC.                                   *)
(***************************************************************************)
EXTENDS AccountCreation, TLC

CONSTANTS r1, r2, w1, u1, t1, k1, i1, i2

(* Two requests of one client for one name and one ticket of two uses: a    *)
(* retry or a double click, served by two instances.                        *)
RetryIntent == [r \in {r1, r2} |-> [user |-> u1, ticket |-> t1, keys |-> k1,
                                    mode |-> "broadcast"]]
TwoUses == [t \in {t1} |-> 2]
TwoInstances == (r1 :> i1) @@ (r2 :> i2)

(* A broadcast and a simulation of one name on one instance, with the only  *)
(* use of a ticket.                                                         *)
MixedIntent == [RetryIntent EXCEPT ![r2].mode = "simulate"]
OneUse == [t \in {t1} |-> 1]
OneInstance == [r \in {r1, r2} |-> i1]
==============================================================================
