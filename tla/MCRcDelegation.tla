---------------------------- MODULE MCRcDelegation ----------------------------
(***************************************************************************)
(* Instances of RcDelegation for TLC.                                      *)
(***************************************************************************)
EXTENDS RcDelegation, TLC

(* Workers are alike.                                                       *)
Alike == Permutations(Worker)
==============================================================================
